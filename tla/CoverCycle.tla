------------------------------ MODULE CoverCycle ------------------------------
(***************************************************************************)
(* The inside of a cycle of process_integration_logic (src/core.py) for one *)
(* record whose sources are on Google Drive: the gate that decides which    *)
(* source changed, the cover, the replacement of the PDF in DSpace, the     *)
(* write-back to Koha, the checkpoint a later cycle resumes from, and the   *)
(* commit.  Users edit Drive and Koha meanwhile; any call may fail and the  *)
(* process may die between any two steps.                                  *)
(*                                                                         *)
(* Cycles run one at a time (.workflow.lock), so there is one.  Retry       *)
(* counts and backoff are RetryLifecycle's: here an unfinished record may    *)
(* always be tried again, and "unfinished" stands for pending and failed.    *)
(* Content stands for its SHA-256, and a rendered cover for the content it   *)
(* was rendered from.                                                       *)
(***************************************************************************)
EXTENDS Integers, FiniteSets

CONSTANTS FileIds, CoverIds,             \* Drive ids of PDFs and of images
          FileContents, CoverContents,   \* what those files may hold
          Options, DefaultOption,        \* dpi and skip_optimization of a request
          None,
          UserEdits,                     \* the kinds of edits users make
          MaxEdits, MaxFaults, MaxForces, MaxRemovals    \* bounds

EditKinds == {"content", "relink", "unlink", "links", "item"}

ASSUME CycleAssumptions ==
  /\ DefaultOption \in Options
  /\ UserEdits \subseteq EditKinds
  /\ FileContents \cap CoverContents = {}
  /\ None \notin FileIds \cup CoverIds \cup FileContents \cup CoverContents \cup Options
  /\ {MaxEdits, MaxFaults, MaxForces, MaxRemovals} \subseteq Nat

Sources     == {"file", "cover"}
Ids(s)      == IF s = "file" THEN FileIds ELSE CoverIds
Contents(s) == IF s = "file" THEN FileContents ELSE CoverContents
Assets      == FileContents \cup CoverContents
Opt(S)      == S \cup {None}

VARIABLES drive,   \* what each Drive file holds
          koha,    \* the record: 956$u, 956$p, 957$c, 957$3 and the file's 856
          row,     \* its row of `records`
          work,    \* its row of `pending_cover_work`
          repo,    \* the DSpace Item, its ORIGINAL bundle and primary bitstream
          cycle,   \* the cycle under way
          spent    \* how much of each bound is used

vars == <<drive, koha, row, work, repo, cycle, spent>>

NoSource == [id |-> None, sha |-> None]

AbsentRow == [status |-> "absent", file |-> NoSource, cover |-> NoSource,
              asset |-> None, item |-> None, bit |-> None]

NoGate == [action |-> "none", sha |-> None, seen |-> None]

Idle == [pc |-> "idle", force |-> FALSE, option |-> None,
         meta |-> [file |-> None, cover |-> None, item |-> None, link |-> None],
         old |-> AbsentRow, resumed |-> None,
         gate |-> [s \in Sources |-> NoGate],
         file_work |-> FALSE, cover_work |-> FALSE,
         srcs |-> [s \in Sources |-> NoSource],
         asset |-> None, result |-> None, todo |-> {}]

Downstream == {"reuse", "cover", "save", "fetch", "item", "upload", "primary", "checkpoint",
               "koha", "readback", "cleanup"}
Stages == {"idle", "gate_file", "gate_cover", "decide", "links", "start", "removing"}
            \cup Downstream

Init ==
  /\ drive \in {d \in [FileIds \cup CoverIds -> Assets] :
                  \A s \in Sources : \A id \in Ids(s) : d[id] \in Contents(s)}
  /\ \E file \in Opt(FileIds), cover \in Opt(CoverIds) :
       /\ file # None \/ cover # None
       /\ koha = [file |-> file, cover |-> cover, asset |-> None, item |-> None, link |-> None]
  /\ row = AbsentRow
  /\ work = None
  /\ repo = [item |-> None, bits |-> {}, primary |-> None, items |-> 0, uploads |-> 0]
  /\ cycle = Idle
  /\ spent = [edits |-> 0, faults |-> 0, forces |-> 0, removals |-> 0]

External == <<drive, spent>>

-----------------------------------------------------------------------------
(* Begin: lock, read Koha and the row, restore a 957 that Koha has lost, and  *)
(* take up the checkpoint if it is for the same inputs.                      *)

Opened(r) == IF r.status = "absent" THEN [r EXCEPT !.status = "unfinished"] ELSE r

Restored ==
  [koha EXCEPT !.item  = IF @ = None THEN row.item ELSE @,
               !.asset = IF @ = None THEN row.asset ELSE @]

\* Mutant: the fingerprint of the inputs leaves out the sources.
SameOption(w, option) == w.option = option

SameInputs(w, option) ==
  w.option = option /\ \A s \in Sources : w.srcs[s].id = koha[s]

Begin(force, option) ==
  /\ cycle.pc = "idle"
  /\ koha.file # None \/ koha.cover # None
  /\ force => spent.forces < MaxForces
  /\ spent' = IF force THEN [spent EXCEPT !.forces = @ + 1] ELSE spent
  /\ row' = Opened(row)
  /\ koha' = Restored
  /\ cycle' = [Idle EXCEPT !.pc = "gate_file", !.force = force, !.option = option,
                           !.meta = [file |-> koha.file, cover |-> koha.cover,
                                     item |-> Restored.item, link |-> koha.link],
                           !.old = Opened(row),
                           !.resumed = IF work # None /\ SameInputs(work, option)
                                       THEN work ELSE None]
  /\ UNCHANGED <<drive, work, repo>>

\* With neither source there is nothing to integrate and nothing changes.
BeginWithoutSource ==
  /\ cycle.pc = "idle"
  /\ koha.file = None /\ koha.cover = None
  /\ UNCHANGED vars

-----------------------------------------------------------------------------
(* The gate (check_drive_metadata, and the shortcuts before it).             *)

Ref(s)       == cycle.meta[s]
Forced(s)    == cycle.force /\ s = "file"
Staged(s)    == cycle.resumed # None
Confirmed(s) == cycle.old.status = "ok" /\ cycle.old[s].id = Ref(s) /\ ~Forced(s)
Resumable(s) == row.status # "ok" /\ row[s].id = Ref(s)

GateAt(s)   == cycle.pc = (IF s = "file" THEN "gate_file" ELSE "gate_cover")
NextGate(s) == IF s = "file" THEN "gate_cover" ELSE "decide"

Gated(s, action, sha, seen) ==
  [cycle EXCEPT !.pc = NextGate(s),
                !.gate[s] = [action |-> action, sha |-> sha, seen |-> seen]]

AsksDrive(s) ==
  Ref(s) # None /\ ~Staged(s) /\ ~Confirmed(s) /\ ~Resumable(s)

\* No call to Drive: nothing to check, a checkpoint, an unchanged id, or an
\* unfinished cycle of the id that was confirmed last.
GateQuietly(s) ==
  /\ GateAt(s)
  /\ ~AsksDrive(s)
  /\ cycle' = IF Ref(s) = None THEN Gated(s, "none", None, None)
              ELSE IF Staged(s) THEN Gated(s, "resume", cycle.resumed.srcs[s].sha, None)
              ELSE IF Confirmed(s) THEN Gated(s, "noop", None, None)
              ELSE Gated(s, "resume", None, None)
  /\ UNCHANGED <<koha, row, work, repo, External>>

\* What Drive says is compared with the row: the same content under another id
\* is remembered at once, anything else opens the cycle.
SameContent(s) == row.status = "ok" /\ row[s].sha = drive[Ref(s)]

AskDrive(s) ==
  row' = IF SameContent(s) THEN [row EXCEPT ![s].id = Ref(s)]
                           ELSE [row EXCEPT !.status = "unfinished"]

Verdict(s, forced) ==
  IF SameContent(s) THEN (IF forced THEN "changed" ELSE "same")
  ELSE IF row[s].sha = drive[Ref(s)] THEN "resume" ELSE "changed"

GateByMetadata(s) ==
  /\ GateAt(s)
  /\ AsksDrive(s)
  /\ AskDrive(s)
  /\ cycle' = Gated(s, Verdict(s, Forced(s)), drive[Ref(s)], drive[Ref(s)])
  /\ UNCHANGED <<koha, work, repo, External>>

-----------------------------------------------------------------------------
(* What there is to do.                                                      *)

Active(s) == cycle.gate[s].action \in {"resume", "changed"}

FileWork == IF cycle.resumed # None THEN cycle.resumed.file_work \/ cycle.force
                                    ELSE Active("file")

CoverWork ==
  \/ cycle.resumed # None
  \/ cycle.old.asset = None
  \/ IF Ref("cover") # None THEN Active("cover") ELSE Active("file")

Decide ==
  /\ cycle.pc = "decide"
  /\ cycle' = [cycle EXCEPT !.file_work = FileWork, !.cover_work = CoverWork,
                            !.pc = IF FileWork \/ CoverWork THEN "start" ELSE "links"]
  /\ UNCHANGED <<koha, row, work, repo, External>>

\* _repair_missing_dspace_handle_link
KnownItem  == IF cycle.old.item # None THEN cycle.old.item ELSE cycle.meta.item
LinksLost  == Ref("file") # None /\ KnownItem # None /\ cycle.meta.link = None

NothingToDo ==
  /\ cycle.pc = "links"
  /\ ~LinksLost
  /\ cycle' = Idle
  /\ UNCHANGED <<koha, row, work, repo, External>>

RepairLinks ==
  /\ cycle.pc = "links"
  /\ LinksLost
  /\ repo.item = KnownItem
  /\ repo.primary # None
  /\ koha' = [koha EXCEPT !.link = repo.primary]
  /\ cycle' = Idle
  /\ UNCHANGED <<row, work, repo, External>>

\* The Item is gone: ask Drive again and upload the PDF anew.
ItemGone == cycle.pc = "links" /\ LinksLost /\ repo.item # KnownItem

RebuildItem ==
  /\ ItemGone
  /\ AskDrive("file")
  /\ cycle' = [cycle EXCEPT !.pc = "start", !.file_work = TRUE, !.old.bit = None,
                            !.gate["file"] = [action |-> Verdict("file", TRUE),
                                              sha |-> drive[Ref("file")],
                                              seen |-> drive[Ref("file")]]]
  /\ UNCHANGED <<koha, work, repo, External>>

\* The SHA a download must have: what Drive said at the gate, else the stored one.
\* Mutant: the stored one always.
StoredSha(s) == row[s].sha

SourceSha(s) == IF cycle.gate[s].sha # None THEN cycle.gate[s].sha ELSE row[s].sha

\* mark_pending; from here on a failure counts.
StartDownstream ==
  /\ cycle.pc = "start"
  /\ row' = [row EXCEPT !.status = "unfinished"]
  /\ cycle' = [cycle EXCEPT
       !.srcs = [s \in Sources |->
                   IF Ref(s) = None THEN NoSource ELSE [id |-> Ref(s), sha |-> SourceSha(s)]],
       !.pc = IF cycle.cover_work \/ cycle.resumed # None THEN "cover" ELSE "reuse"]
  /\ UNCHANGED <<koha, work, repo, External>>

-----------------------------------------------------------------------------
(* The cover (_run_external_cover_cycle).                                    *)

Checkpoint(asset, result) ==
  [srcs |-> cycle.srcs, option |-> cycle.option, file_work |-> cycle.file_work,
   asset |-> asset, result |-> result]

\* Mutant: the row does not name the asset yet.
SaveWorkOnly(asset, result) == work' = Checkpoint(asset, result) /\ UNCHANGED row

SaveWork(asset, result) ==
  /\ work' = Checkpoint(asset, result)
  /\ row' = [row EXCEPT !.asset = asset]

\* Only the PDF changed: the checkpoint names the confirmed cover.
ReuseCover ==
  /\ cycle.pc = "reuse"
  /\ SaveWork(cycle.old.asset, None)
  /\ cycle' = [cycle EXCEPT !.pc = "cover", !.resumed = Checkpoint(cycle.old.asset, None)]
  /\ UNCHANGED <<koha, repo, External>>

\* A download counts only with the SHA the gate saw or the row holds.  A copy
\* may be in the download cache when the gate asked Drive in this cycle.
Obtainable(s) == cycle.srcs[s].id # None /\
                 cycle.srcs[s].sha \in {drive[cycle.srcs[s].id], cycle.gate[s].seen}
Current(s)    == cycle.srcs[s].id # None /\ drive[cycle.srcs[s].id] = cycle.srcs[s].sha

\* An explicit cover goes before the first page of the PDF.  Mutant: it does not.
PdfFirst      == IF cycle.srcs["file"].id # None THEN "file" ELSE "cover"

CoverSource   == IF cycle.srcs["cover"].id # None THEN "cover" ELSE "file"

AfterCover(result) == IF cycle.file_work /\ result = None THEN "fetch" ELSE "koha"

ResumeCover ==
  /\ cycle.pc = "cover"
  /\ cycle.resumed # None
  /\ cycle' = [cycle EXCEPT !.asset = cycle.resumed.asset, !.result = cycle.resumed.result,
                            !.pc = AfterCover(cycle.resumed.result)]
  /\ UNCHANGED <<koha, row, work, repo, External>>

RenderCover ==
  /\ cycle.pc = "cover"
  /\ cycle.resumed = None
  /\ Obtainable(CoverSource)
  /\ cycle' = [cycle EXCEPT !.asset = cycle.srcs[CoverSource].sha, !.pc = "save"]
  /\ UNCHANGED <<koha, row, work, repo, External>>

\* Mutant: the new checkpoint keeps the DSpace result of the old one.
SaveCoverKeepingResult ==
  /\ cycle.pc = "save"
  /\ SaveWork(cycle.asset, IF work = None THEN None ELSE work.result)
  /\ cycle' = [cycle EXCEPT !.pc = AfterCover(None)]
  /\ UNCHANGED <<koha, repo, External>>

SaveCover ==
  /\ cycle.pc = "save"
  /\ SaveWork(cycle.asset, None)
  /\ cycle' = [cycle EXCEPT !.pc = AfterCover(None)]
  /\ UNCHANGED <<koha, repo, External>>

-----------------------------------------------------------------------------
(* The PDF (_run_integration_logic, run_dspace_workflow).                    *)

FetchFile ==
  /\ cycle.pc = "fetch"
  /\ Obtainable("file")
  /\ cycle' = [cycle EXCEPT !.pc = "item"]
  /\ UNCHANGED <<koha, row, work, repo, External>>

EnsureItem ==
  /\ cycle.pc = "item"
  /\ repo' = IF repo.item # None THEN repo
             ELSE [repo EXCEPT !.item = repo.items + 1, !.items = @ + 1]
  /\ cycle' = [cycle EXCEPT !.pc = "upload"]
  /\ UNCHANGED <<koha, row, work, External>>

\* Mutant: those of the same name are missed.
SupersededPrimary == {b.id : b \in {c \in repo.bits : c.id = repo.primary}}

\* The bitstreams the new one replaces: the primary one, the one the row
\* confirmed, and those of the same name.
Superseded ==
  {b.id : b \in {c \in repo.bits :
                   \/ c.id = repo.primary
                   \/ c.id = cycle.old.bit /\ cycle.old.item = repo.item
                   \/ c.name = Ref("file")}}

\* Mutant: the old bitstreams make room for the new one.
UploadInPlace ==
  LET new == repo.uploads + 1
  IN /\ cycle.pc = "upload"
     /\ repo.item # None
     /\ repo' = [repo EXCEPT !.uploads = new,
                   !.bits = {b \in @ : b.id \notin Superseded} \cup
                              {[id |-> new, name |-> Ref("file"),
                                content |-> cycle.srcs["file"].sha]}]
     /\ cycle' = [cycle EXCEPT !.pc = "primary",
                    !.result = [item |-> repo.item, bit |-> new, old |-> Superseded]]
     /\ UNCHANGED <<koha, row, work, External>>

Upload ==
  LET new == repo.uploads + 1
  IN /\ cycle.pc = "upload"
     /\ repo.item # None
     /\ repo' = [repo EXCEPT !.uploads = new,
                   !.bits = @ \cup {[id |-> new, name |-> Ref("file"),
                                     content |-> cycle.srcs["file"].sha]}]
     /\ cycle' = [cycle EXCEPT !.pc = "primary",
                    !.result = [item |-> repo.item, bit |-> new, old |-> Superseded]]
     /\ UNCHANGED <<koha, row, work, External>>

Has(bit) == \E b \in repo.bits : b.id = bit

SetPrimary ==
  /\ cycle.pc = "primary"
  /\ Has(cycle.result.bit)
  /\ repo' = [repo EXCEPT !.primary = cycle.result.bit]
  /\ cycle' = [cycle EXCEPT !.pc = "checkpoint"]
  /\ UNCHANGED <<koha, row, work, External>>

\* Mutant: clean up before Koha is written.
CheckpointThenCleanup ==
  /\ cycle.pc = "checkpoint"
  /\ SaveWork(cycle.asset, cycle.result)
  /\ cycle' = [cycle EXCEPT !.pc = "cleanup", !.todo = cycle.result.old]
  /\ UNCHANGED <<koha, repo, External>>

CheckpointResult ==
  /\ cycle.pc = "checkpoint"
  /\ SaveWork(cycle.asset, cycle.result)
  /\ cycle' = [cycle EXCEPT !.pc = "koha"]
  /\ UNCHANGED <<koha, repo, External>>

-----------------------------------------------------------------------------
(* Write-back, clean-up and commit.                                          *)

WriteKoha ==
  /\ cycle.pc = "koha"
  /\ koha' = IF cycle.file_work
             THEN [koha EXCEPT !.asset = cycle.asset, !.item = cycle.result.item,
                               !.link = cycle.result.bit]
             ELSE [koha EXCEPT !.asset = cycle.asset]
  /\ cycle' = [cycle EXCEPT !.pc = "readback"]
  /\ UNCHANGED <<row, work, repo, External>>

ReadBack ==
  /\ koha.asset = cycle.asset
  /\ cycle.file_work => koha.item = cycle.result.item /\ koha.link = cycle.result.bit

ConfirmKoha ==
  /\ cycle.pc = "readback"
  /\ ReadBack
  /\ cycle' = [cycle EXCEPT !.pc = "cleanup",
                            !.todo = IF cycle.file_work THEN cycle.result.old ELSE {}]
  /\ UNCHANGED <<koha, row, work, repo, External>>

DeleteOld(bit) ==
  /\ cycle.pc = "cleanup"
  /\ bit \in cycle.todo
  /\ repo' = [repo EXCEPT !.bits = {b \in @ : b.id # bit},
                          !.primary = IF @ = bit THEN None ELSE @]
  /\ cycle' = [cycle EXCEPT !.todo = @ \ {bit}]
  /\ UNCHANGED <<koha, row, work, External>>

\* The ids and SHAs that were verified.  Mutant: the SHA is asked for again.
CommitFresh(s) == IF Ref(s) # None THEN [id |-> Ref(s), sha |-> drive[Ref(s)]] ELSE row[s]

Commit(s) == IF Ref(s) # None THEN cycle.srcs[s] ELSE row[s]

CompleteCycle ==
  /\ cycle.pc = "cleanup"
  /\ cycle.todo = {}
  /\ row' = [row EXCEPT !.status = "ok", !.asset = cycle.asset,
                        !.file = Commit("file"), !.cover = Commit("cover"),
                        !.item  = IF cycle.result # None THEN cycle.result.item ELSE @,
                        !.bit   = IF cycle.result # None THEN cycle.result.bit ELSE @]
  /\ work' = None
  /\ cycle' = Idle
  /\ UNCHANGED <<koha, repo, External>>

-----------------------------------------------------------------------------
(* Cycles that end early.                                                    *)

\* The code itself finds that it cannot go on.
Refused ==
  \/ cycle.pc = "links" /\ LinksLost /\ repo.item = KnownItem /\ repo.primary = None
  \/ cycle.pc = "cover" /\ cycle.resumed = None /\ ~Current(CoverSource)
  \/ cycle.pc = "fetch" /\ ~Current("file")
  \/ cycle.pc = "upload" /\ repo.item = None
  \/ cycle.pc = "primary" /\ ~Has(cycle.result.bit)
  \/ cycle.pc = "readback" /\ ~ReadBack

Refuse ==
  /\ Refused
  /\ cycle' = Idle
  /\ UNCHANGED <<koha, row, work, repo, External>>

\* A call fails, its effect done or not, or the process dies.
Stop ==
  /\ cycle.pc # "idle"
  /\ spent.faults < MaxFaults
  /\ spent' = [spent EXCEPT !.faults = @ + 1]
  /\ cycle' = Idle
  /\ UNCHANGED <<drive, koha, row, work, repo>>

\* Drive does not answer the gate: that failure is counted at once.
DriveFails(s) ==
  /\ (GateAt(s) /\ AsksDrive(s)) \/ (s = "file" /\ ItemGone)
  /\ spent.faults < MaxFaults
  /\ spent' = [spent EXCEPT !.faults = @ + 1]
  /\ row' = [row EXCEPT !.status = "unfinished"]
  /\ cycle' = Idle
  /\ UNCHANGED <<drive, koha, work, repo>>

-----------------------------------------------------------------------------
(* DELETE /integrate/<n>/cover, under the same lock: Koha, then the row.     *)

RemoveFromKoha ==
  /\ cycle.pc = "idle"
  /\ row.status # "unfinished"
  /\ spent.removals < MaxRemovals
  /\ spent' = [spent EXCEPT !.removals = @ + 1]
  /\ koha' = [koha EXCEPT !.cover = None, !.asset = None]
  /\ cycle' = [Idle EXCEPT !.pc = "removing"]
  /\ UNCHANGED <<drive, row, work, repo>>

RemoveFromState ==
  /\ cycle.pc = "removing"
  /\ IF row.status = "ok"
     THEN row' = [row EXCEPT !.cover = NoSource, !.asset = None] /\ work' = None
     ELSE UNCHANGED <<row, work>>
  /\ cycle' = Idle
  /\ UNCHANGED <<koha, repo, External>>

-----------------------------------------------------------------------------
(* Users.                                                                    *)

Edit(kind) ==
  /\ kind \in UserEdits
  /\ spent.edits < MaxEdits
  /\ spent' = [spent EXCEPT !.edits = @ + 1]
  /\ UNCHANGED <<row, work, cycle>>

\* A file on Drive gets other content under the same id.
EditContent ==
  /\ Edit("content")
  /\ \E s \in Sources : \E id \in Ids(s) : \E c \in Contents(s) \ {drive[id]} :
       drive' = [drive EXCEPT ![id] = c]
  /\ UNCHANGED <<koha, repo>>

\* A librarian names another Drive file in 956 of the Koha record.
Relink ==
  /\ Edit("relink")
  /\ \E s \in Sources : \E id \in Ids(s) \ {koha[s]} : koha' = [koha EXCEPT ![s] = id]
  /\ UNCHANGED <<drive, repo>>

\* A librarian, or an import, empties one of the two fields.
Unlink ==
  /\ Edit("unlink")
  /\ koha.file # None /\ koha.cover # None
  /\ \E s \in Sources : koha' = [koha EXCEPT ![s] = None]
  /\ UNCHANGED <<drive, repo>>

\* An import drops the 856 fields of the record.
DropLinks ==
  /\ Edit("links")
  /\ koha.link # None
  /\ koha' = [koha EXCEPT !.link = None]
  /\ UNCHANGED <<drive, repo>>

\* A DSpace administrator deletes the Item.
DropItem ==
  /\ Edit("item")
  /\ repo.item # None
  /\ repo' = [repo EXCEPT !.item = None, !.bits = {}, !.primary = None]
  /\ UNCHANGED <<drive, koha>>

-----------------------------------------------------------------------------
Step ==
  \/ \E s \in Sources : GateQuietly(s) \/ GateByMetadata(s)
  \/ Decide \/ NothingToDo \/ RepairLinks \/ RebuildItem \/ StartDownstream
  \/ ReuseCover \/ ResumeCover \/ RenderCover \/ SaveCover
  \/ FetchFile \/ EnsureItem \/ Upload \/ SetPrimary \/ CheckpointResult
  \/ WriteKoha \/ ConfirmKoha \/ (\E bit \in cycle.todo : DeleteOld(bit)) \/ CompleteCycle
  \/ Refuse
  \/ RemoveFromState

Next ==
  \/ \E force \in BOOLEAN, option \in Options : Begin(force, option)
  \/ BeginWithoutSource
  \/ Step
  \/ Stop
  \/ \E s \in Sources : DriveFails(s)
  \/ RemoveFromKoha
  \/ EditContent \/ Relink \/ Unlink \/ DropLinks \/ DropItem

Spec == Init /\ [][Next]_vars

(* A cycle that runs goes on to its end, and an unfinished record is tried    *)
(* again by the scheduler, or by an operator after the cutoff.               *)
RetryUnfinished == row.status = "unfinished" /\ Begin(FALSE, DefaultOption)

FairSpec == Spec /\ WF_vars(Step) /\ WF_vars(RetryUnfinished)

-----------------------------------------------------------------------------
(* Properties.                                                               *)

BitId       == 1..repo.uploads
Link        == Opt(BitId)
SourcePair  == [id : Opt(FileIds \cup CoverIds), sha : Opt(Assets)]
SourcePairs == [Sources -> SourcePair]
Result      == [item : 1..repo.items, bit : BitId, old : SUBSET BitId]
Work        == [srcs : SourcePairs, option : Options, file_work : BOOLEAN,
                asset : Opt(Assets), result : Opt(Result)]

\* None is none of the values it stands beside.
ASSUME NoneIsNoValue ==
  /\ None \notin Int
  /\ None \notin [item : Nat, bit : Nat, old : SUBSET Nat]
  /\ None \notin [srcs : SourcePairs, option : Options, file_work : BOOLEAN, asset : Opt(Assets),
                  result : Opt([item : Nat, bit : Nat, old : SUBSET Nat])]

\* Every variable holds values of the shape the code gives it.
TypeOK ==
  /\ drive \in [FileIds \cup CoverIds -> Assets]
  /\ koha \in [file : Opt(FileIds), cover : Opt(CoverIds), asset : Opt(Assets),
               item : Opt(1..repo.items), link : Link]
  /\ row \in [status : {"absent", "unfinished", "ok"}, file : SourcePair, cover : SourcePair,
              asset : Opt(Assets), item : Opt(1..repo.items), bit : Link]
  /\ work \in Opt(Work)
  /\ repo.item \in Opt(1..repo.items)
  /\ repo.primary \in Link
  /\ repo.bits \subseteq [id : BitId, name : FileIds, content : FileContents]
  /\ cycle.pc \in Stages
  /\ cycle.resumed \in Opt(Work)
  /\ cycle.srcs \in SourcePairs
  /\ cycle.result \in Opt(Result)
  /\ cycle.todo \subseteq BitId

Holds(bit, content) == \E b \in repo.bits : b.id = bit /\ b.content = content
LinkedItemLives     == repo.item # None /\ koha.item = repo.item

\* Whatever is interrupted, edited or repeated, the file link of a Koha record
\* opens a bitstream of its Item for as long as DSpace keeps that Item.
LinkNeverDangles == LinkedItemLives /\ koha.link # None => Has(koha.link)

\* run_dspace_workflow and the clean-up after it: a bitstream goes only when the
\* durable checkpoint names its replacement, the Item holds that replacement
\* with the content the cycle verified, and Koha does not link the old one.
OldKeptUntilReplaced ==
  [][\A b \in repo.bits :
       repo'.item = repo.item /\ b \notin repo'.bits =>
         /\ work # None /\ work.result # None
         /\ b.id # work.result.bit /\ b.id # koha.link
         /\ koha.asset = work.asset
         /\ Holds(work.result.bit, work.srcs["file"].sha)]_vars

\* A record whose row is confirmed, whose 956$u is the confirmed file and whose
\* Item lives links a bitstream with the confirmed content: the gate, which
\* answers such a record without looking further, misses nothing.
ConfirmedPdfIsLinked ==
  /\ row.status = "ok" /\ koha.file = row.file.id
  /\ row.item # None /\ row.item = repo.item /\ koha.link # None
  => Holds(koha.link, row.file.sha)

\* The same of the cover: the confirmed 956$p is the cover that is shown.
ConfirmedCoverIsShown ==
  row.status = "ok" /\ koha.cover # None /\ koha.cover = row.cover.id /\ row.asset # None
  => row.asset = row.cover.sha

\* A checkpoint that holds a DSpace result stays usable until it is consumed:
\* the uploaded bitstream is there, is primary, and has the content recorded.
CheckpointHolds ==
  work # None =>
    /\ row.asset = work.asset
    /\ work.result # None /\ work.result.item = repo.item
       => Holds(work.result.bit, work.srcs["file"].sha) /\ repo.primary = work.result.bit

\* A cycle that replaces the PDF completes with exactly one copy under its name,
\* the primary one, whatever earlier attempts that were cut short had left there.
ReplacementLeavesOneCopy ==
  [][row.status # "ok" /\ row'.status = "ok" /\ cycle.file_work
       /\ repo.item = cycle.result.item
     => /\ repo.primary = cycle.result.bit
        /\ {b.id : b \in {c \in repo.bits : c.name = Ref("file")}} = {cycle.result.bit}]_vars

\* While files keep their content, the pairs of id and SHA committed by gates
\* and cycles are true of Drive.
CommittedPairsAreTrue ==
  \A s \in Sources : row[s].id # None => row[s].sha = drive[row[s].id]

\* An unfinished cycle is eventually completed by the cycles after it.
UnfinishedCompletes == row.status = "unfinished" ~> row.status = "ok"

\* DurableRow, what every worker keeps of a row.
Durable == INSTANCE DurableRow
             WITH Records <- {"it"}, Assets <- FileContents \cup CoverContents,
                  status <- [r \in {"it"} |-> row.status], asset <- [r \in {"it"} |-> row.asset],
                  worker <- IF cycle.pc = "idle" THEN None ELSE "it"
KeepsRow == Durable!Spec

\* PdfReplacement, the promise made to readers of the PDF.
Replacement == INSTANCE PdfReplacement
                 WITH link <- IF LinkedItemLives THEN koha.link ELSE None, stored <- {b.id : b \in repo.bits},
                      uploads <- repo.uploads
Replaces == Replacement!Spec
=============================================================================
