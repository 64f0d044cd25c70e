---------------------------- MODULE CoverAssets ----------------------------
(***************************************************************************)
(* The immutable WebP files that Koha records name by their SHA-256, and    *)
(* the three programs that write them on the storage node under one lock    *)
(* (.incoming/.publish.lock): publish_cover, called by a cycle; the daily    *)
(* garbage collector; and the script with which an operator puts other      *)
(* content under a name.  Any of them may be killed at any step; the kernel  *)
(* then frees its lock.                                                     *)
(*                                                                         *)
(* An asset stands for its name and for the content of that SHA-256.  A      *)
(* cycle is reduced to what it does to assets and to references of them      *)
(* (CoverCycle has the rest); cycles and DELETE cover share .workflow.lock,  *)
(* so one of them runs at a time.                                           *)
(***************************************************************************)
EXTENDS Integers, FiniteSets

CONSTANTS Records, Assets,
          Covers,             \* per record: the assets its covers render to
          Replacements,       \* contents an operator puts under an asset's name
          None,
          Retention,          \* how old a file must be to be collected
          MaxFaults, MaxOverrides   \* bounds

ASSUME AssetAssumptions ==
  /\ None \notin Assets \cup Replacements \cup {"cycle", "collector", "override"}
  /\ Retention \in Nat \ {0}
  /\ None \notin [content : Assets \cup Replacements \cup {None}, age : 0..Retention]
  /\ MaxFaults \in Nat /\ MaxOverrides \in Nat

ASSUME CoversAreAssets == Covers \in [Records -> SUBSET Assets]

VARIABLES files,      \* assets/: content and age of each file, or None
          abandoned,  \* how many publish-*.tmp files lie in .incoming
          lock,       \* who holds .publish.lock
          koha,       \* 957$c of each record
          row,        \* status and cover_asset_sha256 of `records`; "reused" is ok, but
                      \* confirmed without writing Koha
          work,       \* cover_asset_sha256 of `pending_cover_work`
          cycle, collector, override,   \* the three programs
          crossed,    \* history: assets a collector counted as garbage between their
                      \* publication and the first reference to them
          spent       \* how much of each bound is used

vars == <<files, abandoned, lock, koha, row, work, cycle, collector, override, crossed, spent>>

References == <<koha, row, work>>
Storage    == <<files, abandoned, lock, crossed>>

Opt(S)    == S \cup {None}
Contents  == Assets \cup Replacements
Written(content) == [content |-> content, age |-> 0]

CycleIdle     == [pc |-> "idle", record |-> None, asset |-> None, after |-> "save"]
CollectorIdle == [pc |-> "idle", left |-> {}]
OverrideIdle  == [pc |-> "idle", name |-> None, new |-> None, old |-> None]

\* Files that an earlier run, or an earlier database, has left.
Leftover == [content : Assets, age : {Retention}]

Init ==
  /\ files \in {f \in [Assets -> Leftover \cup {None}] : \A a \in Assets : f[a] # None => f[a].content = a}
  /\ abandoned = 0
  /\ lock = None
  /\ koha = [r \in Records |-> None]
  /\ row  = [r \in Records |-> [status |-> "absent", asset |-> None]]
  /\ work = [r \in Records |-> None]
  /\ cycle = CycleIdle
  /\ collector = CollectorIdle
  /\ override = OverrideIdle
  /\ crossed = {}
  /\ spent = [faults |-> 0, overrides |-> 0]

OnDisk(a) == files[a] # None

-----------------------------------------------------------------------------
(* A cycle up to publish_cover.  It gives back to Koha a lost 957$c, and       *)
(* takes the asset of its checkpoint, that of the confirmed cover (only the    *)
(* PDF changed), or one it renders.  `after` is the stage after publication.    *)

Begin(r, pc, a, after) ==
  /\ cycle.pc = "idle"
  /\ row' = [row EXCEPT ![r].status = "unfinished"]
  /\ koha' = [koha EXCEPT ![r] = IF @ = None THEN row[r].asset ELSE @]
  /\ cycle' = [pc |-> pc, record |-> r, asset |-> a, after |-> after]
  /\ UNCHANGED <<Storage, collector, override, spent>>

Resume(r) ==
  /\ work[r] # None
  /\ Begin(r, "read", work[r], "koha")
  /\ UNCHANGED work

ReuseConfirmed(r) ==
  /\ row[r].status \in {"ok", "reused"} /\ row[r].asset # None
  /\ Begin(r, "read", row[r].asset, "koha")
  /\ work' = [work EXCEPT ![r] = row[r].asset]

\* The PDF's link is invalid, and the row names a published cover.  (The code also
\* wants the last failure to be a SourceResolutionError.)
Reconfirm(r) ==
  /\ row[r].status = "unfinished" /\ row[r].asset # None
  /\ OnDisk(row[r].asset)
  /\ Begin(r, "read", row[r].asset, "reuse")
  /\ UNCHANGED work

Render(r, a) ==
  /\ a \in Covers[r]
  /\ Begin(r, "publish", a, "save")
  /\ UNCHANGED work

\* A cycle that finds nothing to do.
RestoreKoha(r) ==
  /\ cycle.pc = "idle"
  /\ koha[r] = None /\ row[r].asset # None
  /\ koha' = [koha EXCEPT ![r] = row[r].asset]
  /\ UNCHANGED <<Storage, row, work, cycle, collector, override, spent>>

Continue(pc) ==
  /\ cycle' = [cycle EXCEPT !.pc = pc]
  /\ UNCHANGED <<collector, override, spent>>

\* A file that holds the content of its name.
Intact(a) == OnDisk(a) /\ files[a].content = a

\* A checkpoint is published from the asset itself: publish_cover reads it
\* before it takes the lock.
ReadAsset ==
  /\ cycle.pc = "read"
  /\ Intact(cycle.asset)
  /\ Continue("publish")
  /\ UNCHANGED <<Storage, References>>

-----------------------------------------------------------------------------
(* publish_cover under the lock.                                             *)

LockPublish ==
  /\ cycle.pc = "publish"
  /\ lock = None
  /\ lock' = "cycle"
  /\ abandoned' = 0
  /\ Continue("inspect")
  /\ UNCHANGED <<files, crossed, References>>

Published(a) ==
  /\ lock' = None
  /\ crossed' = crossed \ {a}
  /\ Continue(cycle.after)
  /\ UNCHANGED References

ReuseFile ==
  /\ cycle.pc = "inspect" /\ Intact(cycle.asset)
  /\ Published(cycle.asset)
  /\ UNCHANGED <<files, abandoned>>

Temporary ==
  /\ abandoned' = abandoned + 1
  /\ Continue("rename")
  /\ UNCHANGED <<lock, crossed, References>>

\* Mutant: an existing file is written again.
WriteAnyway == cycle.pc = "inspect" /\ ~Intact(cycle.asset) /\ Temporary /\ UNCHANGED files

WriteTemporary ==
  /\ cycle.pc = "inspect" /\ ~OnDisk(cycle.asset)
  /\ Temporary
  /\ UNCHANGED files

RenameTemporary ==
  /\ cycle.pc = "rename"
  /\ files' = [files EXCEPT ![cycle.asset] = Written(cycle.asset)]
  /\ abandoned' = abandoned - 1
  /\ Published(cycle.asset)

-----------------------------------------------------------------------------
(* The rest of the cycle.                                                    *)

\* Mutant: the row is not made to reference the asset.
SaveWorkOnly ==
  /\ cycle.pc = "save"
  /\ work' = [work EXCEPT ![cycle.record] = cycle.asset]
  /\ Continue("koha")
  /\ UNCHANGED <<Storage, koha, row>>

SaveCoverWork ==
  /\ cycle.pc = "save"
  /\ row'  = [row EXCEPT ![cycle.record].asset = cycle.asset]
  /\ work' = [work EXCEPT ![cycle.record] = cycle.asset]
  /\ Continue("koha")
  /\ UNCHANGED <<Storage, koha>>

WriteKoha ==
  /\ cycle.pc = "koha"
  /\ koha' = [koha EXCEPT ![cycle.record] = cycle.asset]
  /\ Continue("commit")
  /\ UNCHANGED <<Storage, row, work>>

End == cycle' = CycleIdle /\ UNCHANGED <<collector, override>>

CompleteCycle ==
  /\ cycle.pc = "commit"
  /\ row'  = [row EXCEPT ![cycle.record] = [status |-> "ok", asset |-> cycle.asset]]
  /\ work' = [work EXCEPT ![cycle.record] = None]
  /\ End
  /\ UNCHANGED <<Storage, koha, spent>>

\* The row is confirmed as it is.
ConfirmPublishedCover ==
  /\ cycle.pc = "reuse"
  /\ row'  = [row EXCEPT ![cycle.record] = [status |-> "reused", asset |-> cycle.asset]]
  /\ work' = [work EXCEPT ![cycle.record] = None]
  /\ End
  /\ UNCHANGED <<Storage, koha, spent>>

\* The asset to publish from, or the one that is there, has other content.
Refuse ==
  /\ \/ cycle.pc = "read" /\ ~Intact(cycle.asset)
     \/ cycle.pc = "inspect" /\ OnDisk(cycle.asset) /\ ~Intact(cycle.asset)
  /\ lock' = IF lock = "cycle" THEN None ELSE lock
  /\ End
  /\ UNCHANGED <<files, abandoned, crossed, References, spent>>

Fault == spent.faults < MaxFaults /\ spent' = [spent EXCEPT !.faults = @ + 1]

\* A step fails: the temporary file is removed on the way out.
FailCycle ==
  /\ cycle.pc \notin {"idle", "removing"}
  /\ Fault
  /\ lock' = IF lock = "cycle" THEN None ELSE lock
  /\ abandoned' = IF cycle.pc = "rename" THEN abandoned - 1 ELSE abandoned
  /\ End
  /\ UNCHANGED <<files, crossed, References>>

-----------------------------------------------------------------------------
(* DELETE /integrate/<n>/cover: Koha, then the row; the file stays.          *)

\* Mutant: also of an unfinished record.
RemoveAnytime(r) ==
  /\ cycle.pc = "idle"
  /\ koha' = [koha EXCEPT ![r] = None]
  /\ cycle' = [CycleIdle EXCEPT !.pc = "removing", !.record = r]
  /\ UNCHANGED <<Storage, row, work, collector, override, spent>>

RemoveFromKoha(r) ==
  /\ cycle.pc = "idle"
  /\ row[r].status # "unfinished"
  /\ koha' = [koha EXCEPT ![r] = None]
  /\ cycle' = [CycleIdle EXCEPT !.pc = "removing", !.record = r]
  /\ UNCHANGED <<Storage, row, work, collector, override, spent>>

RemoveFromState ==
  /\ cycle.pc = "removing"
  /\ row'  = [row EXCEPT ![cycle.record].asset = None]
  /\ work' = [work EXCEPT ![cycle.record] = None]
  /\ End
  /\ UNCHANGED <<Storage, koha, spent>>

-----------------------------------------------------------------------------
(* collect_garbage.                                                          *)

\* The names in `records`.  Mutant: those in Koha.
ReferencedByKoha == {koha[r] : r \in Records} \ {None}

Referenced == {row[r].asset : r \in Records} \ {None}

\* References are read, and the cutoff is taken, under the lock.
Garbage == {a \in Assets : OnDisk(a) /\ files[a].age >= Retention /\ a \notin Referenced}

\* A cycle has published this one, and is about to name it.
Crosses == IF cycle.pc = "save" THEN Garbage \cap {cycle.asset} ELSE {}

StartCollecting ==
  /\ collector.pc = "idle"
  /\ lock = None
  /\ lock' = "collector"
  /\ collector' = [pc |-> "sweep", left |-> Garbage]
  /\ crossed' = crossed \cup Crosses
  /\ UNCHANGED <<files, abandoned, References, cycle, override, spent>>

Unlink(a) ==
  /\ a \in collector.left
  /\ files' = [files EXCEPT ![a] = None]
  /\ collector' = [collector EXCEPT !.left = @ \ {a}]
  /\ UNCHANGED <<abandoned, lock, crossed, References, cycle, override, spent>>

EndCollecting ==
  /\ collector.pc = "sweep"
  /\ collector.left = {}
  /\ lock' = None
  /\ collector' = CollectorIdle
  /\ UNCHANGED <<files, abandoned, crossed, References, cycle, override, spent>>

-----------------------------------------------------------------------------
(* update_cover_asset: back up, replace, purge the CDN and read back, else     *)
(* restore.  Whether the CDN confirms is the CDN's choice.                    *)

StartOverride(a, content) ==
  /\ override.pc = "idle"
  /\ spent.overrides < MaxOverrides
  /\ spent' = [spent EXCEPT !.overrides = @ + 1]
  /\ OnDisk(a)
  /\ override' = [pc |-> "lock", name |-> a, new |-> content, old |-> None]
  /\ UNCHANGED <<Storage, References, cycle, collector>>

Override(to) == override' = to /\ UNCHANGED <<abandoned, crossed, References, cycle, collector, spent>>

BackUp ==
  /\ override.pc = "lock"
  /\ lock = None
  /\ OnDisk(override.name)
  /\ lock' = "override"
  /\ Override([override EXCEPT !.pc = "replace", !.old = files[override.name].content])
  /\ UNCHANGED files

\* The file was collected after the script had looked.
NothingToBackUp ==
  /\ override.pc = "lock"
  /\ lock = None
  /\ ~OnDisk(override.name)
  /\ Override(OverrideIdle)
  /\ UNCHANGED <<files, lock>>

Replace ==
  /\ override.pc = "replace"
  /\ files' = [files EXCEPT ![override.name] = Written(override.new)]
  /\ Override([override EXCEPT !.pc = "confirm"])
  /\ UNCHANGED lock

Confirmed ==
  /\ override.pc = "confirm"
  /\ lock' = None
  /\ Override(OverrideIdle)
  /\ UNCHANGED files

Restore ==
  /\ override.pc = "confirm"
  /\ files' = [files EXCEPT ![override.name] = Written(override.old)]
  /\ lock' = None
  /\ Override(OverrideIdle)

-----------------------------------------------------------------------------
(* Any program may be killed; time passes.                                   *)

\* Mutant: the lock is a file that a dead program leaves behind.
DieKeepingLock(program) == UNCHANGED lock

Die(program) == lock' = IF lock = program THEN None ELSE lock

KillCycle ==
  /\ cycle.pc # "idle"
  /\ Fault
  /\ Die("cycle")
  /\ End
  /\ UNCHANGED <<files, abandoned, crossed, References>>

KillCollector ==
  /\ collector.pc # "idle"
  /\ Fault
  /\ Die("collector")
  /\ collector' = CollectorIdle
  /\ UNCHANGED <<files, abandoned, crossed, References, cycle, override>>

KillOverride ==
  /\ override.pc # "idle"
  /\ Fault
  /\ Die("override")
  /\ override' = OverrideIdle
  /\ UNCHANGED <<files, abandoned, crossed, References, cycle, collector>>

\* Ages beyond Retention need not be told apart.  Nothing grows old between a
\* publication and the statement after it.
Tick ==
  /\ cycle.pc # "save"
  /\ files' = [a \in Assets |->
                 IF OnDisk(a) /\ files[a].age < Retention
                 THEN [files[a] EXCEPT !.age = @ + 1] ELSE files[a]]
  /\ UNCHANGED <<abandoned, lock, crossed, References, cycle, collector, override, spent>>

-----------------------------------------------------------------------------
CycleStep ==
  \/ ReadAsset \/ LockPublish \/ ReuseFile \/ WriteTemporary \/ RenameTemporary
  \/ SaveCoverWork \/ WriteKoha \/ CompleteCycle \/ ConfirmPublishedCover \/ Refuse
  \/ RemoveFromState

Collect == StartCollecting \/ (\E a \in Assets : Unlink(a)) \/ EndCollecting

OverrideStep == BackUp \/ NothingToBackUp \/ Replace \/ Confirmed \/ Restore

Next ==
  \/ \E r \in Records : Resume(r) \/ ReuseConfirmed(r) \/ Reconfirm(r)
                          \/ RestoreKoha(r) \/ RemoveFromKoha(r)
  \/ \E r \in Records, a \in Assets : Render(r, a)
  \/ CycleStep \/ FailCycle
  \/ Collect
  \/ \E a \in Assets, content \in Replacements : StartOverride(a, content)
  \/ OverrideStep
  \/ KillCycle \/ KillCollector \/ KillOverride
  \/ Tick

Spec == Init /\ [][Next]_vars

(* Programs that run go on; the collector's timer fires every day, and the lock *)
(* is given to it some time; time passes, however often cycles save.          *)
FairSpec ==
  /\ Spec
  /\ WF_vars(CycleStep) /\ WF_vars(OverrideStep)
  /\ SF_vars(Collect) /\ SF_vars(Tick)

-----------------------------------------------------------------------------
(* Properties.                                                               *)

CycleStages == {"idle", "read", "publish", "inspect", "rename", "save", "koha", "commit",
                "reuse", "removing"}

\* A file written in part would have the content None.
File == [content : Opt(Contents), age : 0..Retention]

\* Every variable holds values of the shape the code gives it.
TypeOK ==
  /\ files \in [Assets -> File \cup {None}]
  /\ abandoned \in Nat
  /\ lock \in {None, "cycle", "collector", "override"}
  /\ koha \in [Records -> Opt(Assets)]
  /\ row \in [Records -> [status : {"absent", "unfinished", "ok", "reused"}, asset : Opt(Assets)]]
  /\ work \in [Records -> Opt(Assets)]
  /\ cycle \in [pc : CycleStages, record : Opt(Records), asset : Opt(Assets),
                after : {"save", "koha", "reuse"}]
  /\ collector \in [pc : {"idle", "sweep"}, left : SUBSET Assets]
  /\ override \in [pc : {"idle", "lock", "replace", "confirm"}, name : Opt(Assets),
                   new : Opt(Replacements), old : Opt(Contents)]
  /\ crossed \subseteq Assets
  /\ spent \in [faults : Nat, overrides : Nat]

\* publish_cover writes beside the assets and renames: however it is killed, a
\* file has the content of its name, or one an operator gave it, never a part.
WholeFiles == \A a \in Assets : OnDisk(a) => files[a].content \in Contents

\* What cover_state/gc.py says of its lock: publication and deletion cannot cross, so
\* the asset that `records` names is on disk.
ReferencedOnDisk == \A r \in Records : row[r].asset # None => OnDisk(row[r].asset)

\* A name loses its file in one way only: a collector that started after publish_cover
\* had freed the lock, and before save_cover_work, counted the file as garbage.  Any
\* later publication of the asset makes good the loss.
LostOnlyIfCrossed ==
  \A r \in Records : row[r].asset \notin crossed \cup {None} => OnDisk(row[r].asset)

\* What a record shows to readers that a complete cycle has confirmed is on disk,
\* unless it is being removed, or was lost in that way.
ConfirmedOnDisk ==
  \A r \in Records :
    row[r].status = "ok" /\ koha[r] \notin crossed \cup {None} => OnDisk(koha[r])

\* Publishers killed in the middle leave at most one temporary file behind them.
AtMostOneAbandoned == abandoned <= 1

\* No program but the override changes what is stored under a name.
ContentKept ==
  [][\A a \in Assets : OnDisk(a) /\ OnDisk(a)' /\ files'[a].content # files[a].content
       => lock = "override"]_vars

\* AssetStore, the promise made to `records` and to the readers of what a complete
\* cycle has confirmed: the publisher, the collector, the override and the cycles
\* keep it together, whichever of them is killed, for all assets that no collector
\* has crossed.
Store == INSTANCE AssetStore
           WITH held  <- [a \in Assets |-> IF OnDisk(a) THEN files[a].content ELSE None],
                named <- Referenced \ crossed,
                shown <- {koha[r] : r \in {q \in Records : row[q].status = "ok"}} \ (crossed \cup {None})
KeepsStore == Store!Spec

\* DurableRow, what every worker keeps of a row.
Durable == INSTANCE DurableRow
             WITH status <- [r \in Records |->
                               IF row[r].status = "reused" THEN "ok" ELSE row[r].status],
                  asset  <- [r \in Records |-> row[r].asset],
                  worker <- cycle.record
KeepsRows == Durable!Spec

\* A file that `records` does not name is collected, or named again.
UnreferencedCollected ==
  \A a \in Assets : OnDisk(a) /\ a \notin Referenced ~> (~OnDisk(a) \/ a \in Referenced)
=============================================================================
