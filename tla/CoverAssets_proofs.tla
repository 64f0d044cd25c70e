------------------------- MODULE CoverAssets_proofs -------------------------
(***************************************************************************)
(* What CoverAssets promises for every set of records and assets, every      *)
(* retention period, and any number of faults and overrides.                *)
(***************************************************************************)
EXTENDS CoverAssets, TLAPS

\* A cycle is under way, between its begin and its commit.
Working == cycle.pc \notin {"idle", "removing"}

\* The lock is held in exactly these stages of the three programs.
LockInv ==
  /\ lock = "cycle"     <=> cycle.pc \in {"inspect", "rename"}
  /\ lock = "collector" <=> collector.pc = "sweep"
  /\ lock = "override"  <=> override.pc \in {"replace", "confirm"}

\* What a cycle has established about its record at each stage.
CycleInv ==
  /\ cycle.pc # "idle" => cycle.record \in Records
  /\ Working => cycle.asset \in Assets /\ row[cycle.record].status = "unfinished"
  /\ Working /\ (cycle.after # "save" \/ cycle.pc \in {"koha", "commit", "reuse"})
       => row[cycle.record].asset = cycle.asset
  /\ cycle.pc = "commit" => koha[cycle.record] = cycle.asset
  /\ cycle.pc = "removing" =>
       koha[cycle.record] = None /\ row[cycle.record].status # "unfinished"

\* Temporary files: the publisher that holds the lock has cleared what others left.
TemporaryInv ==
  /\ abandoned <= 1
  /\ cycle.pc = "inspect" => abandoned = 0
  /\ cycle.pc = "rename" => abandoned = 1 /\ ~OnDisk(cycle.asset)

\* The override has a file to put in place and, once it holds the lock, one to restore.
OverrideInv ==
  /\ override.pc # "idle" => override.name \in Assets /\ override.new \in Replacements
  /\ override.pc \in {"replace", "confirm"} => override.old \in Contents

\* A checkpoint is referenced by its row; a confirmed row agrees with Koha.
RecordInv ==
  \A r \in Records :
    /\ work[r] # None => row[r].asset = work[r]
    /\ row[r].status = "ok" /\ koha[r] # None => koha[r] = row[r].asset

\* Inductive, whenever the collector runs.
BaseInv == /\ TypeOK /\ LockInv /\ CycleInv /\ TemporaryInv /\ OverrideInv /\ RecordInv
           /\ WholeFiles

\* What the collector is going to remove is referenced by no row, nor about to be,
\* unless it crossed: nothing is published while it holds the lock.
CollectorInv ==
  /\ collector.pc = "idle" => collector.left = {}
  /\ cycle.pc = "save" /\ cycle.asset \in collector.left => cycle.asset \in crossed
  /\ \A r \in Records : row[r].asset \in collector.left => row[r].asset \in crossed

\* Inductive relative to BaseInv.
ReferenceInv == /\ CollectorInv
                /\ cycle.pc = "save" /\ cycle.asset \notin crossed => OnDisk(cycle.asset)
                /\ LostOnlyIfCrossed

USE DEF Opt, Contents

-----------------------------------------------------------------------------
(* Every step keeps each part of the invariant: one lemma per part, one step   *)
(* per action.                                                               *)

\* Types: `abandoned` is decremented only by a publisher that wrote its file.
LEMMA TypeKept ==
  ASSUME BaseInv, [Next]_vars PROVE TypeOK'
  <1> USE AssetAssumptions DEF BaseInv, TypeOK, References, Storage, CycleStages, File
  <1>1. ASSUME NEW r \in Records, Resume(r) PROVE TypeOK'
    BY <1>1 DEF Resume, Begin
  <1>2. ASSUME NEW r \in Records, ReuseConfirmed(r) PROVE TypeOK'
    BY <1>2 DEF ReuseConfirmed, Begin
  <1>2a. ASSUME NEW r \in Records, Reconfirm(r) PROVE TypeOK'
    BY <1>2a DEF Reconfirm, Begin
  <1>3. ASSUME NEW r \in Records, NEW a \in Assets, Render(r, a) PROVE TypeOK'
    BY <1>3 DEF Render, Begin
  <1>4. ASSUME NEW r \in Records, RestoreKoha(r) PROVE TypeOK'
    BY <1>4 DEF RestoreKoha
  <1>5. ASSUME ReadAsset PROVE TypeOK'
    BY <1>5 DEF ReadAsset, Continue
  <1>6. ASSUME LockPublish PROVE TypeOK'
    BY <1>6 DEF LockPublish, Continue
  <1>7. ASSUME ReuseFile PROVE TypeOK'
    BY <1>7 DEF ReuseFile, Published, Continue
  <1>8. ASSUME WriteTemporary PROVE TypeOK'
    BY <1>8 DEF WriteTemporary, Temporary, Continue
  <1>9. ASSUME RenameTemporary PROVE TypeOK'
    <2>1. cycle.asset \in Assets /\ abandoned - 1 \in Nat
      BY <1>9 DEF RenameTemporary, CycleInv, TemporaryInv, Working
    <2>2. Written(cycle.asset) \in File
      BY <2>1 DEF Written
    <2>3. QED
      BY <1>9, <2>1, <2>2 DEF RenameTemporary, Published, Continue
  <1>10. ASSUME SaveCoverWork PROVE TypeOK'
    <2>1. cycle.asset \in Assets /\ cycle.record \in Records
      BY <1>10 DEF SaveCoverWork, CycleInv, Working
    <2>2. row' \in [Records -> [status : {"absent", "unfinished", "ok", "reused"},
                               asset : Opt(Assets)]]
      BY <1>10, <2>1 DEF SaveCoverWork
    <2>3. work' \in [Records -> Opt(Assets)]
      BY <1>10, <2>1 DEF SaveCoverWork
    <2>4. QED
      BY <1>10, <2>2, <2>3 DEF SaveCoverWork, Continue
  <1>11. ASSUME WriteKoha PROVE TypeOK'
    BY <1>11 DEF WriteKoha, Continue
  <1>12. ASSUME CompleteCycle PROVE TypeOK'
    BY <1>12 DEF CompleteCycle, End, CycleIdle
  <1>12a. ASSUME ConfirmPublishedCover PROVE TypeOK'
    BY <1>12a DEF ConfirmPublishedCover, End, CycleIdle
  <1>13. ASSUME Refuse PROVE TypeOK'
    BY <1>13 DEF Refuse, End, CycleIdle
  <1>14. ASSUME FailCycle PROVE TypeOK'
    <2>1. abandoned' \in Nat
      BY <1>14 DEF FailCycle, TemporaryInv
    <2>2. QED
      BY <1>14, <2>1 DEF FailCycle, Fault, End, CycleIdle
  <1>15. ASSUME NEW r \in Records, RemoveFromKoha(r) PROVE TypeOK'
    BY <1>15 DEF RemoveFromKoha, CycleIdle
  <1>16. ASSUME RemoveFromState PROVE TypeOK'
    BY <1>16 DEF RemoveFromState, End, CycleIdle, CycleInv
  <1>17. ASSUME StartCollecting PROVE TypeOK'
    BY <1>17 DEF StartCollecting, Garbage, Crosses
  <1>18. ASSUME NEW a \in Assets, Unlink(a) PROVE TypeOK'
    BY <1>18 DEF Unlink
  <1>19. ASSUME EndCollecting PROVE TypeOK'
    BY <1>19 DEF EndCollecting, CollectorIdle
  <1>20. ASSUME NEW a \in Assets, NEW content \in Replacements, StartOverride(a, content) PROVE TypeOK'
    BY <1>20 DEF StartOverride
  <1>21. ASSUME BackUp PROVE TypeOK'
    <2>1. files[override.name] \in File
      BY <1>21 DEF BackUp, OnDisk, OverrideInv
    <2>2. files[override.name].content \in Opt(Contents)
      BY <2>1
    <2>3. QED
      BY <1>21, <2>2, ZenonT(40) DEF BackUp, Override
  <1>22. ASSUME NothingToBackUp PROVE TypeOK'
    BY <1>22 DEF NothingToBackUp, Override, OverrideIdle
  <1>23. ASSUME Replace PROVE TypeOK'
    <2>1. Written(override.new) \in File
      BY <1>23 DEF Replace, OverrideInv, Written
    <2>2. files' \in [Assets -> File \cup {None}]
      BY <1>23, <2>1 DEF Replace, OverrideInv
    <2>3. QED
      BY <1>23, <2>2, ZenonT(40) DEF Replace, Override
  <1>24. ASSUME Confirmed PROVE TypeOK'
    BY <1>24 DEF Confirmed, Override, OverrideIdle
  <1>25. ASSUME Restore PROVE TypeOK'
    <2>1. Written(override.old) \in File
      BY <1>25 DEF Restore, OverrideInv, Written
    <2>2. QED
      BY <1>25, <2>1 DEF Restore, Override, OverrideIdle
  <1>26. ASSUME KillCycle PROVE TypeOK'
    BY <1>26 DEF KillCycle, Fault, Die, End, CycleIdle
  <1>27. ASSUME KillCollector PROVE TypeOK'
    BY <1>27 DEF KillCollector, Fault, Die, CollectorIdle
  <1>28. ASSUME KillOverride PROVE TypeOK'
    BY <1>28 DEF KillOverride, Fault, Die, OverrideIdle
  <1>29. ASSUME Tick PROVE TypeOK'
    <2>1. ASSUME NEW a \in Assets PROVE files'[a] \in File \cup {None}
      <3>1. CASE OnDisk(a) /\ files[a].age < Retention
        <4>1. files[a] \in File /\ files[a].age + 1 \in 0..Retention
          BY <3>1 DEF OnDisk
        <4>2. QED
          BY <1>29, <3>1, <4>1 DEF Tick
      <3>2. CASE ~(OnDisk(a) /\ files[a].age < Retention)
        BY <1>29, <3>2 DEF Tick
      <3>3. QED
        BY <3>1, <3>2
    <2>2. QED
      BY <1>29, <2>1 DEF Tick
  <1>30. CASE UNCHANGED vars
    BY <1>30 DEF vars
  <1>31. QED
    BY <1>1, <1>2, <1>2a, <1>3, <1>4, <1>5, <1>6, <1>7, <1>8, <1>9, <1>10, <1>11, <1>12, <1>12a,
       <1>13, <1>14, <1>15, <1>16, <1>17, <1>18, <1>19, <1>20, <1>21, <1>22, <1>23, <1>24,
       <1>25, <1>26, <1>27, <1>28, <1>29, <1>30
       DEF Next, CycleStep, Collect, OverrideStep

\* The lock is taken when free, and freed by whoever holds it, alive or dead.
LEMMA LockKept ==
  ASSUME BaseInv, [Next]_vars PROVE LockInv'
  <1> USE AssetAssumptions DEF BaseInv, TypeOK, References, Storage, CycleStages, LockInv
  <1>1. ASSUME NEW r \in Records, Resume(r) PROVE LockInv'
    BY <1>1 DEF Resume, Begin
  <1>2. ASSUME NEW r \in Records, ReuseConfirmed(r) PROVE LockInv'
    BY <1>2 DEF ReuseConfirmed, Begin
  <1>2a. ASSUME NEW r \in Records, Reconfirm(r) PROVE LockInv'
    BY <1>2a DEF Reconfirm, Begin
  <1>3. ASSUME NEW r \in Records, NEW a \in Assets, Render(r, a) PROVE LockInv'
    BY <1>3 DEF Render, Begin
  <1>4. ASSUME NEW r \in Records, RestoreKoha(r) PROVE LockInv'
    BY <1>4 DEF RestoreKoha
  <1>5. ASSUME ReadAsset PROVE LockInv'
    BY <1>5 DEF ReadAsset, Continue
  <1>6. ASSUME LockPublish PROVE LockInv'
    BY <1>6 DEF LockPublish, Continue
  <1>7. ASSUME ReuseFile PROVE LockInv'
    BY <1>7 DEF ReuseFile, Published, Continue
  <1>8. ASSUME WriteTemporary PROVE LockInv'
    BY <1>8 DEF WriteTemporary, Temporary, Continue
  <1>9. ASSUME RenameTemporary PROVE LockInv'
    BY <1>9 DEF RenameTemporary, Published, Continue, Written
  <1>10. ASSUME SaveCoverWork PROVE LockInv'
    BY <1>10 DEF SaveCoverWork, Continue
  <1>11. ASSUME WriteKoha PROVE LockInv'
    BY <1>11 DEF WriteKoha, Continue
  <1>12. ASSUME CompleteCycle PROVE LockInv'
    BY <1>12 DEF CompleteCycle, End, CycleIdle
  <1>12a. ASSUME ConfirmPublishedCover PROVE LockInv'
    BY <1>12a DEF ConfirmPublishedCover, End, CycleIdle
  <1>13. ASSUME Refuse PROVE LockInv'
    BY <1>13 DEF Refuse, End, CycleIdle
  <1>14. ASSUME FailCycle PROVE LockInv'
    BY <1>14 DEF FailCycle, Fault, End, CycleIdle
  <1>15. ASSUME NEW r \in Records, RemoveFromKoha(r) PROVE LockInv'
    BY <1>15 DEF RemoveFromKoha, CycleIdle
  <1>16. ASSUME RemoveFromState PROVE LockInv'
    BY <1>16 DEF RemoveFromState, End, CycleIdle
  <1>17. ASSUME StartCollecting PROVE LockInv'
    BY <1>17 DEF StartCollecting, Garbage, Crosses
  <1>18. ASSUME NEW a \in Assets, Unlink(a) PROVE LockInv'
    BY <1>18 DEF Unlink
  <1>19. ASSUME EndCollecting PROVE LockInv'
    BY <1>19 DEF EndCollecting, CollectorIdle
  <1>20. ASSUME NEW a \in Assets, NEW content \in Replacements, StartOverride(a, content) PROVE LockInv'
    BY <1>20 DEF StartOverride
  <1>21. ASSUME BackUp PROVE LockInv'
    BY <1>21 DEF BackUp, Override
  <1>22. ASSUME NothingToBackUp PROVE LockInv'
    BY <1>22 DEF NothingToBackUp, Override, OverrideIdle
  <1>23. ASSUME Replace PROVE LockInv'
    BY <1>23 DEF Replace, Override, Written
  <1>24. ASSUME Confirmed PROVE LockInv'
    BY <1>24 DEF Confirmed, Override, OverrideIdle
  <1>25. ASSUME Restore PROVE LockInv'
    BY <1>25 DEF Restore, Override, OverrideIdle, Written
  <1>26. ASSUME KillCycle PROVE LockInv'
    BY <1>26 DEF KillCycle, Fault, Die, End, CycleIdle
  <1>27. ASSUME KillCollector PROVE LockInv'
    BY <1>27 DEF KillCollector, Fault, Die, CollectorIdle
  <1>28. ASSUME KillOverride PROVE LockInv'
    BY <1>28 DEF KillOverride, Fault, Die, OverrideIdle
  <1>29. ASSUME Tick PROVE LockInv'
    BY <1>29 DEF Tick
  <1>30. CASE UNCHANGED vars
    BY <1>30 DEF vars
  <1>31. QED
    BY <1>1, <1>2, <1>2a, <1>3, <1>4, <1>5, <1>6, <1>7, <1>8, <1>9, <1>10, <1>11, <1>12, <1>12a,
       <1>13, <1>14, <1>15, <1>16, <1>17, <1>18, <1>19, <1>20, <1>21, <1>22, <1>23, <1>24,
       <1>25, <1>26, <1>27, <1>28, <1>29, <1>30
       DEF Next, CycleStep, Collect, OverrideStep

\* A record's row changes only in the cycle of that record.
LEMMA CycleKept ==
  ASSUME BaseInv, [Next]_vars PROVE CycleInv'
  <1> USE AssetAssumptions DEF BaseInv, TypeOK, References, Storage, CycleStages, CycleInv, Working
  <1>1. ASSUME NEW r \in Records, Resume(r) PROVE CycleInv'
    <2>1. row[r].asset = work[r] /\ work[r] \in Assets
      BY <1>1 DEF Resume, RecordInv
    <2>2. QED
      BY <1>1, <2>1 DEF Resume, Begin
  <1>2. ASSUME NEW r \in Records, ReuseConfirmed(r) PROVE CycleInv'
    BY <1>2 DEF ReuseConfirmed, Begin
  <1>2a. ASSUME NEW r \in Records, Reconfirm(r) PROVE CycleInv'
    BY <1>2a DEF Reconfirm, Begin
  <1>3. ASSUME NEW r \in Records, NEW a \in Assets, Render(r, a) PROVE CycleInv'
    BY <1>3 DEF Render, Begin
  <1>4. ASSUME NEW r \in Records, RestoreKoha(r) PROVE CycleInv'
    BY <1>4 DEF RestoreKoha
  <1>5. ASSUME ReadAsset PROVE CycleInv'
    BY <1>5 DEF ReadAsset, Continue
  <1>6. ASSUME LockPublish PROVE CycleInv'
    BY <1>6 DEF LockPublish, Continue
  <1>7. ASSUME ReuseFile PROVE CycleInv'
    BY <1>7 DEF ReuseFile, Published, Continue
  <1>8. ASSUME WriteTemporary PROVE CycleInv'
    BY <1>8 DEF WriteTemporary, Temporary, Continue
  <1>9. ASSUME RenameTemporary PROVE CycleInv'
    BY <1>9 DEF RenameTemporary, Published, Continue, Written
  <1>10. ASSUME SaveCoverWork PROVE CycleInv'
    BY <1>10 DEF SaveCoverWork, Continue
  <1>11. ASSUME WriteKoha PROVE CycleInv'
    BY <1>11 DEF WriteKoha, Continue
  <1>12. ASSUME CompleteCycle PROVE CycleInv'
    BY <1>12 DEF CompleteCycle, End, CycleIdle
  <1>12a. ASSUME ConfirmPublishedCover PROVE CycleInv'
    BY <1>12a DEF ConfirmPublishedCover, End, CycleIdle
  <1>13. ASSUME Refuse PROVE CycleInv'
    BY <1>13 DEF Refuse, End, CycleIdle
  <1>14. ASSUME FailCycle PROVE CycleInv'
    BY <1>14 DEF FailCycle, Fault, End, CycleIdle
  <1>15. ASSUME NEW r \in Records, RemoveFromKoha(r) PROVE CycleInv'
    BY <1>15 DEF RemoveFromKoha, CycleIdle
  <1>16. ASSUME RemoveFromState PROVE CycleInv'
    BY <1>16 DEF RemoveFromState, End, CycleIdle
  <1>17. ASSUME StartCollecting PROVE CycleInv'
    BY <1>17 DEF StartCollecting, Garbage, Crosses
  <1>18. ASSUME NEW a \in Assets, Unlink(a) PROVE CycleInv'
    BY <1>18 DEF Unlink
  <1>19. ASSUME EndCollecting PROVE CycleInv'
    BY <1>19 DEF EndCollecting, CollectorIdle
  <1>20. ASSUME NEW a \in Assets, NEW content \in Replacements, StartOverride(a, content) PROVE CycleInv'
    BY <1>20 DEF StartOverride
  <1>21. ASSUME BackUp PROVE CycleInv'
    BY <1>21 DEF BackUp, Override
  <1>22. ASSUME NothingToBackUp PROVE CycleInv'
    BY <1>22 DEF NothingToBackUp, Override, OverrideIdle
  <1>23. ASSUME Replace PROVE CycleInv'
    BY <1>23 DEF Replace, Override, Written
  <1>24. ASSUME Confirmed PROVE CycleInv'
    BY <1>24 DEF Confirmed, Override, OverrideIdle
  <1>25. ASSUME Restore PROVE CycleInv'
    BY <1>25 DEF Restore, Override, OverrideIdle, Written
  <1>26. ASSUME KillCycle PROVE CycleInv'
    BY <1>26 DEF KillCycle, Fault, Die, End, CycleIdle
  <1>27. ASSUME KillCollector PROVE CycleInv'
    BY <1>27 DEF KillCollector, Fault, Die, CollectorIdle
  <1>28. ASSUME KillOverride PROVE CycleInv'
    BY <1>28 DEF KillOverride, Fault, Die, OverrideIdle
  <1>29. ASSUME Tick PROVE CycleInv'
    BY <1>29 DEF Tick
  <1>30. CASE UNCHANGED vars
    BY <1>30 DEF vars
  <1>31. QED
    BY <1>1, <1>2, <1>2a, <1>3, <1>4, <1>5, <1>6, <1>7, <1>8, <1>9, <1>10, <1>11, <1>12, <1>12a,
       <1>13, <1>14, <1>15, <1>16, <1>17, <1>18, <1>19, <1>20, <1>21, <1>22, <1>23, <1>24,
       <1>25, <1>26, <1>27, <1>28, <1>29, <1>30
       DEF Next, CycleStep, Collect, OverrideStep

\* A publisher clears the leftovers before it writes, and nobody else writes
\* under the name it is going to rename to.
LEMMA TemporaryKept ==
  ASSUME BaseInv, [Next]_vars PROVE TemporaryInv'
  <1> USE AssetAssumptions DEF BaseInv, TypeOK, References, Storage, CycleStages, LockInv, CycleInv, OverrideInv, Working, TemporaryInv, OnDisk
  <1>1. ASSUME NEW r \in Records, Resume(r) PROVE TemporaryInv'
    BY <1>1 DEF Resume, Begin
  <1>2. ASSUME NEW r \in Records, ReuseConfirmed(r) PROVE TemporaryInv'
    BY <1>2 DEF ReuseConfirmed, Begin
  <1>2a. ASSUME NEW r \in Records, Reconfirm(r) PROVE TemporaryInv'
    BY <1>2a DEF Reconfirm, Begin
  <1>3. ASSUME NEW r \in Records, NEW a \in Assets, Render(r, a) PROVE TemporaryInv'
    BY <1>3 DEF Render, Begin
  <1>4. ASSUME NEW r \in Records, RestoreKoha(r) PROVE TemporaryInv'
    BY <1>4 DEF RestoreKoha
  <1>5. ASSUME ReadAsset PROVE TemporaryInv'
    BY <1>5 DEF ReadAsset, Continue
  <1>6. ASSUME LockPublish PROVE TemporaryInv'
    BY <1>6 DEF LockPublish, Continue
  <1>7. ASSUME ReuseFile PROVE TemporaryInv'
    BY <1>7 DEF ReuseFile, Published, Continue
  <1>8. ASSUME WriteTemporary PROVE TemporaryInv'
    BY <1>8 DEF WriteTemporary, Temporary, Continue
  <1>9. ASSUME RenameTemporary PROVE TemporaryInv'
    BY <1>9 DEF RenameTemporary, Published, Continue, Written
  <1>10. ASSUME SaveCoverWork PROVE TemporaryInv'
    BY <1>10 DEF SaveCoverWork, Continue
  <1>11. ASSUME WriteKoha PROVE TemporaryInv'
    BY <1>11 DEF WriteKoha, Continue
  <1>12. ASSUME CompleteCycle PROVE TemporaryInv'
    BY <1>12 DEF CompleteCycle, End, CycleIdle
  <1>12a. ASSUME ConfirmPublishedCover PROVE TemporaryInv'
    BY <1>12a DEF ConfirmPublishedCover, End, CycleIdle
  <1>13. ASSUME Refuse PROVE TemporaryInv'
    BY <1>13 DEF Refuse, End, CycleIdle
  <1>14. ASSUME FailCycle PROVE TemporaryInv'
    BY <1>14 DEF FailCycle, Fault, End, CycleIdle
  <1>15. ASSUME NEW r \in Records, RemoveFromKoha(r) PROVE TemporaryInv'
    BY <1>15 DEF RemoveFromKoha, CycleIdle
  <1>16. ASSUME RemoveFromState PROVE TemporaryInv'
    BY <1>16 DEF RemoveFromState, End, CycleIdle
  <1>17. ASSUME StartCollecting PROVE TemporaryInv'
    BY <1>17 DEF StartCollecting, Garbage, Crosses
  <1>18. ASSUME NEW a \in Assets, Unlink(a) PROVE TemporaryInv'
    BY <1>18 DEF Unlink
  <1>19. ASSUME EndCollecting PROVE TemporaryInv'
    BY <1>19 DEF EndCollecting, CollectorIdle
  <1>20. ASSUME NEW a \in Assets, NEW content \in Replacements, StartOverride(a, content) PROVE TemporaryInv'
    BY <1>20 DEF StartOverride
  <1>21. ASSUME BackUp PROVE TemporaryInv'
    BY <1>21 DEF BackUp, Override
  <1>22. ASSUME NothingToBackUp PROVE TemporaryInv'
    BY <1>22 DEF NothingToBackUp, Override, OverrideIdle
  <1>23. ASSUME Replace PROVE TemporaryInv'
    BY <1>23 DEF Replace, Override, Written
  <1>24. ASSUME Confirmed PROVE TemporaryInv'
    BY <1>24 DEF Confirmed, Override, OverrideIdle
  <1>25. ASSUME Restore PROVE TemporaryInv'
    BY <1>25 DEF Restore, Override, OverrideIdle, Written
  <1>26. ASSUME KillCycle PROVE TemporaryInv'
    BY <1>26 DEF KillCycle, Fault, Die, End, CycleIdle
  <1>27. ASSUME KillCollector PROVE TemporaryInv'
    BY <1>27 DEF KillCollector, Fault, Die, CollectorIdle
  <1>28. ASSUME KillOverride PROVE TemporaryInv'
    BY <1>28 DEF KillOverride, Fault, Die, OverrideIdle
  <1>29. ASSUME Tick PROVE TemporaryInv'
    BY <1>29 DEF Tick
  <1>30. CASE UNCHANGED vars
    BY <1>30 DEF vars
  <1>31. QED
    BY <1>1, <1>2, <1>2a, <1>3, <1>4, <1>5, <1>6, <1>7, <1>8, <1>9, <1>10, <1>11, <1>12, <1>12a,
       <1>13, <1>14, <1>15, <1>16, <1>17, <1>18, <1>19, <1>20, <1>21, <1>22, <1>23, <1>24,
       <1>25, <1>26, <1>27, <1>28, <1>29, <1>30
       DEF Next, CycleStep, Collect, OverrideStep

\* The backup has whole content because every file has.
LEMMA OverrideKept ==
  ASSUME BaseInv, [Next]_vars PROVE OverrideInv'
  <1> USE AssetAssumptions DEF BaseInv, TypeOK, References, Storage, OverrideInv, WholeFiles, OnDisk
  <1>1. ASSUME NEW r \in Records, Resume(r) PROVE OverrideInv'
    BY <1>1 DEF Resume, Begin
  <1>2. ASSUME NEW r \in Records, ReuseConfirmed(r) PROVE OverrideInv'
    BY <1>2 DEF ReuseConfirmed, Begin
  <1>2a. ASSUME NEW r \in Records, Reconfirm(r) PROVE OverrideInv'
    BY <1>2a DEF Reconfirm, Begin
  <1>3. ASSUME NEW r \in Records, NEW a \in Assets, Render(r, a) PROVE OverrideInv'
    BY <1>3 DEF Render, Begin
  <1>4. ASSUME NEW r \in Records, RestoreKoha(r) PROVE OverrideInv'
    BY <1>4 DEF RestoreKoha
  <1>5. ASSUME ReadAsset PROVE OverrideInv'
    BY <1>5 DEF ReadAsset, Continue
  <1>6. ASSUME LockPublish PROVE OverrideInv'
    BY <1>6 DEF LockPublish, Continue
  <1>7. ASSUME ReuseFile PROVE OverrideInv'
    BY <1>7 DEF ReuseFile, Published, Continue
  <1>8. ASSUME WriteTemporary PROVE OverrideInv'
    BY <1>8 DEF WriteTemporary, Temporary, Continue
  <1>9. ASSUME RenameTemporary PROVE OverrideInv'
    BY <1>9 DEF RenameTemporary, Published, Continue, Written
  <1>10. ASSUME SaveCoverWork PROVE OverrideInv'
    BY <1>10 DEF SaveCoverWork, Continue
  <1>11. ASSUME WriteKoha PROVE OverrideInv'
    BY <1>11 DEF WriteKoha, Continue
  <1>12. ASSUME CompleteCycle PROVE OverrideInv'
    BY <1>12 DEF CompleteCycle, End, CycleIdle
  <1>12a. ASSUME ConfirmPublishedCover PROVE OverrideInv'
    BY <1>12a DEF ConfirmPublishedCover, End, CycleIdle
  <1>13. ASSUME Refuse PROVE OverrideInv'
    BY <1>13 DEF Refuse, End, CycleIdle
  <1>14. ASSUME FailCycle PROVE OverrideInv'
    BY <1>14 DEF FailCycle, Fault, End, CycleIdle
  <1>15. ASSUME NEW r \in Records, RemoveFromKoha(r) PROVE OverrideInv'
    BY <1>15 DEF RemoveFromKoha, CycleIdle
  <1>16. ASSUME RemoveFromState PROVE OverrideInv'
    BY <1>16 DEF RemoveFromState, End, CycleIdle
  <1>17. ASSUME StartCollecting PROVE OverrideInv'
    BY <1>17 DEF StartCollecting, Garbage, Crosses
  <1>18. ASSUME NEW a \in Assets, Unlink(a) PROVE OverrideInv'
    BY <1>18 DEF Unlink
  <1>19. ASSUME EndCollecting PROVE OverrideInv'
    BY <1>19 DEF EndCollecting, CollectorIdle
  <1>20. ASSUME NEW a \in Assets, NEW content \in Replacements, StartOverride(a, content) PROVE OverrideInv'
    BY <1>20 DEF StartOverride
  <1>21. ASSUME BackUp PROVE OverrideInv'
    BY <1>21 DEF BackUp, Override
  <1>22. ASSUME NothingToBackUp PROVE OverrideInv'
    BY <1>22 DEF NothingToBackUp, Override, OverrideIdle
  <1>23. ASSUME Replace PROVE OverrideInv'
    BY <1>23 DEF Replace, Override, Written
  <1>24. ASSUME Confirmed PROVE OverrideInv'
    BY <1>24 DEF Confirmed, Override, OverrideIdle
  <1>25. ASSUME Restore PROVE OverrideInv'
    BY <1>25 DEF Restore, Override, OverrideIdle, Written
  <1>26. ASSUME KillCycle PROVE OverrideInv'
    BY <1>26 DEF KillCycle, Fault, Die, End, CycleIdle
  <1>27. ASSUME KillCollector PROVE OverrideInv'
    BY <1>27 DEF KillCollector, Fault, Die, CollectorIdle
  <1>28. ASSUME KillOverride PROVE OverrideInv'
    BY <1>28 DEF KillOverride, Fault, Die, OverrideIdle
  <1>29. ASSUME Tick PROVE OverrideInv'
    BY <1>29 DEF Tick
  <1>30. CASE UNCHANGED vars
    BY <1>30 DEF vars
  <1>31. QED
    BY <1>1, <1>2, <1>2a, <1>3, <1>4, <1>5, <1>6, <1>7, <1>8, <1>9, <1>10, <1>11, <1>12, <1>12a,
       <1>13, <1>14, <1>15, <1>16, <1>17, <1>18, <1>19, <1>20, <1>21, <1>22, <1>23, <1>24,
       <1>25, <1>26, <1>27, <1>28, <1>29, <1>30
       DEF Next, CycleStep, Collect, OverrideStep

\* A checkpoint and the row are written together.
LEMMA RecordKept ==
  ASSUME BaseInv, [Next]_vars PROVE RecordInv'
  <1> USE AssetAssumptions DEF BaseInv, TypeOK, References, Storage, CycleInv, RecordInv, Working
  <1>1. ASSUME NEW r \in Records, Resume(r) PROVE RecordInv'
    BY <1>1 DEF Resume, Begin
  <1>2. ASSUME NEW r \in Records, ReuseConfirmed(r) PROVE RecordInv'
    BY <1>2 DEF ReuseConfirmed, Begin
  <1>2a. ASSUME NEW r \in Records, Reconfirm(r) PROVE RecordInv'
    BY <1>2a DEF Reconfirm, Begin
  <1>3. ASSUME NEW r \in Records, NEW a \in Assets, Render(r, a) PROVE RecordInv'
    BY <1>3 DEF Render, Begin
  <1>4. ASSUME NEW r \in Records, RestoreKoha(r) PROVE RecordInv'
    BY <1>4 DEF RestoreKoha
  <1>5. ASSUME ReadAsset PROVE RecordInv'
    BY <1>5 DEF ReadAsset, Continue
  <1>6. ASSUME LockPublish PROVE RecordInv'
    BY <1>6 DEF LockPublish, Continue
  <1>7. ASSUME ReuseFile PROVE RecordInv'
    BY <1>7 DEF ReuseFile, Published, Continue
  <1>8. ASSUME WriteTemporary PROVE RecordInv'
    BY <1>8 DEF WriteTemporary, Temporary, Continue
  <1>9. ASSUME RenameTemporary PROVE RecordInv'
    BY <1>9 DEF RenameTemporary, Published, Continue, Written
  <1>10. ASSUME SaveCoverWork PROVE RecordInv'
    BY <1>10 DEF SaveCoverWork, Continue
  <1>11. ASSUME WriteKoha PROVE RecordInv'
    BY <1>11 DEF WriteKoha, Continue
  <1>12. ASSUME CompleteCycle PROVE RecordInv'
    BY <1>12 DEF CompleteCycle, End, CycleIdle
  <1>12a. ASSUME ConfirmPublishedCover PROVE RecordInv'
    BY <1>12a DEF ConfirmPublishedCover, End, CycleIdle
  <1>13. ASSUME Refuse PROVE RecordInv'
    BY <1>13 DEF Refuse, End, CycleIdle
  <1>14. ASSUME FailCycle PROVE RecordInv'
    BY <1>14 DEF FailCycle, Fault, End, CycleIdle
  <1>15. ASSUME NEW r \in Records, RemoveFromKoha(r) PROVE RecordInv'
    BY <1>15 DEF RemoveFromKoha, CycleIdle
  <1>16. ASSUME RemoveFromState PROVE RecordInv'
    BY <1>16 DEF RemoveFromState, End, CycleIdle
  <1>17. ASSUME StartCollecting PROVE RecordInv'
    BY <1>17 DEF StartCollecting, Garbage, Crosses
  <1>18. ASSUME NEW a \in Assets, Unlink(a) PROVE RecordInv'
    BY <1>18 DEF Unlink
  <1>19. ASSUME EndCollecting PROVE RecordInv'
    BY <1>19 DEF EndCollecting, CollectorIdle
  <1>20. ASSUME NEW a \in Assets, NEW content \in Replacements, StartOverride(a, content) PROVE RecordInv'
    BY <1>20 DEF StartOverride
  <1>21. ASSUME BackUp PROVE RecordInv'
    BY <1>21 DEF BackUp, Override
  <1>22. ASSUME NothingToBackUp PROVE RecordInv'
    BY <1>22 DEF NothingToBackUp, Override, OverrideIdle
  <1>23. ASSUME Replace PROVE RecordInv'
    BY <1>23 DEF Replace, Override, Written
  <1>24. ASSUME Confirmed PROVE RecordInv'
    BY <1>24 DEF Confirmed, Override, OverrideIdle
  <1>25. ASSUME Restore PROVE RecordInv'
    BY <1>25 DEF Restore, Override, OverrideIdle, Written
  <1>26. ASSUME KillCycle PROVE RecordInv'
    BY <1>26 DEF KillCycle, Fault, Die, End, CycleIdle
  <1>27. ASSUME KillCollector PROVE RecordInv'
    BY <1>27 DEF KillCollector, Fault, Die, CollectorIdle
  <1>28. ASSUME KillOverride PROVE RecordInv'
    BY <1>28 DEF KillOverride, Fault, Die, OverrideIdle
  <1>29. ASSUME Tick PROVE RecordInv'
    BY <1>29 DEF Tick
  <1>30. CASE UNCHANGED vars
    BY <1>30 DEF vars
  <1>31. QED
    BY <1>1, <1>2, <1>2a, <1>3, <1>4, <1>5, <1>6, <1>7, <1>8, <1>9, <1>10, <1>11, <1>12, <1>12a,
       <1>13, <1>14, <1>15, <1>16, <1>17, <1>18, <1>19, <1>20, <1>21, <1>22, <1>23, <1>24,
       <1>25, <1>26, <1>27, <1>28, <1>29, <1>30
       DEF Next, CycleStep, Collect, OverrideStep

\* Every write puts whole content under a name.
LEMMA WholeKept ==
  ASSUME BaseInv, [Next]_vars PROVE WholeFiles'
  <1> USE AssetAssumptions DEF BaseInv, TypeOK, References, Storage, CycleInv, OverrideInv, Working, WholeFiles, OnDisk, File
  <1>1. ASSUME NEW r \in Records, Resume(r) PROVE WholeFiles'
    BY <1>1 DEF Resume, Begin
  <1>2. ASSUME NEW r \in Records, ReuseConfirmed(r) PROVE WholeFiles'
    BY <1>2 DEF ReuseConfirmed, Begin
  <1>2a. ASSUME NEW r \in Records, Reconfirm(r) PROVE WholeFiles'
    BY <1>2a DEF Reconfirm, Begin
  <1>3. ASSUME NEW r \in Records, NEW a \in Assets, Render(r, a) PROVE WholeFiles'
    BY <1>3 DEF Render, Begin
  <1>4. ASSUME NEW r \in Records, RestoreKoha(r) PROVE WholeFiles'
    BY <1>4 DEF RestoreKoha
  <1>5. ASSUME ReadAsset PROVE WholeFiles'
    BY <1>5 DEF ReadAsset, Continue
  <1>6. ASSUME LockPublish PROVE WholeFiles'
    BY <1>6 DEF LockPublish, Continue
  <1>7. ASSUME ReuseFile PROVE WholeFiles'
    BY <1>7 DEF ReuseFile, Published, Continue
  <1>8. ASSUME WriteTemporary PROVE WholeFiles'
    BY <1>8 DEF WriteTemporary, Temporary, Continue
  <1>9. ASSUME RenameTemporary PROVE WholeFiles'
    BY <1>9 DEF RenameTemporary, Published, Continue, Written
  <1>10. ASSUME SaveCoverWork PROVE WholeFiles'
    BY <1>10 DEF SaveCoverWork, Continue
  <1>11. ASSUME WriteKoha PROVE WholeFiles'
    BY <1>11 DEF WriteKoha, Continue
  <1>12. ASSUME CompleteCycle PROVE WholeFiles'
    BY <1>12 DEF CompleteCycle, End, CycleIdle
  <1>12a. ASSUME ConfirmPublishedCover PROVE WholeFiles'
    BY <1>12a DEF ConfirmPublishedCover, End, CycleIdle
  <1>13. ASSUME Refuse PROVE WholeFiles'
    BY <1>13 DEF Refuse, End, CycleIdle
  <1>14. ASSUME FailCycle PROVE WholeFiles'
    BY <1>14 DEF FailCycle, Fault, End, CycleIdle
  <1>15. ASSUME NEW r \in Records, RemoveFromKoha(r) PROVE WholeFiles'
    BY <1>15 DEF RemoveFromKoha, CycleIdle
  <1>16. ASSUME RemoveFromState PROVE WholeFiles'
    BY <1>16 DEF RemoveFromState, End, CycleIdle
  <1>17. ASSUME StartCollecting PROVE WholeFiles'
    BY <1>17 DEF StartCollecting, Garbage, Crosses
  <1>18. ASSUME NEW a \in Assets, Unlink(a) PROVE WholeFiles'
    BY <1>18 DEF Unlink
  <1>19. ASSUME EndCollecting PROVE WholeFiles'
    BY <1>19 DEF EndCollecting, CollectorIdle
  <1>20. ASSUME NEW a \in Assets, NEW content \in Replacements, StartOverride(a, content) PROVE WholeFiles'
    BY <1>20 DEF StartOverride
  <1>21. ASSUME BackUp PROVE WholeFiles'
    BY <1>21 DEF BackUp, Override
  <1>22. ASSUME NothingToBackUp PROVE WholeFiles'
    BY <1>22 DEF NothingToBackUp, Override, OverrideIdle
  <1>23. ASSUME Replace PROVE WholeFiles'
    BY <1>23 DEF Replace, Override, Written
  <1>24. ASSUME Confirmed PROVE WholeFiles'
    BY <1>24 DEF Confirmed, Override, OverrideIdle
  <1>25. ASSUME Restore PROVE WholeFiles'
    BY <1>25 DEF Restore, Override, OverrideIdle, Written
  <1>26. ASSUME KillCycle PROVE WholeFiles'
    BY <1>26 DEF KillCycle, Fault, Die, End, CycleIdle
  <1>27. ASSUME KillCollector PROVE WholeFiles'
    BY <1>27 DEF KillCollector, Fault, Die, CollectorIdle
  <1>28. ASSUME KillOverride PROVE WholeFiles'
    BY <1>28 DEF KillOverride, Fault, Die, OverrideIdle
  <1>29. ASSUME Tick PROVE WholeFiles'
    BY <1>29 DEF Tick
  <1>30. CASE UNCHANGED vars
    BY <1>30 DEF vars
  <1>31. QED
    BY <1>1, <1>2, <1>2a, <1>3, <1>4, <1>5, <1>6, <1>7, <1>8, <1>9, <1>10, <1>11, <1>12, <1>12a,
       <1>13, <1>14, <1>15, <1>16, <1>17, <1>18, <1>19, <1>20, <1>21, <1>22, <1>23, <1>24,
       <1>25, <1>26, <1>27, <1>28, <1>29, <1>30
       DEF Next, CycleStep, Collect, OverrideStep

\* While the collector holds the lock, no cycle publishes.
LEMMA CollectorKept ==
  ASSUME BaseInv, ReferenceInv, [Next]_vars PROVE CollectorInv'
  <1> USE AssetAssumptions DEF BaseInv, TypeOK, References, Storage, LockInv, CycleInv, Working, CollectorInv, ReferenceInv
  <1>1. ASSUME NEW r \in Records, Resume(r) PROVE CollectorInv'
    BY <1>1 DEF Resume, Begin
  <1>2. ASSUME NEW r \in Records, ReuseConfirmed(r) PROVE CollectorInv'
    BY <1>2 DEF ReuseConfirmed, Begin
  <1>2a. ASSUME NEW r \in Records, Reconfirm(r) PROVE CollectorInv'
    BY <1>2a DEF Reconfirm, Begin
  <1>3. ASSUME NEW r \in Records, NEW a \in Assets, Render(r, a) PROVE CollectorInv'
    BY <1>3 DEF Render, Begin
  <1>4. ASSUME NEW r \in Records, RestoreKoha(r) PROVE CollectorInv'
    BY <1>4 DEF RestoreKoha
  <1>5. ASSUME ReadAsset PROVE CollectorInv'
    BY <1>5 DEF ReadAsset, Continue
  <1>6. ASSUME LockPublish PROVE CollectorInv'
    BY <1>6 DEF LockPublish, Continue
  <1>7. ASSUME ReuseFile PROVE CollectorInv'
    BY <1>7 DEF ReuseFile, Published, Continue
  <1>8. ASSUME WriteTemporary PROVE CollectorInv'
    BY <1>8 DEF WriteTemporary, Temporary, Continue
  <1>9. ASSUME RenameTemporary PROVE CollectorInv'
    BY <1>9 DEF RenameTemporary, Published, Continue, Written
  <1>10. ASSUME SaveCoverWork PROVE CollectorInv'
    BY <1>10 DEF SaveCoverWork, Continue
  <1>11. ASSUME WriteKoha PROVE CollectorInv'
    BY <1>11 DEF WriteKoha, Continue
  <1>12. ASSUME CompleteCycle PROVE CollectorInv'
    BY <1>12 DEF CompleteCycle, End, CycleIdle
  <1>12a. ASSUME ConfirmPublishedCover PROVE CollectorInv'
    BY <1>12a DEF ConfirmPublishedCover, End, CycleIdle
  <1>13. ASSUME Refuse PROVE CollectorInv'
    BY <1>13 DEF Refuse, End, CycleIdle
  <1>14. ASSUME FailCycle PROVE CollectorInv'
    BY <1>14 DEF FailCycle, Fault, End, CycleIdle
  <1>15. ASSUME NEW r \in Records, RemoveFromKoha(r) PROVE CollectorInv'
    BY <1>15 DEF RemoveFromKoha, CycleIdle
  <1>16. ASSUME RemoveFromState PROVE CollectorInv'
    BY <1>16 DEF RemoveFromState, End, CycleIdle
  <1>17. ASSUME StartCollecting PROVE CollectorInv'
    <2>1. \A r \in Records : row[r].asset \notin Garbage
      BY DEF Garbage, Referenced
    <2>2. QED
      BY <1>17, <2>1 DEF StartCollecting, Crosses
  <1>18. ASSUME NEW a \in Assets, Unlink(a) PROVE CollectorInv'
    BY <1>18 DEF Unlink
  <1>19. ASSUME EndCollecting PROVE CollectorInv'
    BY <1>19 DEF EndCollecting, CollectorIdle
  <1>20. ASSUME NEW a \in Assets, NEW content \in Replacements, StartOverride(a, content) PROVE CollectorInv'
    BY <1>20 DEF StartOverride
  <1>21. ASSUME BackUp PROVE CollectorInv'
    BY <1>21 DEF BackUp, Override
  <1>22. ASSUME NothingToBackUp PROVE CollectorInv'
    BY <1>22 DEF NothingToBackUp, Override, OverrideIdle
  <1>23. ASSUME Replace PROVE CollectorInv'
    BY <1>23 DEF Replace, Override, Written
  <1>24. ASSUME Confirmed PROVE CollectorInv'
    BY <1>24 DEF Confirmed, Override, OverrideIdle
  <1>25. ASSUME Restore PROVE CollectorInv'
    BY <1>25 DEF Restore, Override, OverrideIdle, Written
  <1>26. ASSUME KillCycle PROVE CollectorInv'
    BY <1>26 DEF KillCycle, Fault, Die, End, CycleIdle
  <1>27. ASSUME KillCollector PROVE CollectorInv'
    BY <1>27 DEF KillCollector, Fault, Die, CollectorIdle
  <1>28. ASSUME KillOverride PROVE CollectorInv'
    BY <1>28 DEF KillOverride, Fault, Die, OverrideIdle
  <1>29. ASSUME Tick PROVE CollectorInv'
    BY <1>29 DEF Tick
  <1>30. CASE UNCHANGED vars
    BY <1>30 DEF vars
  <1>31. QED
    BY <1>1, <1>2, <1>2a, <1>3, <1>4, <1>5, <1>6, <1>7, <1>8, <1>9, <1>10, <1>11, <1>12, <1>12a,
       <1>13, <1>14, <1>15, <1>16, <1>17, <1>18, <1>19, <1>20, <1>21, <1>22, <1>23, <1>24,
       <1>25, <1>26, <1>27, <1>28, <1>29, <1>30
       DEF Next, CycleStep, Collect, OverrideStep

\* A published file stays until it is referenced, a referenced one as long as it is.
LEMMA ReferenceKept ==
  ASSUME BaseInv, ReferenceInv, [Next]_vars, CollectorInv' PROVE ReferenceInv'
  <1> USE AssetAssumptions DEF BaseInv, TypeOK, References, Storage, LockInv, CycleInv, Working, CollectorInv, ReferenceInv, LostOnlyIfCrossed, OnDisk
  <1>1. ASSUME NEW r \in Records, Resume(r) PROVE ReferenceInv'
    BY <1>1 DEF Resume, Begin
  <1>2. ASSUME NEW r \in Records, ReuseConfirmed(r) PROVE ReferenceInv'
    BY <1>2 DEF ReuseConfirmed, Begin
  <1>2a. ASSUME NEW r \in Records, Reconfirm(r) PROVE ReferenceInv'
    BY <1>2a DEF Reconfirm, Begin
  <1>3. ASSUME NEW r \in Records, NEW a \in Assets, Render(r, a) PROVE ReferenceInv'
    BY <1>3 DEF Render, Begin
  <1>4. ASSUME NEW r \in Records, RestoreKoha(r) PROVE ReferenceInv'
    BY <1>4 DEF RestoreKoha
  <1>5. ASSUME ReadAsset PROVE ReferenceInv'
    BY <1>5 DEF ReadAsset, Continue
  <1>6. ASSUME LockPublish PROVE ReferenceInv'
    BY <1>6 DEF LockPublish, Continue
  <1>7. ASSUME ReuseFile PROVE ReferenceInv'
    BY <1>7 DEF ReuseFile, Intact, Published, Continue
  <1>8. ASSUME WriteTemporary PROVE ReferenceInv'
    BY <1>8 DEF WriteTemporary, Temporary, Continue
  <1>9. ASSUME RenameTemporary PROVE ReferenceInv'
    BY <1>9 DEF RenameTemporary, Published, Continue, Written
  <1>10. ASSUME SaveCoverWork PROVE ReferenceInv'
    BY <1>10 DEF SaveCoverWork, Continue
  <1>11. ASSUME WriteKoha PROVE ReferenceInv'
    BY <1>11 DEF WriteKoha, Continue
  <1>12. ASSUME CompleteCycle PROVE ReferenceInv'
    BY <1>12 DEF CompleteCycle, End, CycleIdle
  <1>12a. ASSUME ConfirmPublishedCover PROVE ReferenceInv'
    BY <1>12a DEF ConfirmPublishedCover, End, CycleIdle
  <1>13. ASSUME Refuse PROVE ReferenceInv'
    BY <1>13 DEF Refuse, End, CycleIdle
  <1>14. ASSUME FailCycle PROVE ReferenceInv'
    BY <1>14 DEF FailCycle, Fault, End, CycleIdle
  <1>15. ASSUME NEW r \in Records, RemoveFromKoha(r) PROVE ReferenceInv'
    BY <1>15 DEF RemoveFromKoha, CycleIdle
  <1>16. ASSUME RemoveFromState PROVE ReferenceInv'
    BY <1>16 DEF RemoveFromState, End, CycleIdle
  <1>17. ASSUME StartCollecting PROVE ReferenceInv'
    BY <1>17 DEF StartCollecting, Garbage, Crosses
  <1>18. ASSUME NEW a \in Assets, Unlink(a) PROVE ReferenceInv'
    BY <1>18 DEF Unlink
  <1>19. ASSUME EndCollecting PROVE ReferenceInv'
    BY <1>19 DEF EndCollecting, CollectorIdle
  <1>20. ASSUME NEW a \in Assets, NEW content \in Replacements, StartOverride(a, content) PROVE ReferenceInv'
    BY <1>20 DEF StartOverride
  <1>21. ASSUME BackUp PROVE ReferenceInv'
    BY <1>21 DEF BackUp, Override
  <1>22. ASSUME NothingToBackUp PROVE ReferenceInv'
    BY <1>22 DEF NothingToBackUp, Override, OverrideIdle
  <1>23. ASSUME Replace PROVE ReferenceInv'
    BY <1>23 DEF Replace, Override, Written
  <1>24. ASSUME Confirmed PROVE ReferenceInv'
    BY <1>24 DEF Confirmed, Override, OverrideIdle
  <1>25. ASSUME Restore PROVE ReferenceInv'
    BY <1>25 DEF Restore, Override, OverrideIdle, Written
  <1>26. ASSUME KillCycle PROVE ReferenceInv'
    BY <1>26 DEF KillCycle, Fault, Die, End, CycleIdle
  <1>27. ASSUME KillCollector PROVE ReferenceInv'
    BY <1>27 DEF KillCollector, Fault, Die, CollectorIdle
  <1>28. ASSUME KillOverride PROVE ReferenceInv'
    BY <1>28 DEF KillOverride, Fault, Die, OverrideIdle
  <1>29. ASSUME Tick PROVE ReferenceInv'
    <2>1. ASSUME NEW a \in Assets, OnDisk(a) PROVE OnDisk(a)'
      <3>1. files[a] \in File
        BY <2>1
      <3>2. files'[a] \in File
        <4>1. CASE files[a].age < Retention
          <5>1. files[a].age + 1 \in 0..Retention
            BY <3>1, <4>1 DEF File
          <5>2. QED
            BY <1>29, <2>1, <3>1, <4>1, <5>1 DEF Tick, File
        <4>2. CASE ~(files[a].age < Retention)
          BY <1>29, <2>1, <3>1, <4>2 DEF Tick
        <4>3. QED
          BY <4>1, <4>2
      <3>3. None \notin File
        BY DEF File
      <3>4. QED
        BY <3>2, <3>3
    <2>2. QED
      BY <1>29, <2>1 DEF Tick
  <1>30. CASE UNCHANGED vars
    BY <1>30 DEF vars
  <1>31. QED
    BY <1>1, <1>2, <1>2a, <1>3, <1>4, <1>5, <1>6, <1>7, <1>8, <1>9, <1>10, <1>11, <1>12, <1>12a,
       <1>13, <1>14, <1>15, <1>16, <1>17, <1>18, <1>19, <1>20, <1>21, <1>22, <1>23, <1>24,
       <1>25, <1>26, <1>27, <1>28, <1>29, <1>30
       DEF Next, CycleStep, Collect, OverrideStep

-----------------------------------------------------------------------------
(* The invariants are inductive.                                             *)

\* The first invariant holds initially.
LEMMA BaseInit == Init => BaseInv
  <1> SUFFICES ASSUME Init PROVE BaseInv
    OBVIOUS
  <1> USE AssetAssumptions DEF Init, CycleIdle, CollectorIdle, OverrideIdle
  <1>1. TypeOK
    BY DEF TypeOK, CycleStages, Leftover, File
  <1>2. LockInv /\ CycleInv /\ TemporaryInv /\ OverrideInv
    BY DEF LockInv, CycleInv, TemporaryInv, OverrideInv, Working
  <1>3. RecordInv /\ WholeFiles
    BY DEF RecordInv, WholeFiles, OnDisk, Leftover
  <1>4. QED
    BY <1>1, <1>2, <1>3 DEF BaseInv

\* So does the second invariant.
LEMMA ReferenceInit == Init => ReferenceInv
  BY AssetAssumptions
     DEF Init, CycleIdle, CollectorIdle, ReferenceInv, CollectorInv, LostOnlyIfCrossed

\* BaseInv holds always.
LEMMA BaseInductive == Spec => []BaseInv
  <1>1. BaseInv /\ [Next]_vars => BaseInv'
    BY TypeKept, LockKept, CycleKept, TemporaryKept, OverrideKept, RecordKept, WholeKept
       DEF BaseInv
  <1>2. QED
    BY <1>1, BaseInit, PTL DEF Spec

\* ReferenceInv holds always.
LEMMA ReferenceInductive == Spec => []ReferenceInv
  <1>1. BaseInv /\ ReferenceInv /\ [Next]_vars => ReferenceInv'
    BY CollectorKept, ReferenceKept
  <1>2. QED
    BY <1>1, ReferenceInit, BaseInductive, PTL DEF Spec

-----------------------------------------------------------------------------

\* The type invariant holds.
THEOREM TypeCorrect == Spec => []TypeOK
  <1>1. BaseInv => TypeOK
    BY DEF BaseInv
  <1>2. QED
    BY <1>1, BaseInductive, PTL

\* Publication is atomic whenever the publisher is killed.
THEOREM FilesAreWhole == Spec => []WholeFiles
  <1>1. BaseInv => WholeFiles
    BY DEF BaseInv
  <1>2. QED
    BY <1>1, BaseInductive, PTL

\* However many publishers are killed, one temporary file is left at most.
THEOREM TemporariesAreBounded == Spec => []AtMostOneAbandoned
  <1>1. BaseInv => AtMostOneAbandoned
    BY DEF BaseInv, TemporaryInv, AtMostOneAbandoned
  <1>2. QED
    BY <1>1, BaseInductive, PTL

\* A name in `records` has its file, unless a collector that started between its
\* publication and the first reference to it counted it as garbage.
THEOREM ReferencesHaveFiles == Spec => []LostOnlyIfCrossed
  <1>1. ReferenceInv => LostOnlyIfCrossed
    BY DEF ReferenceInv
  <1>2. QED
    BY <1>1, ReferenceInductive, PTL

\* With the same exception readers of a confirmed record see its cover.
THEOREM ConfirmedCoversHaveFiles == Spec => []ConfirmedOnDisk
  <1>1. BaseInv /\ ReferenceInv => ConfirmedOnDisk
    <2> SUFFICES ASSUME BaseInv, ReferenceInv, NEW r \in Records,
                        row[r].status = "ok", koha[r] \notin crossed \cup {None}
                 PROVE  OnDisk(koha[r])
      BY DEF ConfirmedOnDisk
    <2>1. koha[r] = row[r].asset
      BY DEF BaseInv, RecordInv
    <2>2. QED
      BY <2>1 DEF ReferenceInv, LostOnlyIfCrossed
  <1>2. QED
    BY <1>1, BaseInductive, ReferenceInductive, PTL

\* Only the override, holding the lock, changes what a name holds.
THEOREM ContentIsKept == Spec => ContentKept
  <1>1. BaseInv /\ [Next]_vars =>
          [\A a \in Assets : OnDisk(a) /\ OnDisk(a)' /\ files'[a].content # files[a].content
             => lock = "override"]_vars
    <2> SUFFICES ASSUME BaseInv, Next, NEW a \in Assets,
                        OnDisk(a), OnDisk(a)', files'[a].content # files[a].content
                 PROVE  lock = "override"
      OBVIOUS
    <2>1. files' # files
      OBVIOUS
    <2>2. CASE RenameTemporary
      BY <2>2 DEF RenameTemporary, BaseInv, TypeOK, CycleInv, TemporaryInv, Working
    <2>3. CASE \E b \in Assets : Unlink(b)
      BY <2>3 DEF Unlink, OnDisk, BaseInv, TypeOK
    <2>4. CASE Replace \/ Restore
      BY <2>4 DEF Replace, Restore, BaseInv, LockInv
    <2>5. CASE Tick
      BY <2>5 DEF Tick, BaseInv, TypeOK, File, OnDisk
    <2>6. QED
      BY <2>1, <2>2, <2>3, <2>4, <2>5
         DEF Next, CycleStep, Collect, OverrideStep, Resume, ReuseConfirmed, Reconfirm, Render, Begin,
             RestoreKoha, RemoveFromKoha, ReadAsset, LockPublish, ReuseFile, WriteTemporary,
             SaveCoverWork, WriteKoha, CompleteCycle, ConfirmPublishedCover, Refuse, FailCycle,
             RemoveFromState,
             StartCollecting, EndCollecting, StartOverride, BackUp, NothingToBackUp, Confirmed,
             KillCycle, KillCollector, KillOverride, Storage
  <1>2. QED
    BY <1>1, BaseInductive, PTL DEF Spec, ContentKept

-----------------------------------------------------------------------------
(* The refinement of AssetStore.                                             *)

Held  == [a \in Assets |-> IF OnDisk(a) THEN files[a].content ELSE None]
Names == Referenced \ crossed
Shown == {koha[r] : r \in {q \in Records : row[q].status = "ok"}} \ (crossed \cup {None})

\* The file that the override has backed up stays until it lets go of the lock.
TargetInv == override.pc \in {"replace", "confirm"} => OnDisk(override.name)

\* A step that changes `files` is one of these.
LEMMA FileSteps ==
  ASSUME [Next]_vars, files' # files
  PROVE  RenameTemporary \/ (\E a \in Assets : Unlink(a)) \/ Replace \/ Restore \/ Tick
  BY DEF Next, CycleStep, Collect, OverrideStep, Resume, ReuseConfirmed, Reconfirm, Render, Begin,
         RestoreKoha, RemoveFromKoha, ReadAsset, LockPublish, ReuseFile, WriteTemporary,
         SaveCoverWork, WriteKoha, CompleteCycle, ConfirmPublishedCover, Refuse, FailCycle,
         RemoveFromState, StartCollecting, EndCollecting, StartOverride, BackUp, NothingToBackUp,
         Confirmed, KillCycle, KillCollector, KillOverride, Storage, vars

\* A file is no None, and time takes nothing away.
LEMMA FileIsSomething == None \notin File
  BY AssetAssumptions DEF File

LEMMA TickKeepsContents ==
  ASSUME TypeOK, Tick, NEW a \in Assets
  PROVE  (OnDisk(a)' <=> OnDisk(a)) /\ (OnDisk(a) => files'[a].content = files[a].content)
  <1>1. CASE OnDisk(a) /\ files[a].age < Retention
    <2>1. files[a] \in File
      BY <1>1 DEF TypeOK, OnDisk
    <2>2. files'[a] = [files[a] EXCEPT !.age = @ + 1]
      BY <1>1 DEF Tick
    <2>3. files[a].age + 1 \in 0..Retention
      BY <1>1, <2>1, AssetAssumptions DEF File
    <2>4. files'[a] \in File /\ files'[a].content = files[a].content
      BY <2>1, <2>2, <2>3 DEF File
    <2>5. QED
      BY <1>1, <2>4, FileIsSomething DEF OnDisk
  <1>2. CASE ~(OnDisk(a) /\ files[a].age < Retention)
    <2>1. files'[a] = files[a]
      BY <1>2 DEF Tick
    <2>2. QED
      BY <2>1 DEF OnDisk
  <1>3. QED
    BY <1>1, <1>2

\* What is written is a file.
LEMMA WrittenIsFile ==
  ASSUME NEW c \in Contents PROVE Written(c) # None /\ Written(c).content = c
  <1>1. Written(c) \in File
    BY AssetAssumptions DEF Written, File
  <1>2. QED
    BY <1>1, FileIsSomething DEF Written

\* A step that changes `override` is one of these.
LEMMA OverrideSteps ==
  ASSUME [Next]_vars, override' # override
  PROVE  \/ \E a \in Assets, content \in Replacements : StartOverride(a, content)
         \/ OverrideStep \/ KillOverride
  <1>1. CASE CycleStep \/ FailCycle \/ Collect
    BY <1>1 DEF CycleStep, FailCycle, Collect, ReadAsset, LockPublish, ReuseFile, WriteTemporary,
       Temporary, RenameTemporary, Published, Continue, SaveCoverWork, WriteKoha, CompleteCycle,
       ConfirmPublishedCover, Refuse, End, RemoveFromState, StartCollecting, Unlink, EndCollecting
  <1>2. CASE KillCycle \/ KillCollector \/ Tick \/ UNCHANGED vars
    BY <1>2 DEF KillCycle, KillCollector, End, Tick, vars
  <1>3. ASSUME NEW r \in Records,
               Resume(r) \/ ReuseConfirmed(r) \/ Reconfirm(r) \/ RestoreKoha(r) \/ RemoveFromKoha(r)
        PROVE  FALSE
    BY <1>3 DEF Resume, ReuseConfirmed, Reconfirm, Begin, RestoreKoha, RemoveFromKoha
  <1>4. ASSUME NEW r \in Records, NEW a \in Assets, Render(r, a) PROVE FALSE
    BY <1>4 DEF Render, Begin
  <1>5. QED
    BY <1>1, <1>2, <1>3, <1>4 DEF Next

LEMMA TargetKept ==
  ASSUME BaseInv, ReferenceInv, TargetInv, [Next]_vars PROVE TargetInv'
  <1> SUFFICES ASSUME override'.pc \in {"replace", "confirm"} PROVE OnDisk(override.name)'
    BY DEF TargetInv
  <1> USE DEF BaseInv, TypeOK, LockInv, TargetInv, OverrideInv
  <1>1. CASE BackUp
    BY <1>1 DEF BackUp, Override, OnDisk
  <1>2. CASE Replace
    BY <1>2, WrittenIsFile DEF Replace, Override, OnDisk
  <1>3. CASE ~BackUp /\ ~Replace
    <2>1. override' = override
      BY <1>3, OverrideSteps
         DEF StartOverride, OverrideStep, NothingToBackUp, Confirmed, Restore, Override, OverrideIdle,
             KillOverride
    <2>2. override.name \in Assets /\ OnDisk(override.name)
      BY <1>3, <2>1
    <2>3. CASE Tick
      BY <2>1, <2>2, <2>3, TickKeepsContents
    <2>4. CASE files' = files
      BY <2>1, <2>2, <2>4 DEF OnDisk
    <2>5. CASE RenameTemporary \/ (\E a \in Assets : Unlink(a)) \/ Restore
      <3>1. lock = "override"
        BY <2>1
      <3>2. QED
        BY <2>1, <2>5, <3>1
           DEF RenameTemporary, Unlink, Restore, Override, OverrideIdle, ReferenceInv, CollectorInv
    <2>6. QED
      BY <1>3, <2>3, <2>4, <2>5, FileSteps
  <1>4. QED
    BY <1>1, <1>2, <1>3

\* What the refinement mapping reads of the files, once they are whole.
LEMMA StoredIsOnDisk ==
  ASSUME WholeFiles, NEW a \in Assets
  PROVE  a \in Store!Stored <=> OnDisk(a)
  BY AssetAssumptions DEF Store!Stored, WholeFiles

\* A step that changes no content refers to what is stored, whatever it does to
\* Koha and to the rows: this is what the two invariants say.
LEMMA ReferMapped ==
  ASSUME BaseInv', ReferenceInv', WholeFiles, Held' = Held
  PROVE  Store!Refer
  <1>1. \A a \in Assets : OnDisk(a)' => a \in Store!Stored
    <2> SUFFICES ASSUME NEW a \in Assets, OnDisk(a)' PROVE a \in Store!Stored
      OBVIOUS
    <2>1. files'[a].content \in Contents /\ Held'[a] = files'[a].content
      BY DEF BaseInv, WholeFiles, Held
    <2>2. OnDisk(a)
      BY <2>1, AssetAssumptions DEF Held
    <2>3. QED
      BY <2>2, StoredIsOnDisk
  <1>2. Names' \subseteq Store!Stored
    BY <1>1 DEF ReferenceInv, LostOnlyIfCrossed, Names, Referenced, BaseInv, TypeOK
  <1>3. Shown' \subseteq Names'
    BY DEF BaseInv, RecordInv, Shown, Names, Referenced
  <1>4. QED
    BY <1>2, <1>3 DEF Store!Refer, Held, Names, Shown

\* Every step is one of AssetStore's.
LEMMA StepMapped ==
  ASSUME BaseInv, ReferenceInv, TargetInv, [Next]_vars, BaseInv', ReferenceInv'
  PROVE  Store!Next
  <1> USE DEF BaseInv, TypeOK
  <1>1. CASE Held' = Held
    BY <1>1, ReferMapped DEF Store!Next
  <1>2. CASE RenameTemporary
    <2>1. cycle.asset \in Assets /\ cycle.asset \notin Store!Stored
      BY <1>2, StoredIsOnDisk DEF RenameTemporary, TemporaryInv, CycleInv, Working
    <2>2. Held' = [Held EXCEPT ![cycle.asset] = cycle.asset]
      BY <1>2, <2>1, WrittenIsFile DEF RenameTemporary, Held, OnDisk
    <2>3. crossed' = crossed \ {cycle.asset} /\ UNCHANGED References
      BY <1>2 DEF RenameTemporary, Published
    <2>4. Names' \in {Names, Names \cup {cycle.asset}}
      BY <2>3 DEF References, Referenced, Names
    <2>5. Shown' \in {Shown, Shown \cup {cycle.asset}}
      BY <2>3 DEF References, Shown
    <2>6. Shown' \subseteq Names'
      BY DEF RecordInv, Shown, Names, Referenced
    <2>7. QED
      BY <2>1, <2>2, <2>4, <2>5, <2>6 DEF Store!Next, Store!Publish, Held, Names, Shown
  <1>3. ASSUME NEW a \in Assets, Unlink(a), OnDisk(a) PROVE Store!Next
    <2>1. a \notin Names
      BY <1>3 DEF Unlink, ReferenceInv, CollectorInv, Referenced, Names
    <2>2. Held' = [Held EXCEPT ![a] = None]
      BY <1>3 DEF Unlink, Held, OnDisk
    <2>3. UNCHANGED <<Names, Shown>>
      BY <1>3 DEF Unlink, References, Referenced, Names, Shown
    <2>4. a \in Store!Stored \ Names
      BY <1>3, <2>1, StoredIsOnDisk
    <2>5. QED
      BY <2>2, <2>3, <2>4 DEF Store!Next, Store!Collect, Held, Names, Shown
  <1>4. CASE Replace \/ Restore
    <2>1. override.name \in Assets /\ override.name \in Store!Stored
      BY <1>4, StoredIsOnDisk DEF Replace, Restore, OverrideInv, TargetInv
    <2>2. PICK c \in Contents : files' = [files EXCEPT ![override.name] = Written(c)]
      BY <1>4, <2>1 DEF Replace, Restore, OverrideInv
    <2>3. Held' = [Held EXCEPT ![override.name] = c]
      BY <2>1, <2>2, WrittenIsFile DEF Held, OnDisk
    <2>4. UNCHANGED <<Names, Shown>>
      BY <1>4 DEF Replace, Restore, Override, References, Referenced, Names, Shown
    <2>5. \E content \in Contents : Held' = [Held EXCEPT ![override.name] = content]
      BY <2>3
    <2>6. QED
      BY <2>1, <2>4, <2>5 DEF Store!Next, Store!Override, Held, Names, Shown
  <1>5. CASE Tick
    <2>1. Held' = Held
      BY <1>5, TickKeepsContents DEF Held
    <2>2. QED
      BY <2>1, <1>1
  <1>6. CASE files' = files
    BY <1>1, <1>6 DEF Held, OnDisk
  <1>7. ASSUME NEW a \in Assets, Unlink(a), ~OnDisk(a) PROVE files' = files
    BY <1>7 DEF Unlink, OnDisk
  <1>8. QED
    BY <1>2, <1>3, <1>4, <1>5, <1>6, <1>7, FileSteps

\* The programs together are an AssetStore of all that no collector has crossed:
\* whoever is killed, a file appears whole and goes only while no row names it, and
\* a confirmed record shows a file that is there.
THEOREM KeepsTheStore == Spec => KeepsStore
  <1>1. Init => Store!Init /\ TargetInv
    <2> SUFFICES ASSUME Init PROVE Store!Init /\ TargetInv
      OBVIOUS
    <2>1. ASSUME NEW a \in Assets, OnDisk(a) PROVE files[a].content = a
      BY <2>1 DEF Init, OnDisk
    <2>2. Held \in [Assets -> Assets \cup {None}] /\ \A a \in Assets : Held[a] # None => Held[a] = a
      BY <2>1 DEF Held
    <2>3. Names = {} /\ Shown = {} /\ TargetInv
      BY DEF Init, Names, Referenced, Shown, TargetInv, OverrideIdle
    <2>4. QED
      BY <2>2, <2>3 DEF Store!Init, Store!Stored, Held, Names, Shown
  <1>2. BaseInv /\ ReferenceInv /\ TargetInv /\ [Next]_vars => TargetInv'
    BY TargetKept
  <1>3. BaseInv /\ ReferenceInv /\ TargetInv /\ [Next]_vars /\ BaseInv' /\ ReferenceInv'
          => [Store!Next]_(Store!vars)
    BY StepMapped
  <1>4. QED
    BY <1>1, <1>2, <1>3, BaseInductive, ReferenceInductive, PTL DEF Spec, KeepsStore, Store!Spec

-----------------------------------------------------------------------------
(* The refinement of DurableRow.                                             *)

Kinds == [r \in Records |-> IF row[r].status = "reused" THEN "ok" ELSE row[r].status]
Named == [r \in Records |-> row[r].asset]

\* Nobody works on a record when no cycle runs, and a row is created empty.
IdleInv ==
  /\ cycle.pc = "idle" => cycle.record = None
  /\ \A r \in Records : row[r].status = "absent" => row[r].asset = None

\* The steps that leave the rows alone, and the record at hand or the lock on it.
Quiet ==
  \/ \E r \in Records : RestoreKoha(r)
  \/ ReadAsset \/ LockPublish \/ ReuseFile \/ WriteTemporary \/ RenameTemporary \/ WriteKoha
  \/ Collect \/ OverrideStep
  \/ \E a \in Assets, content \in Replacements : StartOverride(a, content)
  \/ KillCollector \/ KillOverride \/ Tick
  \/ UNCHANGED vars

Ended == Refuse \/ FailCycle \/ KillCycle

Begun(r) ==
  \/ Resume(r) \/ ReuseConfirmed(r) \/ Reconfirm(r) \/ \E a \in Assets : Render(r, a)

LEMMA QuietFrame ==
  ASSUME TypeOK, Quiet
  PROVE  /\ row' = row /\ cycle'.record = cycle.record
         /\ cycle'.pc = "idle" => cycle.pc = "idle"
  <1>1. CASE \E r \in Records : RestoreKoha(r)
    BY <1>1 DEF RestoreKoha
  <1>2. CASE ReadAsset \/ LockPublish \/ ReuseFile \/ WriteTemporary \/ RenameTemporary \/ WriteKoha
    <2>1. row' = row
      BY <1>2 DEF ReadAsset, LockPublish, ReuseFile, WriteTemporary, RenameTemporary, WriteKoha,
         Temporary, Published, References
    <2>2. \E pc \in {"publish", "inspect", "rename", "commit", cycle.after} :
            cycle' = [cycle EXCEPT !.pc = pc]
      BY <1>2 DEF ReadAsset, LockPublish, ReuseFile, WriteTemporary, RenameTemporary, WriteKoha,
         Temporary, Published, Continue
    <2>3. QED
      BY <2>1, <2>2 DEF TypeOK
  <1>3. CASE Collect
    BY <1>3 DEF Collect, StartCollecting, Unlink, EndCollecting, References
  <1>4. CASE OverrideStep
    BY <1>4 DEF OverrideStep, BackUp, NothingToBackUp, Replace, Confirmed, Restore, Override,
       References
  <1>5. CASE \E a \in Assets, content \in Replacements : StartOverride(a, content)
    BY <1>5 DEF StartOverride, References
  <1>6. CASE KillCollector \/ KillOverride \/ Tick \/ UNCHANGED vars
    BY <1>6 DEF KillCollector, KillOverride, Tick, vars, References
  <1>7. QED
    BY <1>1, <1>2, <1>3, <1>4, <1>5, <1>6 DEF Quiet

LEMMA BegunEffect ==
  ASSUME TypeOK, IdleInv, NEW r \in Records, Begun(r)
  PROVE  /\ cycle.record = None /\ cycle'.record = r /\ cycle'.pc \in {"read", "publish"}
         /\ row' = [row EXCEPT ![r].status = "unfinished"]
  <1>1. PICK pc \in {"read", "publish"} : \E a, after : Begin(r, pc, a, after)
    BY DEF Begun, Resume, ReuseConfirmed, Reconfirm, Render
  <1>2. QED
    BY <1>1 DEF Begin, IdleInv

LEMMA IdleKept ==
  ASSUME BaseInv, IdleInv, [Next]_vars PROVE IdleInv'
  <1> USE DEF BaseInv, TypeOK, CycleInv, Working, IdleInv
  <1>1. CASE Quiet
    BY <1>1, QuietFrame
  <1>2. ASSUME NEW r \in Records, Begun(r) PROVE IdleInv'
    BY <1>2, BegunEffect
  <1>3. CASE Ended
    BY <1>3 DEF Ended, Refuse, FailCycle, KillCycle, End, CycleIdle, References
  <1>4. ASSUME NEW r \in Records, RemoveFromKoha(r) PROVE IdleInv'
    BY <1>4 DEF RemoveFromKoha, CycleIdle
  <1>5. CASE RemoveFromState
    BY <1>5 DEF RemoveFromState, End, CycleIdle
  <1>6. CASE SaveCoverWork
    BY <1>6 DEF SaveCoverWork, Continue
  <1>7. CASE CompleteCycle \/ ConfirmPublishedCover
    BY <1>7 DEF CompleteCycle, ConfirmPublishedCover, End, CycleIdle
  <1>8. QED
    BY <1>1, <1>2, <1>3, <1>4, <1>5, <1>6, <1>7
       DEF Next, CycleStep, Quiet, Begun, Ended

\* What a change to a row is to the mapping.
LEMMA StatusChange ==
  ASSUME TypeOK, NEW r \in Records, row' = [row EXCEPT ![r].status = "unfinished"]
  PROVE  Kinds' = [Kinds EXCEPT ![r] = "unfinished"] /\ Named' = Named
  <1>1. \A q \in Records :
          /\ row'[q].status = IF q = r THEN "unfinished" ELSE row[q].status
          /\ row'[q].asset = row[q].asset
    BY DEF TypeOK
  <1>2. Kinds' = [Kinds EXCEPT ![r] = "unfinished"]
    <2>1. \A q \in Records : Kinds'[q] = IF q = r THEN "unfinished" ELSE Kinds[q]
      BY <1>1 DEF Kinds
    <2>2. Kinds' = [q \in Records |-> Kinds'[q]] /\ Kinds = [q \in Records |-> Kinds[q]]
      BY DEF Kinds
    <2> HIDE DEF Kinds
    <2>3. QED
      BY <2>1, <2>2
  <1>3. Named' = Named
    BY <1>1 DEF Named
  <1>4. QED
    BY <1>2, <1>3

LEMMA AssetChange ==
  ASSUME TypeOK, NEW r \in Records, NEW a, row' = [row EXCEPT ![r].asset = a]
  PROVE  Kinds' = Kinds /\ Named' = [Named EXCEPT ![r] = a]
  <1>1. \A q \in Records :
          /\ row'[q].asset = IF q = r THEN a ELSE row[q].asset
          /\ row'[q].status = row[q].status
    BY DEF TypeOK
  <1>2. Kinds' = Kinds
    BY <1>1 DEF Kinds
  <1>3. Named' = [Named EXCEPT ![r] = a]
    BY <1>1 DEF Named
  <1>4. QED
    BY <1>2, <1>3

\* Every step is one of DurableRow's.
LEMMA DurableStep ==
  ASSUME BaseInv, IdleInv, [Next]_vars PROVE [Durable!Next]_(Durable!vars)
  <1> USE DEF BaseInv, TypeOK, CycleInv, Working, IdleInv
  <1>1. CASE Quiet
    BY <1>1, QuietFrame DEF Durable!vars
  <1>2. ASSUME NEW r \in Records, Begun(r) PROVE Durable!Next
    <2>1. row' = [row EXCEPT ![r].status = "unfinished"] /\ cycle.record = None /\ cycle'.record = r
      BY <1>2, BegunEffect
    <2>2. Kinds' = [Kinds EXCEPT ![r] = "unfinished"] /\ Named' = Named
      BY <2>1, StatusChange
    <2>4. QED
      BY <2>1, <2>2 DEF Durable!Next, Durable!Take, Kinds, Named
  <1>3. CASE Ended
    <2>1. row' = row /\ cycle'.record = None
      BY <1>3 DEF Ended, Refuse, FailCycle, KillCycle, End, CycleIdle, References
    <2>2. QED
      BY <2>1 DEF Durable!Next, Durable!Release
  <1>4. ASSUME NEW r \in Records, RemoveFromKoha(r) PROVE Durable!Next
    <2>1. row' = row /\ cycle.record = None /\ cycle'.record = r
      BY <1>4 DEF RemoveFromKoha, CycleIdle
    <2>2. QED
      BY <2>1 DEF Durable!Next, Durable!Take
  <1>5. CASE RemoveFromState
    <2> DEFINE r == cycle.record
    <2>1. /\ r \in Records /\ row[r].status # "unfinished" /\ cycle'.record = None
          /\ row' = [row EXCEPT ![r].asset = None]
      BY <1>5 DEF RemoveFromState, End, CycleIdle
    <2> HIDE DEF r
    <2>2. Kinds' = Kinds /\ Named' = [Named EXCEPT ![r] = None]
      BY <2>1, AssetChange
    <2>3. CASE row[r].status = "absent"
      <3>1. Named' = Named
        BY <2>1, <2>3 DEF Named
      <3>2. QED
        BY <2>1, <2>2, <3>1 DEF Durable!Next, Durable!Release, Kinds, Named
    <2>4. CASE row[r].status # "absent"
      <3>1. Kinds[r] = "ok"
        BY <2>1, <2>4 DEF Kinds
      <3>2. QED
        BY <2>1, <2>2, <3>1 DEF Durable!Next, Durable!Remove, Kinds, Named, r
    <2>5. QED
      BY <2>3, <2>4
  <1>6. CASE SaveCoverWork
    <2>1. PICK r \in Records : r = cycle.record
      BY <1>6 DEF SaveCoverWork
    <2>2. /\ row[r].status = "unfinished" /\ cycle'.record = cycle.record
          /\ row' = [row EXCEPT ![r].asset = cycle.asset] /\ cycle.asset \in Assets
      BY <1>6, <2>1 DEF SaveCoverWork, Continue
    <2>3. Kinds' = Kinds /\ Named' = [Named EXCEPT ![r] = cycle.asset]
      BY <2>2, AssetChange
    <2>4. Kinds[r] = "unfinished"
      BY <2>2 DEF Kinds
    <2>5. Durable!Save(r)
      BY <2>1, <2>2, <2>3, <2>4 DEF Durable!Save, Kinds, Named
    <2>6. QED
      BY <2>5 DEF Durable!Next
  <1>7. CASE CompleteCycle \/ ConfirmPublishedCover
    <2> DEFINE r == cycle.record
    <2>1. /\ r \in Records /\ row[r].status = "unfinished" /\ row[r].asset = cycle.asset
          /\ cycle'.record = None
      BY <1>7 DEF CompleteCycle, ConfirmPublishedCover, End, CycleIdle
    <2>2. PICK status \in {"ok", "reused"} :
            row' = [row EXCEPT ![r] = [status |-> status, asset |-> cycle.asset]]
      BY <1>7 DEF CompleteCycle, ConfirmPublishedCover
    <2>3. /\ Kinds' = [Kinds EXCEPT ![r] = "ok"] /\ Kinds[r] = "unfinished"
          /\ Named' = Named
      BY <2>1, <2>2 DEF Kinds, Named
    <2>4. QED
      BY <2>1, <2>3 DEF Durable!Next, Durable!Confirm, Kinds, Named
  <1>8. QED
    BY <1>1, <1>2, <1>3, <1>4, <1>5, <1>6, <1>7
       DEF Next, CycleStep, Quiet, Begun, Ended

\* A row is reopened, rewritten and confirmed by the cycle at hand, and confirmed
\* with the asset it already names, whatever the other programs do.
THEOREM RowsAreDurable == Spec => KeepsRows
  <1>1. Init => IdleInv /\ Durable!Init
    BY DEF Init, CycleIdle, IdleInv, Durable!Init
  <1>2. BaseInv /\ IdleInv /\ [Next]_vars => IdleInv'
    BY IdleKept
  <1>3. BaseInv /\ IdleInv /\ [Next]_vars => [Durable!Next]_(Durable!vars)
    BY DurableStep
  <1>4. QED
    BY <1>1, <1>2, <1>3, BaseInductive, PTL DEF Spec, KeepsRows, Durable!Spec
=============================================================================
