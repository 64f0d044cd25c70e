-------------------------- MODULE LocalBooks_proofs --------------------------
(***************************************************************************)
(* What LocalBooks promises for any PDFs, any number of requests and any    *)
(* number of faults.                                                        *)
(***************************************************************************)
EXTENDS LocalBooks, TLAPS

\* What a run knows of the folders, and which part of it may still be at work.
RunInv ==
  /\ run.pc = "move" => source # Null
  /\ run.pc # "ended" => runs \in ItemIds
  /\ dspace.pc \in {"find", "upload", "additional"} => run.pc = "parallel"
  /\ run.pc \in {"parallel", "to_error"} =>
       run.version \in Versions /\ run.content \in Contents /\ processed[run.version] = run.content

\* What its DSpace thread knows, and what Koha and the primary bitstreams say.
CopyInv ==
  /\ dspace.pc = "upload" => dspace.item \in ItemIds
  /\ dspace.pc \in {"additional", "done"} =>
       dspace.item \in ItemIds /\ dspace.link \in items[dspace.item].pdfs
  /\ \A i \in ItemIds : items[i].primary # Null => items[i].primary \in items[i].pdfs
  /\ koha.status = "imported" => koha.item \in ItemIds /\ koha.link \in items[koha.item].pdfs

LocalInv == TypeOK /\ RunInv /\ CopyInv /\ OneItem

USE LocalBooksAssumptions

-----------------------------------------------------------------------------
(* Every step keeps each part of the invariant: one lemma per part, one step   *)
(* per action.                                                               *)

LEMMA InitInv == Init => LocalInv
  <1> SUFFICES ASSUME Init PROVE LocalInv
    OBVIOUS
  <1>1. TypeOK
    BY DEF Init, TypeOK, NoRun, NoThread, NoItem, RunStates, ThreadStates, ItemStates, KohaStates
  <1>2. RunInv
    BY DEF Init, RunInv, NoRun, NoThread
  <1>3. CopyInv /\ OneItem
    BY DEF Init, CopyInv, OneItem, NoThread, NoItem
  <1>4. QED
    BY <1>1, <1>2, <1>3 DEF LocalInv

LEMMA ItemCreated ==
  ASSUME TypeOK, NEW i \in ItemIds PROVE [items[i] EXCEPT !.exists = TRUE] \in ItemStates
  <1>1. items[i] \in ItemStates
    BY DEF TypeOK
  <1>2. ASSUME NEW state \in ItemStates PROVE [state EXCEPT !.exists = TRUE] \in ItemStates
    BY DEF ItemStates
  <1>3. QED
    BY <1>1, <1>2

LEMMA StepTyped == TypeOK /\ RunInv /\ CopyInv /\ [Next]_vars => TypeOK'
  <1> SUFFICES ASSUME TypeOK, RunInv, CopyInv, [Next]_vars PROVE TypeOK'
    OBVIOUS
  <1> USE DEF TypeOK, RunStates, ThreadStates, ItemStates, KohaStates, folders, threads
  <1>1. ASSUME NEW c \in Contents, SupplyFile(c) PROVE TypeOK'
    BY <1>1 DEF SupplyFile
  <1>2. CASE UploadCoverByHand
    BY <1>2 DEF UploadCoverByHand
  <1>3. ASSUME NEW i \in ItemIds, CurateItem(i) PROVE TypeOK'
    BY <1>3 DEF CurateItem
  <1>4. ASSUME NEW external \in BOOLEAN, Request(external) PROVE TypeOK'
    <2> USE DEF NoRun, NoThread
    <2>1. runs' \in 0..MaxRuns /\ dspace' \in ThreadStates
      BY <1>4 DEF Request
    <2>2. CASE Missing(external)
      BY <1>4, <2>1, <2>2 DEF Request, Missing
    <2>3. CASE TooLarge
      BY <1>4, <2>1, <2>3 DEF Request, TooLarge, SetStatus
    <2>4. CASE Accepted(external)
      BY <1>4, <2>1, <2>4 DEF Request, Accepted
    <2>5. QED
      BY <1>4, <2>2, <2>3, <2>4 DEF Request
  <1>5. CASE MoveToProcessed
    <2>1. PICK v \in Versions :
            /\ processed' = [processed EXCEPT ![v] = source]
            /\ run' = [run EXCEPT !.pc = "parallel", !.version = v, !.content = source]
      BY <1>5 DEF MoveToProcessed
    <2>2. processed' \in [Versions -> Contents \cup {Null}]
      BY <2>1
    <2>3. run' \in RunStates
      <3>1. v \in 0..MaxRuns
        BY DEF Versions
      <3>2. QED
        BY <2>1, <3>1
    <2>4. dspace' \in ThreadStates
      BY <1>5 DEF MoveToProcessed, NoThread
    <2>5. QED
      BY <1>5, <2>2, <2>3, <2>4 DEF MoveToProcessed
  <1>6. CASE FindItem
    BY <1>6 DEF FindItem, FoundItems, ItemIds
  <1>7. CASE CreateItem
    <2>1. items' \in [ItemIds -> ItemStates]
      <3>1. runs \in ItemIds
        BY <1>7 DEF CreateItem, RunInv
      <3>2. [items[runs] EXCEPT !.exists = TRUE] \in ItemStates
        BY <3>1, ItemCreated
      <3>3. items' = [items EXCEPT ![runs] = [items[runs] EXCEPT !.exists = TRUE]]
        BY <1>7 DEF CreateItem
      <3>4. QED
        BY <3>2, <3>3
    <2>2. dspace' \in ThreadStates /\ faults' \in 0..MaxFaults
      BY <1>7 DEF CreateItem, Fault
    <2>3. QED
      BY <1>7, <2>1, <2>2 DEF CreateItem
  <1>8. CASE UploadPdf
    <2>1. run.content \in Contents /\ dspace.item \in ItemIds
      BY <1>8 DEF UploadPdf, RunInv, CopyInv
    <2>2. items' \in [ItemIds -> ItemStates]
      <3> DEFINE item == items[dspace.item]
      <3>1. [item EXCEPT !.pdfs = item.pdfs \cup {run.content}] \in ItemStates
        BY <2>1
      <3>2. items' = [items EXCEPT ![dspace.item] = [item EXCEPT !.pdfs = item.pdfs \cup {run.content}]]
        BY <1>8 DEF UploadPdf
      <3>3. QED
        BY <3>1, <3>2
    <2>3. [dspace EXCEPT !.pc = "additional", !.link = run.content] \in ThreadStates
      BY <2>1
    <2>4. [dspace EXCEPT !.pc = "raised"] \in ThreadStates
      OBVIOUS
    <2>5. dspace' \in ThreadStates
      BY <1>8, <2>3, <2>4 DEF UploadPdf
    <2>6. faults' \in 0..MaxFaults
      BY <1>8 DEF UploadPdf, Fault
    <2>7. QED
      BY <1>8, <2>2, <2>5, <2>6 DEF UploadPdf
  <1>9. CASE UploadAdditional
    BY <1>9 DEF UploadAdditional
  <1>10. CASE DSpaceRefuses
    BY <1>10 DEF DSpaceRefuses, Fault
  <1>11. CASE CheckCover
    BY <1>11 DEF CheckCover, Fault
  <1>12. CASE UploadCover
    BY <1>12 DEF UploadCover, ImagesAfterUpload
  <1>13. CASE Succeed
    <2>1. ASSUME NEW shown \in BOOLEAN
          PROVE  [status |-> "imported", item |-> dspace.item, cover |-> shown, link |-> dspace.link]
                   \in KohaStates
      OBVIOUS
    <2>2. koha' \in KohaStates
      <3>1. (koha.cover \/ CoverUrl) \in BOOLEAN
        BY Zenon
      <3>2. QED
        BY <1>13, <2>1, <3>1 DEF Succeed
    <2>3. run' \in RunStates
      BY <1>13 DEF Succeed
    <2>4. QED
      BY <1>13, <2>2, <2>3 DEF Succeed
  <1>14. CASE ReportError
    BY <1>14, ZenonT(40) DEF ReportError
  <1>15. CASE FileError
    <2>1. processed' \in [Versions -> Contents \cup {Null}] /\ errors' \in [Versions -> Contents \cup {Null}]
      BY <1>15 DEF FileError, MoveToError
    <2>2. run' \in RunStates
      BY <1>15 DEF FileError
    <2>3. QED
      BY <1>15, <2>1, <2>2 DEF FileError
  <1>16. CASE Die
    BY <1>16 DEF Die, Fault, NoRun, NoThread
  <1>17. CASE UNCHANGED vars
    BY <1>17 DEF vars
  <1>18. QED
    BY <1>1, <1>2, <1>3, <1>4, <1>5, <1>6, <1>7, <1>8, <1>9, <1>10, <1>11, <1>12, <1>13, <1>14,
       <1>15,
       <1>16, <1>17 DEF Next, DSpaceThread, CoverThread

LEMMA StepRun == TypeOK /\ RunInv /\ [Next]_vars => RunInv'
  <1> SUFFICES ASSUME TypeOK, RunInv, [Next]_vars PROVE RunInv'
    OBVIOUS
  <1> USE DEF TypeOK, RunInv, RunStates, ThreadStates, folders, threads
  <1>1. ASSUME NEW c \in Contents, SupplyFile(c) PROVE RunInv'
    BY <1>1 DEF SupplyFile
  <1>2. CASE UploadCoverByHand \/ \E i \in ItemIds : CurateItem(i)
    BY <1>2 DEF UploadCoverByHand, CurateItem
  <1>3. ASSUME NEW external \in BOOLEAN, Request(external) PROVE RunInv'
    <2>1. runs' \in ItemIds /\ dspace'.pc = "idle"
      BY <1>3 DEF Request, NoThread, ItemIds
    <2>2. run'.pc = "ended" \/ (run'.pc = "move" /\ source' # Null)
      <3>1. CASE Missing(external)
        BY <3>1 DEF Missing, NoRun
      <3>2. CASE TooLarge
        BY <3>2 DEF TooLarge, NoRun
      <3>3. CASE Accepted(external)
        BY <1>3, <3>3 DEF Accepted, Request
      <3>4. QED
        BY <1>3, <3>1, <3>2, <3>3 DEF Request
    <2>3. QED
      BY <2>1, <2>2
  <1>4. CASE MoveToProcessed
    BY <1>4 DEF MoveToProcessed, NoThread
  <1>5. CASE DSpaceThread
    BY <1>5
       DEF DSpaceThread, FindItem, CreateItem, UploadPdf, UploadAdditional, DSpaceRefuses, Fault
  <1>6. CASE CoverThread
    BY <1>6 DEF CoverThread, CheckCover, UploadCover, Fault
  <1>7. CASE Succeed \/ ReportError
    BY <1>7 DEF Succeed, ReportError, Joined
  <1>8. CASE FileError
    BY <1>8 DEF FileError
  <1>9. CASE Die
    BY <1>9 DEF Die, NoRun, NoThread
  <1>10. CASE UNCHANGED vars
    BY <1>10 DEF vars
  <1>11. QED
    BY <1>1, <1>2, <1>3, <1>4, <1>5, <1>6, <1>7, <1>8, <1>9, <1>10 DEF Next

LEMMA StepCopies == TypeOK /\ RunInv /\ CopyInv /\ [Next]_vars => CopyInv'
  <1> SUFFICES ASSUME TypeOK, RunInv, CopyInv, [Next]_vars PROVE CopyInv'
    OBVIOUS
  <1> USE DEF TypeOK, CopyInv, ThreadStates, ItemStates, KohaStates, folders, threads
  <1>1. ASSUME NEW c \in Contents, SupplyFile(c) PROVE CopyInv'
    BY <1>1 DEF SupplyFile
  <1>2. CASE UploadCoverByHand
    BY <1>2 DEF UploadCoverByHand
  <1>3. ASSUME NEW i \in ItemIds, CurateItem(i) PROVE CopyInv'
    BY <1>3 DEF CurateItem
  <1>4. ASSUME NEW external \in BOOLEAN, Request(external) PROVE CopyInv'
    <2>1. dspace'.pc = "idle" /\ UNCHANGED items
      BY <1>4 DEF Request, NoThread
    <2>2. koha'.status = "imported" => koha.status = "imported" /\ koha'.item = koha.item /\ koha'.link = koha.link
      <3>1. CASE Missing(external)
        BY <3>1 DEF Missing
      <3>2. CASE TooLarge
        BY <3>2 DEF TooLarge, SetStatus
      <3>3. CASE Accepted(external)
        BY <3>3 DEF Accepted
      <3>4. QED
        BY <1>4, <3>1, <3>2, <3>3 DEF Request
    <2>3. QED
      BY <2>1, <2>2
  <1>5. CASE MoveToProcessed
    BY <1>5 DEF MoveToProcessed, NoThread
  <1>6. CASE FindItem
    BY <1>6 DEF FindItem, FoundItems, Complete, ItemIds
  <1>7. CASE CreateItem
    BY <1>7 DEF CreateItem, RunInv
  <1>8. CASE UploadPdf
    <2>1. dspace.item \in ItemIds /\ run.content \in Contents
      BY <1>8 DEF UploadPdf, RunInv
    <2>2. \A i \in ItemIds : items'[i].primary = items[i].primary /\ items[i].pdfs \subseteq items'[i].pdfs
      BY <1>8, <2>1 DEF UploadPdf
    <2>3. run.content \in items'[dspace.item].pdfs
      BY <1>8, <2>1 DEF UploadPdf
    <2>4. dspace'.item = dspace.item /\ (dspace'.pc = "raised" \/ (dspace'.pc = "additional" /\ dspace'.link = run.content))
      BY <1>8 DEF UploadPdf
    <2>5. QED
      BY <1>8, <2>1, <2>2, <2>3, <2>4 DEF UploadPdf
  <1>9. CASE UploadAdditional \/ DSpaceRefuses
    BY <1>9 DEF UploadAdditional, DSpaceRefuses
  <1>10. CASE CoverThread
    BY <1>10 DEF CoverThread, CheckCover, UploadCover
  <1>11. CASE Succeed
    BY <1>11 DEF Succeed
  <1>12. CASE ReportError
    BY <1>12 DEF ReportError
  <1>13. CASE FileError \/ Die
    BY <1>13 DEF FileError, Die, NoThread
  <1>14. CASE UNCHANGED vars
    BY <1>14 DEF vars
  <1>15. QED
    BY <1>1, <1>2, <1>3, <1>4, <1>5, <1>6, <1>7, <1>8, <1>9, <1>10, <1>11, <1>12, <1>13, <1>14
       DEF Next, DSpaceThread

\* Only a run that found no Item creates one.
LEMMA StepOneItem == TypeOK /\ RunInv /\ CopyInv /\ OneItem /\ [Next]_vars => OneItem'
  <1> SUFFICES ASSUME TypeOK, RunInv, CopyInv, OneItem, [Next]_vars PROVE OneItem'
    OBVIOUS
  <1> USE DEF TypeOK, OneItem, ItemStates
  <1>1. ASSUME NEW i \in ItemIds, CurateItem(i) PROVE OneItem'
    BY <1>1 DEF CurateItem
  <1>2. CASE CreateItem
    BY <1>2 DEF CreateItem, FoundItems
  <1>3. CASE UploadPdf
    BY <1>3 DEF UploadPdf, CopyInv
  <1>4. CASE UNCHANGED items
    BY <1>4
  <1>5. QED
    BY <1>1, <1>2, <1>3, <1>4
       DEF Next, DSpaceThread, CoverThread, SupplyFile, UploadCoverByHand, Request, MoveToProcessed,
           FindItem, UploadAdditional, DSpaceRefuses, CheckCover, UploadCover, Succeed, ReportError,
           FileError, Die, vars

THEOREM LocalInductive == Spec => []LocalInv
  <1>1. LocalInv /\ [Next]_vars => LocalInv'
    BY StepTyped, StepRun, StepCopies, StepOneItem DEF LocalInv
  <1>2. QED
    BY InitInv, <1>1, PTL DEF Spec

-----------------------------------------------------------------------------
\* The types of the variables are those of the code, in every reachable state.
THEOREM TypeCorrect == Spec => []TypeOK
  <1>1. LocalInv => TypeOK
    BY DEF LocalInv
  <1>2. QED
    BY <1>1, LocalInductive, PTL

\* No sequence of deaths, lost answers and repeated requests makes a second Item.
THEOREM RecordHasOneItem == Spec => []OneItem
  <1>1. LocalInv => OneItem
    BY DEF LocalInv
  <1>2. QED
    BY <1>1, LocalInductive, PTL

\* A record that Koha calls imported links a PDF that its Item holds.
THEOREM ImportsHaveTheirPdf == Spec => []ImportedHasPdf
  <1>1. LocalInv => ImportedHasPdf
    BY DEF LocalInv, CopyInv, ImportedHasPdf
  <1>2. QED
    BY <1>1, LocalInductive, PTL

\* No step loses a PDF that waits at 956$u or lies in Processed.
THEOREM SuppliedFilesKept == Spec => FilesKept
  <1> DEFINE Kept == \A c \in Contents : c = source \/ InFolder(processed, c)
                       => c = source' \/ InFolder(processed', c) \/ InFolder(errors', c)
  <1>1. ASSUME TypeOK, RunInv, Next PROVE Kept
    <2> USE <1>1 DEF TypeOK, InFolder
    <2>1. CASE MoveToProcessed
      BY <2>1 DEF MoveToProcessed, FirstFree
    <2>2. CASE FileError
      BY <2>2 DEF FileError, MoveToError, RunInv
    <2>3. ASSUME NEW c \in Contents, SupplyFile(c) PROVE Kept
      BY <2>3 DEF SupplyFile
    <2>4. CASE UNCHANGED folders
      BY <2>4 DEF folders
    <2>5. QED
      BY <2>1, <2>2, <2>3, <2>4
         DEF Next, DSpaceThread, CoverThread, UploadCoverByHand, CurateItem, Request, FindItem, CreateItem,
             UploadPdf, UploadAdditional, DSpaceRefuses, CheckCover, UploadCover, Succeed, ReportError, Die
  <1>2. LocalInv /\ [Next]_vars => [Kept]_vars
    BY <1>1 DEF LocalInv
  <1>3. QED
    BY <1>2, LocalInductive, PTL DEF Spec, FilesKept
=============================================================================
