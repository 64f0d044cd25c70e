------------------------------ MODULE LocalBooks ------------------------------
(***************************************************************************)
(* The workflow of a deployment without COVER_STATE_DB_PATH, for a PDF on  *)
(* the local mount: _run_integration_logic and run_dspace_workflow of      *)
(* core.py, FileService and CoverService.  Nothing is durable but what the *)
(* steps leave behind in the folders, in DSpace and in Koha, so a run that *)
(* dies is only ever repaired by the next request for the record.  One     *)
(* record, and one run of it at a time.                                    *)
(***************************************************************************)
EXTENDS Integers

CONSTANTS
  Contents,   \* PDFs that somebody puts where 956$u points
  Null,
  MaxRuns,    \* bound on the requests for the record
  MaxFaults   \* bound on lost answers, refusals and deaths of the process

ASSUME LocalBooksAssumptions ==
  MaxRuns \in Nat \ {0} /\ MaxFaults \in Nat /\ Null \notin Contents \cup {"imported"}

Versions == 1..MaxRuns
ItemIds  == 1..MaxRuns

VARIABLES
  source,     \* the file 956$u names
  processed,  \* biblio_N_vMM.pdf in the folder Processed
  errors,     \* the same in the folder Error
  run,        \* the run at work or the last one: its stage, and the file it moved
  dspace,     \* the run's DSpace thread: its stage, the Item it found, the link it made
  cover,      \* the stage of its cover thread
  items,      \* DSpace Items that carry the record's koha.uid
  koha,       \* status, 957$3, 956$c and the link to the file
  image,      \* the cover image Koha keeps for the record
  unused,     \* contents nobody has put in place yet
  runs, faults

vars    == <<source, processed, errors, run, dspace, cover, items, koha, image, unused, runs, faults>>
folders == <<source, processed, errors>>
threads == <<dspace, cover>>

NoRun    == [pc |-> "ended", external |-> FALSE, version |-> 0, content |-> Null]
NoThread == [pc |-> "idle", item |-> 0, link |-> Null]

NoItem == [exists |-> FALSE, pdfs |-> {}, primary |-> Null]

Init ==
  /\ source = Null
  /\ processed = [v \in Versions |-> Null] /\ errors = [v \in Versions |-> Null]
  /\ run = NoRun /\ dspace = NoThread /\ cover = "idle"
  /\ items = [i \in ItemIds |-> NoItem]
  /\ koha = [status |-> Null, item |-> 0, cover |-> FALSE, link |-> Null]
  /\ image \in {Null, "manual"}
  /\ unused = Contents
  /\ runs = 0 /\ faults = 0

Fault == faults < MaxFaults /\ faults' = faults + 1

-----------------------------------------------------------------------------
(* Librarians and curators.                                                  *)

SupplyFile(c) ==
  /\ source = Null /\ c \in unused
  /\ source' = c /\ unused' = unused \ {c}
  /\ UNCHANGED <<processed, errors, run, threads, items, koha, image, runs, faults>>

UploadCoverByHand ==
  /\ image # "manual"
  /\ image' = "manual"
  /\ UNCHANGED <<folders, run, threads, items, koha, unused, runs, faults>>

\* An upload does not make a bitstream the primary one; a curator may.
CurateItem(i) ==
  /\ items[i].primary = Null
  /\ \E c \in items[i].pdfs : items' = [items EXCEPT ![i].primary = c]
  /\ UNCHANGED <<folders, run, threads, koha, image, unused, runs, faults>>

-----------------------------------------------------------------------------
(* The serial phase.                                                         *)

\* set_status is asked for and not confirmed.
SetStatus(status) == koha' \in {koha, [koha EXCEPT !.status = status]}

\* No file: an explicit cover is still uploaded, the record gets its error status.
Missing(external) ==
  /\ source = Null
  /\ run' = NoRun
  /\ image' \in IF external THEN {image, "external"} ELSE {image}
  /\ \E shown \in BOOLEAN, status \in {koha.status, "error"} :
       /\ shown # koha.cover => shown /\ external /\ image' # Null
       /\ koha' = [koha EXCEPT !.cover = shown, !.status = status]

TooLarge ==
  /\ source # Null
  /\ run' = NoRun
  /\ SetStatus("error")
  /\ UNCHANGED image

\* A warning about the size drops the status it finds.
Accepted(external) ==
  /\ source # Null
  /\ run' = [pc |-> "move", external |-> external, version |-> 0, content |-> Null]
  /\ koha' \in {koha, [koha EXCEPT !.status = Null]}
  /\ UNCHANGED image

Request(external) ==
  /\ run.pc = "ended" /\ runs < MaxRuns
  /\ runs' = runs + 1
  /\ Missing(external) \/ TooLarge \/ Accepted(external)
  /\ dspace' = NoThread /\ cover' = "idle"
  /\ UNCHANGED <<folders, items, unused, faults>>

\* Mutant: the last version in use is counted as free.
LastUsed(v) ==
  /\ v = 1 \/ processed[v] # Null
  /\ \A u \in Versions : u > v => processed[u] = Null

\* version_and_move: the first version that is free in Processed.
FirstFree(v) ==
  /\ processed[v] = Null
  /\ \A u \in Versions : u < v => processed[u] # Null

MoveToProcessed ==
  /\ run.pc = "move"
  /\ \E v \in Versions :
       /\ FirstFree(v)
       /\ processed' = [processed EXCEPT ![v] = source]
       /\ run' = [run EXCEPT !.pc = "parallel", !.version = v, !.content = source]
  /\ dspace' = [NoThread EXCEPT !.pc = "find"] /\ cover' = "check"
  /\ source' = Null
  /\ UNCHANGED <<errors, items, koha, image, unused, runs, faults>>

-----------------------------------------------------------------------------
(* The DSpace thread.                                                        *)

\* Any of its calls may be refused, and the thread raises.
DSpaceRefuses ==
  /\ dspace.pc \in {"find", "upload", "additional"}
  /\ Fault
  /\ dspace' = [dspace EXCEPT !.pc = "raised"]
  /\ UNCHANGED <<folders, run, cover, items, koha, image, unused, runs>>

\* Mutant: only the uuid in 957$3 is looked up, not koha.uid.
SavedItemOnly == IF koha.item = 0 THEN {} ELSE {koha.item}

\* The Item of 957$3, or the one that carries the record's koha.uid.
FoundItems ==
  IF koha.item # 0 THEN {koha.item} ELSE {i \in ItemIds : items[i].exists}

\* Mutant: an Item that is there counts as a complete one.
CompleteIfFound(i) == TRUE

Complete(i) == items[i].primary # Null

FindItem ==
  /\ dspace.pc = "find"
  /\ \E i \in FoundItems :
       dspace' = IF Complete(i)
                 THEN [pc |-> "additional", item |-> i, link |-> items[i].primary]
                 ELSE [pc |-> "upload", item |-> i, link |-> Null]
  /\ UNCHANGED <<folders, run, cover, items, koha, image, unused, runs, faults>>

\* The new Item takes the number of the run; its answer may be lost.
CreateItem ==
  /\ dspace.pc = "find" /\ FoundItems = {}
  /\ items' = [items EXCEPT ![runs].exists = TRUE]
  /\ \/ dspace' = [pc |-> "upload", item |-> runs, link |-> Null] /\ UNCHANGED faults
     \/ Fault /\ dspace' = [dspace EXCEPT !.pc = "raised"]
  /\ UNCHANGED <<folders, run, cover, koha, image, unused, runs>>

UploadPdf ==
  /\ dspace.pc = "upload"
  /\ items' = [items EXCEPT ![dspace.item].pdfs = @ \cup {run.content}]
  /\ \/ dspace' = [dspace EXCEPT !.pc = "additional", !.link = run.content] /\ UNCHANGED faults
     \/ Fault /\ dspace' = [dspace EXCEPT !.pc = "raised"]
  /\ UNCHANGED <<folders, run, cover, koha, image, unused, runs>>

\* Additional files that cannot be had or uploaded are only reported.
UploadAdditional ==
  /\ dspace.pc = "additional"
  /\ dspace' = [dspace EXCEPT !.pc = "done"]
  /\ UNCHANGED <<folders, run, cover, items, koha, image, unused, runs, faults>>

-----------------------------------------------------------------------------
(* The cover thread, CoverService.process_book.                              *)

MayGenerate == run.external \/ image = Null

\* A check that fails counts as no cover.
CheckCover ==
  /\ cover = "check"
  /\ \/ cover' = (IF MayGenerate THEN "prepare" ELSE "skipped") /\ UNCHANGED faults
     \/ cover' = "prepare" /\ Fault
  /\ UNCHANGED <<folders, run, dspace, items, koha, image, unused, runs>>

\* The upload has replace=1; any of its requests may fail, and the last answer
\* of Koha is not looked at.
ImagesAfterUpload == {image, IF run.external THEN "external" ELSE "auto"}

\* The image is rendered or converted first; only that failure is an error.
UploadCover ==
  /\ cover = "prepare"
  /\ \/ cover' = "error" /\ UNCHANGED image
     \/ cover' = "success" /\ image' \in ImagesAfterUpload
  /\ UNCHANGED <<folders, run, dspace, items, koha, unused, runs, faults>>

-----------------------------------------------------------------------------
(* Both threads are joined.                                                  *)

Joined == run.pc = "parallel" /\ cover \in {"skipped", "success", "error"}

CoverUrl == cover # "error" /\ image # Null

\* set_success writes status, 957 and both links in one PUT that nobody confirms.
Succeed ==
  /\ Joined /\ dspace.pc = "done"
  /\ \/ koha' = [status |-> "imported", item |-> dspace.item, cover |-> koha.cover \/ CoverUrl,
                  link |-> dspace.link]
     \/ UNCHANGED koha
  /\ run' = [run EXCEPT !.pc = "ended"]
  /\ UNCHANGED <<folders, threads, items, image, unused, runs, faults>>

\* The cover is kept even so, the status set, and the file moved last.
ReportError ==
  /\ Joined /\ dspace.pc = "raised"
  /\ \E shown \in BOOLEAN, status \in {koha.status, "error"} :
       /\ shown # koha.cover => shown /\ CoverUrl
       /\ koha' = [koha EXCEPT !.cover = shown, !.status = status]
  /\ run' = [run EXCEPT !.pc = "to_error"]
  /\ UNCHANGED <<folders, threads, items, image, unused, runs, faults>>

\* move_to_error keeps the name, and so replaces a file of that name in Error.
MoveToError ==
  /\ processed' = [processed EXCEPT ![run.version] = Null]
  /\ errors' = [errors EXCEPT ![run.version] = run.content]

FileError ==
  /\ run.pc = "to_error"
  /\ MoveToError
  /\ run' = [run EXCEPT !.pc = "ended"]
  /\ UNCHANGED <<source, threads, items, koha, image, unused, runs, faults>>

\* The process dies with its threads.
Die ==
  /\ run.pc # "ended"
  /\ Fault
  /\ run' = NoRun /\ dspace' = NoThread /\ cover' = "idle"
  /\ UNCHANGED <<folders, items, koha, image, unused, runs>>

-----------------------------------------------------------------------------
DSpaceThread == FindItem \/ CreateItem \/ UploadPdf \/ UploadAdditional \/ DSpaceRefuses
CoverThread  == CheckCover \/ UploadCover

Next ==
  \/ \E c \in Contents : SupplyFile(c)
  \/ UploadCoverByHand
  \/ \E i \in ItemIds : CurateItem(i)
  \/ \E external \in BOOLEAN : Request(external)
  \/ MoveToProcessed
  \/ DSpaceThread \/ CoverThread
  \/ Succeed \/ ReportError \/ FileError
  \/ Die

Spec == Init /\ [][Next]_vars

-----------------------------------------------------------------------------
(* Properties.                                                               *)

RunStates ==
  [pc : {"move", "parallel", "to_error", "ended"}, external : BOOLEAN, version : 0..MaxRuns,
   content : Contents \cup {Null}]

ThreadStates ==
  [pc : {"idle", "find", "upload", "additional", "done", "raised"}, item : 0..MaxRuns,
   link : Contents \cup {Null}]

ItemStates == [exists : BOOLEAN, pdfs : SUBSET Contents, primary : Contents \cup {Null}]

KohaStates == [status : {Null, "error", "imported"}, item : 0..MaxRuns, cover : BOOLEAN,
               link : Contents \cup {Null}]

\* Every variable holds values of the shape the code gives it.
TypeOK ==
  /\ source \in Contents \cup {Null}
  /\ processed \in [Versions -> Contents \cup {Null}]
  /\ errors \in [Versions -> Contents \cup {Null}]
  /\ run \in RunStates /\ dspace \in ThreadStates
  /\ cover \in {"idle", "check", "prepare", "skipped", "success", "error"}
  /\ items \in [ItemIds -> ItemStates] /\ koha \in KohaStates
  /\ image \in {Null, "manual", "auto", "external"}
  /\ unused \subseteq Contents
  /\ runs \in 0..MaxRuns /\ faults \in 0..MaxFaults

InFolder(folder, c) == \E v \in Versions : folder[v] = c

\* However often runs die, lose an answer or are asked for again, the record gets
\* one Item: koha.uid finds what an earlier run created and Koha never heard of.
OneItem == \A i, j \in ItemIds : items[i].exists /\ items[j].exists => i = j

\* What Koha calls imported is in DSpace: the Item of 957$3 holds the PDF the link
\* shows, also when a run found the Item of an earlier run that never uploaded.
ImportedHasPdf ==
  koha.status = "imported" => koha.link \in items[koha.item].pdfs

\* A PDF that waits at 956$u or lies in Processed, from an import, a run at work or
\* one that died, is not lost by any step: only a file in Error can be replaced.
FilesKept ==
  [][\A c \in Contents : c = source \/ InFolder(processed, c)
        => c = source' \/ InFolder(processed', c) \/ InFolder(errors', c)]_vars

\* The comment in process_book: an automatic cover does not replace manual work.
ManualCoverKept == [][image = "manual" /\ ~run.external => image' # "auto"]_vars
=============================================================================
