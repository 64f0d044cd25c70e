-------------------------- MODULE KohaRecord_proofs --------------------------
(***************************************************************************)
(* What KohaRecord promises for any edits of librarians and any number of   *)
(* operations and saves.                                                    *)
(***************************************************************************)
EXTENDS KohaRecord, TLAPS

\* What an operation knows: the record differs from what it read only where a
\* save was made since; and set_status never reads back.  A form still has a save.
ReadInv ==
  /\ op # Idle => ops \in 1..MaxOps
  /\ op.stage = "put" => \A f \in Fields \ touched : record[f] = op.read[f]
  /\ op.stage = "read_back" => op.kind # "set_status"
  /\ form # Null => saves < MaxSaves

\* No read-back looks at the status.
StatusInv == confirmed["956y"] = "free"

RecordInv == TypeOK /\ ReadInv /\ StatusInv /\ ConfirmedStays

USE KohaRecordAssumptions

-----------------------------------------------------------------------------
(* What the operations make of a record.                                     *)

\* Every operation makes a record of a record.
LEMMA EditedTyped ==
  ASSUME NEW o \in Operations, ops \in 1..MaxOps PROVE Edited(o) \in MarcRecords
  <1> DEFINE r == o.read
  <1>1. /\ o.kind \in Kinds /\ r \in MarcRecords /\ o.item \in {Null, Item} /\ o.asset \in {Null, Asset}
        /\ NewUid[ops] \in Values
    BY DEF Operations, Values
  <1>2. {Null, Item, Asset, "error", "imported"} \subseteq Values
    BY DEF Values
  <1> HIDE DEF r
  <1>3. CASE o.kind = "ensure_uid"
    BY <1>1, <1>3 DEF Edited, EnsureUid, MarcRecords, r
  <1>4. CASE o.kind = "set_status"
    BY <1>1, <1>2, <1>4 DEF Edited, SetStatus, MarcRecords, r
  <1>5. CASE o.kind = "set_success"
    BY <1>1, <1>2, <1>5 DEF Edited, SetSuccess, MarcRecords, Fields, r
  <1>6. CASE o.kind = "set_cover"
    BY <1>1, <1>2, <1>6 DEF Edited, SetCoverUrl, MarcRecords, r
  <1>7. CASE o.kind = "remove"
    BY <1>1, <1>2, <1>7 DEF Edited, RemoveCover, MarcRecords, r
  <1>8. CASE o.kind = "restore"
    BY <1>1, <1>2, <1>8 DEF Edited, Restore957, MarcRecords, Fields, r
  <1>9. CASE o.kind = "repair"
    BY <1>1, <1>2, <1>9 DEF Edited, RepairLinks, MarcRecords, r
  <1>10. QED
    BY <1>1, <1>3, <1>4, <1>5, <1>6, <1>7, <1>8, <1>9 DEF Kinds

\* An operation changes only the fields it is for, and its read-back looks at
\* each of them but the status.
LEMMA EditedWithin ==
  ASSUME NEW o \in Operations, NEW f \in Fields, Edited(o)[f] # o.read[f]
  PROVE  f \in Purpose(o) /\ (f \in SetBy(o) \/ f = "956y")
  <1>1. o.kind \in Kinds /\ o.read \in MarcRecords
    BY DEF Operations
  <1> USE DEF MarcRecords, Fields
  <1>2. CASE o.kind = "ensure_uid"
    BY <1>1, <1>2 DEF Edited, EnsureUid, Purpose, SetBy
  <1>3. CASE o.kind = "set_status"
    BY <1>1, <1>3 DEF Edited, SetStatus, Purpose, SetBy
  <1>4. CASE o.kind = "set_success"
    BY <1>1, <1>4 DEF Edited, SetSuccess, Purpose, SetBy
  <1>5. CASE o.kind = "set_cover"
    BY <1>1, <1>5 DEF Edited, SetCoverUrl, Purpose, SetBy
  <1>6. CASE o.kind = "remove"
    BY <1>1, <1>6 DEF Edited, RemoveCover, Purpose, SetBy
  <1>7. CASE o.kind = "restore"
    BY <1>1, <1>7 DEF Edited, Restore957, Purpose, SetBy
  <1>8. CASE o.kind = "repair"
    BY <1>1, <1>8 DEF Edited, RepairLinks, Purpose, SetBy
  <1>9. QED
    BY <1>1, <1>2, <1>3, <1>4, <1>5, <1>6, <1>7, <1>8 DEF Kinds

\* What a read-back confirms is what it saw.
LEMMA ConfirmsRecord ==
  ASSUME TypeOK, ReadBackAgrees(op), NEW f \in SetBy(op)
  PROVE  Wanted(op, f) = record[f]
  BY DEF ReadBackAgrees

LEMMA IdleStage == Idle.stage = "idle" /\ Idle \notin Operations
  BY DEF Idle, Operations

-----------------------------------------------------------------------------
(* Every step keeps the invariant.                                           *)

LEMMA InitInv == Init => RecordInv
  <1> SUFFICES ASSUME Init PROVE RecordInv
    OBVIOUS
  <1>1. record \in MarcRecords /\ uid \in Values
    BY DEF Init, MarcRecords, Values
  <1>2. confirmed \in [Fields -> Values \cup {"free"}] /\ StatusInv /\ ConfirmedStays
    BY DEF Init, Free, StatusInv, ConfirmedStays, Fields
  <1>3. ReadInv
    BY IdleStage DEF Init, ReadInv
  <1>4. QED
    BY <1>1, <1>2, <1>3 DEF Init, RecordInv, TypeOK

LEMMA StepTyped == RecordInv /\ [Next]_vars => TypeOK'
  <1> SUFFICES ASSUME RecordInv, [Next]_vars PROVE TypeOK'
    OBVIOUS
  <1> USE DEF RecordInv, TypeOK, librarian
  <1>1. CASE ReadMetadata
    BY <1>1 DEF ReadMetadata, MarcRecords, Fields
  <1>2. ASSUME NEW kind \in Kinds, NEW item \in {Null, Item}, NEW asset \in {Null, Asset},
               Get(kind, item, asset)
        PROVE  TypeOK'
    <2>1. op' \in Operations
      BY <1>2 DEF Get, Operations
    <2>2. QED
      BY <1>2, <2>1 DEF Get
  <1>3. CASE WithoutPut
    BY <1>3 DEF WithoutPut
  <1>4. CASE Put
    <2>1. op \in Operations /\ ops \in 1..MaxOps
      BY <1>4, IdleStage DEF Put, ReadInv
    <2>2. record' \in MarcRecords
      BY <1>4, <2>1, EditedTyped DEF Put
    <2>3. confirmed' \in [Fields -> Values \cup {"free"}]
      BY <1>4 DEF Put, FreeOnly
    <2>4. op' \in Operations \cup {Idle}
      BY <1>4, <2>1 DEF Put, Operations
    <2>5. QED
      BY <1>4, <2>2, <2>3, <2>4 DEF Put
  <1>5. CASE ReadBack
    <2>1. \A f \in Fields : record[f] \in Values
      BY DEF MarcRecords
    <2>2. confirmed' \in [Fields -> Values \cup {"free"}]
      BY <1>5, <2>1, ConfirmsRecord DEF ReadBack, Confirms
    <2>3. QED
      BY <1>5, <2>2 DEF ReadBack
  <1>6. CASE OpenForm
    BY <1>6 DEF OpenForm
  <1>7. ASSUME NEW edit \in Edits, SaveForm(edit) PROVE TypeOK'
    <2>1. form \in MarcRecords /\ edit[1] \in Fields /\ edit[2] \in Values
      BY <1>7 DEF SaveForm, Values
    <2>2. record' \in MarcRecords
      BY <1>7, <2>1 DEF SaveForm, MarcRecords
    <2>3. touched' \subseteq Fields /\ confirmed' \in [Fields -> Values \cup {"free"}]
      BY <1>7 DEF SaveForm, Changed, FreeOnly
    <2>4. saves' \in 0..MaxSaves
      BY <1>7 DEF SaveForm, ReadInv
    <2>5. QED
      BY <1>7, <2>2, <2>3, <2>4 DEF SaveForm
  <1>8. CASE UNCHANGED vars
    BY <1>8 DEF vars
  <1>9. QED
    BY <1>1, <1>2, <1>3, <1>4, <1>5, <1>6, <1>7, <1>8 DEF Next

LEMMA StepRead == RecordInv /\ [Next]_vars => ReadInv'
  <1> SUFFICES ASSUME RecordInv, [Next]_vars PROVE ReadInv'
    OBVIOUS
  <1> USE IdleStage DEF RecordInv, TypeOK, ReadInv, librarian
  <1>1. CASE ReadMetadata \/ OpenForm
    BY <1>1 DEF ReadMetadata, OpenForm
  <1>2. ASSUME NEW kind \in Kinds, NEW item \in {Null, Item}, NEW asset \in {Null, Asset},
               Get(kind, item, asset)
        PROVE  ReadInv'
    BY <1>2 DEF Get
  <1>3. CASE WithoutPut \/ ReadBack
    BY <1>3 DEF WithoutPut, ReadBack
  <1>4. CASE Put
    <2>1. op \in Operations
      BY <1>4 DEF Put
    <2>2. op' = Idle \/ (op.kind # "set_status" /\ op' = [op EXCEPT !.stage = "read_back"])
      BY <1>4 DEF Put
    <2>3. QED
      BY <1>4, <2>1, <2>2 DEF Put, Operations
  <1>5. ASSUME NEW edit \in Edits, SaveForm(edit) PROVE ReadInv'
    BY <1>5 DEF SaveForm, Changed
  <1>6. CASE UNCHANGED vars
    BY <1>6 DEF vars
  <1>7. QED
    BY <1>1, <1>2, <1>3, <1>4, <1>5, <1>6 DEF Next

LEMMA StepConfirmed == RecordInv /\ [Next]_vars => StatusInv' /\ ConfirmedStays'
  <1> SUFFICES ASSUME RecordInv, [Next]_vars PROVE StatusInv' /\ ConfirmedStays'
    OBVIOUS
  <1> USE DEF RecordInv, TypeOK, StatusInv, ConfirmedStays, librarian
  <1>1. CASE UNCHANGED <<record, confirmed>>
    BY <1>1
  <1>2. CASE Put /\ ~UNCHANGED <<record, confirmed>>
    <2>1. op \in Operations /\ record' = Edited(op) /\ confirmed' = FreeOnly(SetBy(op) \cup touched)
      BY <1>2, IdleStage DEF Put
    <2>2. ASSUME NEW f \in Fields PROVE confirmed'[f] \in {"free", record'[f]}
      <3>1. CASE f \in SetBy(op) \cup touched
        BY <2>1, <3>1 DEF FreeOnly
      <3>2. CASE f \notin SetBy(op) \cup touched /\ f # "956y"
        <4>1. record[f] = op.read[f]
          BY <1>2, <3>2 DEF Put, ReadInv
        <4>2. Edited(op)[f] = op.read[f]
          BY <2>1, <3>2, EditedWithin
        <4>3. QED
          BY <2>1, <3>2, <4>1, <4>2 DEF FreeOnly
      <3>3. CASE f = "956y"
        BY <2>1, <3>3 DEF FreeOnly
      <3>4. QED
        BY <3>1, <3>2, <3>3
    <2>3. confirmed'["956y"] = "free"
      BY <2>1 DEF FreeOnly, Fields
    <2>4. QED
      BY <2>2, <2>3
  <1>3. CASE ReadBack /\ ReadBackAgrees(op)
    <2>1. record' = record /\ confirmed' = Confirms(SetBy(op))
      BY <1>3 DEF ReadBack
    <2>2. ASSUME NEW f \in Fields PROVE confirmed'[f] \in {"free", record'[f]}
      BY <1>3, <2>1, ConfirmsRecord DEF Confirms
    <2>3. op \in Operations /\ op.kind # "set_status"
      BY <1>3, IdleStage DEF ReadBack, ReadInv
    <2>4. "956y" \notin SetBy(op)
      BY <2>3 DEF SetBy, Operations, Kinds
    <2>5. confirmed'["956y"] = "free"
      BY <2>1, <2>4 DEF Confirms, Fields
    <2>6. QED
      BY <2>2, <2>5
  <1>4. ASSUME NEW edit \in Edits, SaveForm(edit) PROVE StatusInv' /\ ConfirmedStays'
    BY <1>4 DEF SaveForm, FreeOnly, Changed, Fields
  <1>5. QED
    BY <1>1, <1>2, <1>3, <1>4
       DEF Next, ReadMetadata, Get, WithoutPut, Put, ReadBack, OpenForm, vars

THEOREM RecordInductive == Spec => []RecordInv
  <1>1. RecordInv /\ [Next]_vars => RecordInv'
    BY StepTyped, StepRead, StepConfirmed DEF RecordInv
  <1>2. QED
    BY InitInv, <1>1, PTL DEF Spec

-----------------------------------------------------------------------------
\* The record in Koha stays a record, and the rest keeps its types too.
THEOREM TypeCorrect == Spec => []TypeOK
  <1>1. RecordInv => TypeOK
    BY DEF RecordInv
  <1>2. QED
    BY <1>1, RecordInductive, PTL

\* Confirmed is only what Koha holds, until a later write to the field.
THEOREM ConfirmationsAreTrue == Spec => []ConfirmedStays
  <1>1. RecordInv => ConfirmedStays
    BY DEF RecordInv
  <1>2. QED
    BY <1>1, RecordInductive, PTL

\* No operation changes a field it is not for, except to undo a save it overtook.
THEOREM OnlyOwnFieldsWritten == Spec => ForeignFieldsKept
  <1> DEFINE Kept == op # Idle /\ op' # op => Changed(record, record') \subseteq Purpose(op) \cup touched
  <1>1. ASSUME RecordInv, Next PROVE Kept
    <2> USE <1>1 DEF RecordInv, TypeOK
    <2>1. CASE Put /\ record' # record
      <3>1. op \in Operations /\ record' = Edited(op)
        BY <2>1, IdleStage DEF Put
      <3>2. ASSUME NEW f \in Fields, record'[f] # record[f], f \notin touched PROVE f \in Purpose(op)
        <4>1. record[f] = op.read[f]
          BY <2>1, <3>2 DEF Put, ReadInv
        <4>2. QED
          BY <3>1, <3>2, <4>1, EditedWithin
      <3>3. QED
        BY <3>2 DEF Changed
    <2>2. CASE record' = record
      BY <2>2 DEF Changed
    <2>3. ASSUME NEW edit \in Edits, SaveForm(edit) PROVE Kept
      BY <2>3 DEF SaveForm
    <2>4. QED
      BY <2>1, <2>2, <2>3 DEF Next, ReadMetadata, Get, WithoutPut, ReadBack, OpenForm
  <1>2. RecordInv /\ [Next]_vars => [Kept]_vars
    BY <1>1
  <1>3. QED
    BY <1>2, RecordInductive, PTL DEF Spec, ForeignFieldsKept
=============================================================================
