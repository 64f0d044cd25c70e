------------------------------ MODULE KohaRecord ------------------------------
(***************************************************************************)
(* One MARC record in Koha and its two kinds of writer: the integrator's   *)
(* client (koha.py), one operation at a time under .workflow.lock, and a   *)
(* librarian with the edit form.  Koha offers no version check: everybody  *)
(* reads the whole record, edits it and puts the whole record back.        *)
(***************************************************************************)
EXTENDS Integers, FiniteSets

CONSTANTS
  Null,
  Item,        \* the uuid of the record's DSpace Item, for 957$3 and the two 856
  Asset,       \* the SHA of its cover asset
  NewUid,      \* what generate_uuid7 returns, one per operation
  Edits,       \* what a librarian may put into a field, as <<field, value>>
  MaxOps,      \* bound on the integrator's operations
  MaxSaves     \* bound on the librarian's saves

\* The subfields that matter, the two links of 856 together, and the rest.
Fields == {"001", "956p", "956y", "9573", "957c", "856", "other"}

ASSUME KohaRecordAssumptions ==
  /\ MaxOps \in Nat /\ MaxSaves \in Nat
  /\ DOMAIN NewUid = 1..MaxOps
  /\ \A edit \in Edits : edit[1] \in Fields
  /\ Null \notin {Item, Asset}

VARIABLES
  record,     \* the record in Koha
  uid,        \* record_uid as the integrator last read it
  op,         \* its operation in progress
  ops,        \* how many it began
  form,       \* the librarian's open form, or Null
  saves,
  \* Two histories for the properties: the fields that saves changed since the
  \* operation's GET, and what was confirmed per field, until somebody changes it.
  touched, confirmed

vars      == <<record, uid, op, ops, form, saves, touched, confirmed>>
librarian == <<form, saves>>

Kinds == {"ensure_uid", "set_status", "set_success", "set_cover", "remove", "restore", "repair"}

Idle == [kind |-> "none", stage |-> "idle", read |-> Null, item |-> Null, asset |-> Null]

Free == [f \in Fields |-> "free"]

\* A record with a source for its cover, integrated before or not, that may have
\* lost its 001 or its links.
Init ==
  /\ record \in [Fields -> {Null, "old"}]
  /\ record["956p"] = "old" /\ record["956y"] = Null /\ record["other"] = "old"
  /\ uid = Null
  /\ op = Idle /\ ops = 0
  /\ form = Null /\ saves = 0
  /\ touched = {} /\ confirmed = Free

-----------------------------------------------------------------------------
(* What the operations make of the record they have read.                    *)

\* ensure_record_uid keeps a 001 that is there.
EnsureUid(r) == IF r["001"] # Null THEN r ELSE [r EXCEPT !["001"] = NewUid[ops]]

\* _update_956 sets what it is given.
SetStatus(r)         == [r EXCEPT !["956y"] = "error"]
SetSuccess(r, asset) == [r EXCEPT !["956y"] = "imported", !["9573"] = Item, !["856"] = Item,
                                  !["957c"] = IF asset = Null THEN @ ELSE asset]
SetCoverUrl(r)       == [r EXCEPT !["957c"] = Asset]

\* Mutant: field 957 goes as a whole, with the Item's uuid in it.
RemoveCoverField(r) == [r EXCEPT !["956p"] = Null, !["957c"] = Null, !["9573"] = Null]

RemoveCover(r) == [r EXCEPT !["956p"] = Null, !["957c"] = Null]

\* restore_missing_957_metadata adds what is missing and replaces nothing.
Restore957(r, item, asset) ==
  [r EXCEPT !["9573"] = IF @ = Null THEN item ELSE @, !["957c"] = IF @ = Null THEN asset ELSE @]

RepairLinks(r) == [r EXCEPT !["856"] = Item]

Edited(o) ==
  CASE o.kind = "ensure_uid"  -> EnsureUid(o.read)
    [] o.kind = "set_status"  -> SetStatus(o.read)
    [] o.kind = "set_success" -> SetSuccess(o.read, o.asset)
    [] o.kind = "set_cover"   -> SetCoverUrl(o.read)
    [] o.kind = "remove"      -> RemoveCover(o.read)
    [] o.kind = "restore"     -> Restore957(o.read, o.item, o.asset)
    [] o.kind = "repair"      -> RepairLinks(o.read)

\* DELETE and the restoration refuse a record whose 001 is not the one their
\* caller read.
Refused(o) == o.kind \in {"remove", "restore"} /\ o.read["001"] # uid

NothingToPut(o) == o.kind \in {"ensure_uid", "restore"} /\ Edited(o) = o.read

\* What the read-back of each operation looks for, in koha.py or in its caller;
\* set_status has none.
SetBy(o) ==
  CASE o.kind = "ensure_uid"  -> {"001"}
    [] o.kind = "set_status"  -> {"956y"}
    [] o.kind = "set_success" -> {"9573", "856"} \cup (IF o.asset = Null THEN {} ELSE {"957c"})
    [] o.kind = "set_cover"   -> {"957c"}
    [] o.kind = "remove"      -> {"956p", "957c"}
    [] o.kind = "restore"     -> {f \in {"9573", "957c"} : IF f = "9573" THEN o.item # Null ELSE o.asset # Null}
    [] o.kind = "repair"      -> {"856"}

Wanted(o, f) ==
  CASE f = "9573"                        -> Item
    [] f = "957c" /\ o.kind # "remove"   -> Asset
    [] OTHER                             -> Edited(o)[f]

\* Mutant: an answer to the PUT is confirmation enough.
AnswerSuffices(o) == TRUE

ReadBackAgrees(o) ==
  /\ \A f \in SetBy(o) : record[f] = Wanted(o, f)
  /\ o.kind \in {"set_success", "set_cover", "remove"} => record["001"] = uid

-----------------------------------------------------------------------------
(* The integrator.                                                           *)

\* get_biblio_metadata, at the start of a cycle and of a DELETE.
ReadMetadata ==
  /\ op = Idle /\ ops < MaxOps
  /\ uid' = record["001"]
  /\ UNCHANGED <<record, op, ops, librarian, touched, confirmed>>

\* Everything but the 001 itself is written for a known record_uid; what the
\* restoration is given comes from the row, for what the cycle saw missing.
Get(kind, item, asset) ==
  /\ op = Idle /\ ops < MaxOps
  /\ kind # "ensure_uid" => uid # Null
  /\ kind = "set_success" => item = Item
  /\ kind = "restore" => {item, asset} # {Null}
  /\ kind \notin {"set_success", "restore"} => item = Null /\ asset = Null
  /\ ops' = ops + 1
  /\ op' = [kind |-> kind, stage |-> "put", read |-> record, item |-> item, asset |-> asset]
  /\ touched' = {}
  /\ UNCHANGED <<record, uid, librarian, confirmed>>

Confirms(fields) == [f \in Fields |-> IF f \in fields THEN Wanted(op, f) ELSE confirmed[f]]

\* Refused, or nothing to do: ensure_record_uid then confirms the 001 it read.
WithoutPut ==
  /\ op.stage = "put" /\ (Refused(op) \/ NothingToPut(op))
  /\ op' = Idle
  /\ UNCHANGED <<record, uid, ops, librarian, touched, confirmed>>

Changed(before, after) == {f \in Fields : before[f] # after[f]}

FreeOnly(fields) == [f \in Fields |-> IF f \in fields THEN "free" ELSE confirmed[f]]

\* The PUT may fail, and if it lands its answer may be lost; set_status asks no more.
Put ==
  /\ op.stage = "put" /\ ~Refused(op) /\ ~NothingToPut(op)
  /\ \/ UNCHANGED <<record, confirmed>> /\ op' = Idle
     \/ /\ record' = Edited(op)
        /\ confirmed' = FreeOnly(SetBy(op) \cup touched)
        /\ \/ op' = Idle
           \/ op.kind # "set_status" /\ op' = [op EXCEPT !.stage = "read_back"]
  /\ UNCHANGED <<uid, ops, librarian, touched>>

ReadBack ==
  /\ op.stage = "read_back"
  /\ confirmed' = IF ReadBackAgrees(op) THEN Confirms(SetBy(op)) ELSE confirmed
  /\ op' = Idle
  /\ UNCHANGED <<record, uid, ops, librarian, touched>>

-----------------------------------------------------------------------------
(* The librarian, whose form keeps the whole record as it was when opened.   *)

OpenForm ==
  /\ form = Null /\ saves < MaxSaves
  /\ form' = record
  /\ UNCHANGED <<record, uid, op, ops, saves, touched, confirmed>>

SaveForm(edit) ==
  /\ form # Null
  /\ record' = [form EXCEPT ![edit[1]] = edit[2]]
  /\ form' = Null /\ saves' = saves + 1
  /\ touched' = touched \cup Changed(record, record')
  /\ confirmed' = FreeOnly(Changed(record, record'))
  /\ UNCHANGED <<uid, op, ops>>

-----------------------------------------------------------------------------
Next ==
  \/ ReadMetadata
  \/ \E kind \in Kinds, item \in {Null, Item}, asset \in {Null, Asset} : Get(kind, item, asset)
  \/ WithoutPut \/ Put \/ ReadBack
  \/ OpenForm \/ \E edit \in Edits : SaveForm(edit)

Spec == Init /\ [][Next]_vars

-----------------------------------------------------------------------------
(* Properties.                                                               *)

Values ==
  {Null, Item, Asset, "old", "error", "imported"}
    \cup {NewUid[n] : n \in 1..MaxOps} \cup {edit[2] : edit \in Edits}

MarcRecords == [Fields -> Values]

Operations ==
  [kind : Kinds, stage : {"put", "read_back"}, read : MarcRecords, item : {Null, Item},
   asset : {Null, Asset}]

\* Every variable holds values of the shape the code gives it.
TypeOK ==
  /\ record \in MarcRecords /\ uid \in Values
  /\ op \in Operations \cup {Idle} /\ ops \in 0..MaxOps
  /\ form \in MarcRecords \cup {Null} /\ saves \in 0..MaxSaves
  /\ touched \subseteq Fields /\ confirmed \in [Fields -> Values \cup {"free"}]

\* A PUT carries the whole record, yet an operation of koha.py changes only the
\* fields it is for, or undoes a save made between its GET and its PUT: it never
\* replaces a 001, a restoration never replaces a value, and a removed cover
\* leaves the Item's uuid.
Purpose(o) ==
  CASE o.kind = "ensure_uid"  -> {f \in {"001"} : o.read[f] = Null}
    [] o.kind = "set_status"  -> {"956y"}
    [] o.kind = "set_success" -> {"956y", "9573", "957c", "856"}
    [] o.kind = "set_cover"   -> {"957c"}
    [] o.kind = "remove"      -> {"956p", "957c"}
    [] o.kind = "restore"     -> {f \in {"9573", "957c"} : o.read[f] = Null}
    [] o.kind = "repair"      -> {"856"}

ForeignFieldsKept ==
  [][op # Idle /\ op' # op => Changed(record, record') \subseteq Purpose(op) \cup touched]_vars

\* What an operation confirmed was in Koha when it said so, and stays there until
\* another write to that field, or a save from a form, takes it away.
ConfirmedStays == \A f \in Fields : confirmed[f] \in {"free", record[f]}

=============================================================================
