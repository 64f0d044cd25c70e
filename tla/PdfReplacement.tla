---------------------------- MODULE PdfReplacement ----------------------------
(***************************************************************************)
(* What the replacement of a PDF promises to the readers of a Koha record: *)
(* its file link always opens a stored bitstream, and what is dropped from  *)
(* the Item is never what the link shows nor the last copy.  Only an Item    *)
(* deleted in DSpace takes its bitstreams, and the link to them, away.      *)
(***************************************************************************)
EXTENDS Naturals

CONSTANT None

VARIABLES link,      \* the bitstream of the Item the record's 856 field opens
          stored,    \* the bitstreams of the Item
          uploads    \* how many were ever uploaded; the last one's number

vars == <<link, stored, uploads>>

Init == link = None /\ stored = {} /\ uploads = 0

Store ==
  /\ uploads' = uploads + 1
  /\ stored' = stored \cup {uploads + 1}
  /\ UNCHANGED link

Show(bit) ==
  /\ bit \in stored
  /\ link' = bit
  /\ UNCHANGED <<stored, uploads>>

Hide == link' = None /\ UNCHANGED <<stored, uploads>>

Drop(bit) ==
  /\ bit \in stored \ {link}
  /\ stored \ {bit} # {}
  /\ stored' = stored \ {bit}
  /\ UNCHANGED <<link, uploads>>

Lose == link' = None /\ stored' = {} /\ UNCHANGED uploads

Next == Store \/ Hide \/ Lose \/ \E bit \in stored : Show(bit) \/ Drop(bit)

Spec == Init /\ [][Next]_vars
=============================================================================
