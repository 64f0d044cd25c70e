----------------------------- MODULE MCKohaRecord -----------------------------
(* KohaRecord for TLC: a librarian who renews or clears the cover's source, or *)
(* edits a field the integrator never looks at.                               *)
EXTENDS KohaRecord

Uids       == <<"u1", "u2", "u3">>
SomeEdits  == {<<"956p", "new">>, <<"956p", Null>>, <<"other", "new">>, <<"856", "new">>}
=============================================================================
