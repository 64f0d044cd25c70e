------------------------------ MODULE AssetStore ------------------------------
(***************************************************************************)
(* What the directory of cover assets promises to the table that names its *)
(* files and to the readers of a confirmed record: what is named is there,  *)
(* what a reader is shown is named, a file appears whole, with the content   *)
(* of its name, and goes only while nobody names it.  Nobody but the         *)
(* operator changes what a name holds.                                      *)
(***************************************************************************)
CONSTANTS Assets, Contents, None

VARIABLES held,    \* the content of each file, or None
          named,   \* the assets the table `records` names, but for those it has lost
          shown    \* the assets that Koha shows of confirmed records

vars == <<held, named, shown>>

Stored == {a \in Assets : held[a] # None}

Init ==
  /\ held \in [Assets -> Assets \cup {None}] /\ \A a \in Stored : held[a] = a
  /\ named = {} /\ shown = {}

\* A name that had lost its file may have it again.
Publish(a) ==
  /\ a \notin Stored
  /\ held' = [held EXCEPT ![a] = a]
  /\ named' \in {named, named \cup {a}}
  /\ shown' \in {shown, shown \cup {a}} /\ shown' \subseteq named'

Collect(a) ==
  /\ a \in Stored \ named
  /\ held' = [held EXCEPT ![a] = None]
  /\ UNCHANGED <<named, shown>>

Override(a) ==
  /\ a \in Stored
  /\ \E content \in Contents : held' = [held EXCEPT ![a] = content]
  /\ UNCHANGED <<named, shown>>

\* A record is given another asset, or none, and Koha follows.
Refer ==
  /\ named' \subseteq Stored
  /\ shown' \subseteq named'
  /\ UNCHANGED held

Next == Refer \/ \E a \in Assets : Publish(a) \/ Collect(a) \/ Override(a)

Spec == Init /\ [][Next]_vars
=============================================================================
