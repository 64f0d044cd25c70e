---------------------------- MODULE MCCoverCycle ----------------------------
EXTENDS CoverCycle, TLC

\* Drive files and contents, and request options.
CONSTANTS f1, f2, p1, p2, F1, F2, P1, P2, plain, unoptimized

\* The users' edits of a run.
EditsButUnlink    == {"content", "relink", "links", "item"}
EditsOfReferences == {"relink", "unlink", "links", "item"}
EditsOfContent    == {"content"}

\* Ids and contents are interchangeable (for safety properties).
Symmetry == Permutations(FileIds) \cup Permutations(FileContents)
              \cup Permutations(CoverIds) \cup Permutations(CoverContents)
=============================================================================
