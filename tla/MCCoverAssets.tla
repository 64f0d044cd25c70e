---------------------------- MODULE MCCoverAssets ----------------------------
EXTENDS CoverAssets

\* Records, assets, and a content of the operator.
CONSTANTS r1, r2, a1, a2, x

\* The second record shares the cover of the first, which also gets another.
CoverSets == [r \in Records |-> IF r = r1 THEN Assets ELSE {a1}]
=============================================================================
