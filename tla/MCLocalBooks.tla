---------------------------- MODULE MCLocalBooks -----------------------------
\* Three PDFs for one record: enough for a supply, its repair and one more.
EXTENDS LocalBooks, TLC
CONSTANTS c1, c2, c3
SomePdfs == {c1, c2, c3}
Pdfs == Permutations(SomePdfs)
=============================================================================
