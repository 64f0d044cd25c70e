------------------------------ MODULE MCBatches ------------------------------
(* Batches for TLC: a range given backwards, a record named twice, and a list  *)
(* with nothing in it.                                                        *)
EXTENDS Batches

CONSTANTS b1, e1, e2, d1

Lists == {{<<2, 1>>, <<1, 1>>, <<>>}, {<<>>}}
=============================================================================
