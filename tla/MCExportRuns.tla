----------------------------- MODULE MCExportRuns -----------------------------
EXTENDS ExportRuns

\* Biblios, run ids and invocations.
CONSTANTS b1, b2, e1, e2, w1, w2
=============================================================================
