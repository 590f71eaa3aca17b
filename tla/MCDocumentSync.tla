--------------------------- MODULE MCDocumentSync ---------------------------
EXTENDS DocumentSync, TLC

\* Workers are alike, and so are documents.
PoolSymmetry == Permutations(Worker) \cup Permutations(Uri)
=============================================================================
