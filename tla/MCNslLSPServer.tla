--------------------------- MODULE MCNslLSPServer ---------------------------
EXTENDS NslLSPServer, TLC

ThreadSymmetry == Permutations(Worker) \cup Permutations(Request)
=============================================================================
