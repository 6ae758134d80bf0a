------------------------ MODULE MCLanguageServerPool ------------------------
\* A pool at its cap.
EXTENDS LanguageServerPool, TLC

ProcSymmetry == Permutations(Procs)
=============================================================================
