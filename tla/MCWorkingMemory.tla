-------------------------- MODULE MCWorkingMemory ---------------------------
EXTENDS WorkingMemory, TLC
\* Contents, versions and clients are interchangeable.
Symmetry == Permutations(Contents) \cup Permutations(Versions)
=============================================================================
