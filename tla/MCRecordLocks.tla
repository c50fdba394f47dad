---------------------------- MODULE MCRecordLocks ----------------------------
EXTENDS RecordLocks, TLC

Symmetry == Permutations(Thread) \cup Permutations(Record)
===============================================================================
