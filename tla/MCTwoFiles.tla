------------------------------ MODULE MCTwoFiles ------------------------------
EXTENDS MCRollback

CONSTANT Other

\* Of two files one has its pages changed; the other only the fields of its FCT that the
\* model names, by flushes and checkpoints, and it is restored, refused and restored again.
OtherIsQuiet == \A p \in DataPages : <<Other, p>> \notin logged

OneFileChanges == FctFieldsOnly /\ OtherIsQuiet
================================================================================
