------------------------------ MODULE MCRollback ------------------------------
EXTENDS Rollback, TLC

\* Threads are alike, and so are the values of pages other than the first.
Symmetry == Permutations(Thread)

\* Behaviours are followed up to the first step that defeats one of the assumptions
\* that comments in the code rest on; for each of them there is a run that goes on.
NoLapse == lapses = {}
OnlyOverlap == lapses \subseteq {"overlap"}
OnlyFctRace == lapses \subseteq {"fct_race"}
OnlyLogFailed == lapses \subseteq {"log_failed"}

\* Of the FCT only the fields change that the model names: two threads and two pages of
\* data of which both may be anything are too many for TLC.
FctFieldsOnly == NoLapse /\ \A f \in File : mem[f][Fct].data = Data0

\* A checkpoint that is asked for, and the one that ends a rollback, come in a later
\* second than the last; the one that a commit implies may come in the same.
TimePasses ==
  /\ \A t \in Thread : pc[t] = "ready" /\ pc'[t] = "inhibit" => current' > current
  /\ phase = "rolling" /\ phase' = "up" => current' > current
================================================================================
