--------------------------- MODULE MCWorkerQueue ---------------------------
\* Model-checking instance of WorkerQueue: more jobs than workers, so that a
\* worker loops and both bounded channels fill up.
EXTENDS WorkerQueue, TLC
CONSTANTS w1, w2
WorkerSymmetry == Permutations({w1, w2})
============================================================================
