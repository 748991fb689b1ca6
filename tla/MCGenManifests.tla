--------------------------- MODULE MCGenManifests --------------------------
\* Two jobs on two workers, one stale file, and a second run of the command
\* over whatever the first one left behind.
EXTENDS GenManifests, TLC
CONSTANTS w1, w2
WorkerSymmetry == Permutations({w1, w2})
============================================================================
