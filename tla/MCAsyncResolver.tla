-------------------------- MODULE MCAsyncResolver --------------------------
\* Instances of AsyncResolver: r1 .. r3 parse, bad does not.
EXTENDS AsyncResolver
CONSTANTS r1, r2, r3, bad
============================================================================
