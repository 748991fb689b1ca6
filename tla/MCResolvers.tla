---------------------------- MODULE MCResolvers ----------------------------
\* Instances of the resolvers: r1 .. r3 parse, bad does not.
EXTENDS Resolvers
CONSTANTS r1, r2, r3, bad
============================================================================
