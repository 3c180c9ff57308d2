---------------------------- MODULE MCKeyConsole ----------------------------
(* Two keys of one cloud project; the tenants are one that may contribute    *)
(* and the default one.  Keys are interchangeable.                           *)
EXTENDS KeyConsole, TLC

CONSTANTS k1, k2, t1, p1, i1

Symmetry == Permutations(Keys)

\* Loads are looked at while no secret is cached or looked up: a load changes which
\* pools have a key, and a lookup asks only that one has it.
Apart ==
    loads = {} \/ \A i \in Isolates :
                      lookups[i] = NONE /\ \A k \in Keys : cache[i][k] = NONE
=============================================================================
