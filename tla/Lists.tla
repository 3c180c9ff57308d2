------------------------------- MODULE Lists -------------------------------
(* What the code does to arrays with filter and reduce. *)
EXTENDS Integers, FiniteSets, FiniteSetsExt

\* Array.filter: the elements at the places that pass, in their order; the
\* place of the j-th has j of them up to it.
Through(s, places) ==
    [j \in 1..Cardinality(places) |->
        s[CHOOSE i \in places : Cardinality({h \in places : h <= i}) = j]]

\* The sum of f over S.
Total(f, S) == MapThenSumSet(LAMBDA x : f[x], S)
=============================================================================
