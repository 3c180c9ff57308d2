---------------------------- MODULE MCWorkbench ----------------------------
(* Two tenants, a key to add and a community key, one project.             *)
EXTENDS Workbench

Plan(s, p, b, l, f) == [session |-> s, pool |-> p, bench |-> b, loads |-> l, faults |-> f]

MCPlans ==
    {Plan(3, 0, 0, 1, 0), Plan(2, 0, 0, 1, 1), Plan(1, 1, 0, 2, 1),
     Plan(0, 2, 0, 2, 1), Plan(0, 0, 3, 1, 1)}
=============================================================================
