--------------------------- MODULE MCTenantQuota ---------------------------
(* Two tiers, one with half the other's quota of a minute, one project with *)
(* a sub-cap, and amounts of debt for which the rates of decay differ.       *)
EXTENDS TenantQuota

MCRpmLimit == [probationary |-> 1, builder |-> 2]
MCRpdLimit == [probationary |-> 2, builder |-> 3]
=============================================================================
