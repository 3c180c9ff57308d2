----------------------------- MODULE MCKeyPool -----------------------------
(* Two keys of the same priority, and two loads at once. *)
EXTENDS KeyPool

MCPriority == <<1, 1>>
=============================================================================
