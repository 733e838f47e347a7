---------------------------- MODULE MCQueryBilling ---------------------------
(* Small instances of QueryBilling for TLC.                                *)
EXTENDS QueryBilling

MCOwner == [k \in Keys |-> CHOOSE u \in Users : TRUE]
=============================================================================
