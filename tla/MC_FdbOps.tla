------------------------------ MODULE MC_FdbOps ------------------------------
(* Model-checking instance of FdbOps.                                     *)
EXTENDS FdbOps

MCHandlers == {"read", "update", "rmw", "generic", "bulk"}
MCGenericOnly == {"generic"}
=============================================================================
