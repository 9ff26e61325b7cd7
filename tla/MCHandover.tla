----------------------------- MODULE MCHandover -----------------------------
(***************************************************************************)
(* KubesharkHandover with the resources, specs and plans of MCOperator.    *)
(***************************************************************************)
EXTENDS MCOperator, KubesharkHandover
=============================================================================
