-------------------------- MODULE MCStoreReconcile --------------------------
(* Instances of StoreReconcile for TLC. *)
EXTENDS StoreReconcile
=============================================================================
