------------------------ MODULE MCOperationDispatch ------------------------
(***************************************************************************)
(* Model checking OperationDispatch: two passes that may overlap, over the *)
(* requests the configuration names.                                       *)
(***************************************************************************)
EXTENDS OperationDispatch
=============================================================================
