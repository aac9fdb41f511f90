--------------------------- MODULE MCOperatorTools ---------------------------
(* Every operator tool, from every state of the host it may find.            *)
EXTENDS OperatorTools
=============================================================================
