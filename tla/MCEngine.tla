------------------------------ MODULE MCEngine ------------------------------
(* Engine for TLC; the configurations choose which functions callers use.  *)
EXTENDS Engine

(* The functions the server's commands call (src/command.c).               *)
ServerOps == {"set", "get"}
=============================================================================
