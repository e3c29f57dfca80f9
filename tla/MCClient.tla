------------------------------ MODULE MCClient ------------------------------
(* Client for TLC: three commands, of two elements, of one, and of two.    *)
(* The bytes of the first two may come in one recv(); the third is the one *)
(* the buffer is compacted in.                                             *)
EXTENDS Client

ThreeCommands == {2, 3, 5}
ThreeElements == 1..5
Replies == {1, 3}
=============================================================================
