---------------------------- MODULE MCEventLoop ----------------------------
(***************************************************************************)
(* EventLoop for TLC.  Descriptor 0 is the listening socket; with fewer    *)
(* descriptors than connections, accept() runs out of them and hands out   *)
(* again what was closed.                                                  *)
(***************************************************************************)
EXTENDS EventLoop

TwoSockets == 2
ThreeSockets == 3
=============================================================================
