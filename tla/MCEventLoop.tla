----------------------------- MODULE MCEventLoop -----------------------------
(* EventLoop on a small instance: two sockets, which have different        *)
(* numbers or, one after the other, the same.                              *)
EXTENDS EventLoop

MCFds == {7, 8}
=============================================================================
