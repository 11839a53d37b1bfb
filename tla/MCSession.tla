----------------------------- MODULE MCSession -----------------------------
(* Session on a small instance.                                            *)
EXTENDS Session

CONSTANTS r1, r2

MCRequests == {r1, r2}
=============================================================================
