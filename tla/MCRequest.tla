------------------------------ MODULE MCRequest ------------------------------
(* Request on a small instance.                                            *)
EXTENDS Request

MCLengths == {0, 1, 3}
=============================================================================
