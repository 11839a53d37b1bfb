----------------------------- MODULE MCResponse -----------------------------
(* Response on small instances: the bytes of the body are all different,   *)
(* so that a lost, repeated or misplaced byte shows.                       *)
EXTENDS Response

MCBody  == <<1, 2, 3, 4>>
MCBytes == 1 .. 4
MCSizes == {0, 1, 3}
=============================================================================
