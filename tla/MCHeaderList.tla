---------------------------- MODULE MCHeaderList ----------------------------
(* HeaderList on a small instance.                                         *)
EXTENDS HeaderList

CONSTANTS r1, r2, h1, h2

MCRequests == {r1, r2}
MCHeaders  == {h1, h2}
=============================================================================
