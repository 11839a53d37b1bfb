-------------------------- MODULE MCHeaderCollector --------------------------
(* HeaderCollector on small instances.                                     *)
EXTENDS HeaderCollector

CONSTANTS a, b

MCKeys == {a, b}
=============================================================================
