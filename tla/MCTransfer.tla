----------------------------- MODULE MCTransfer -----------------------------
(* Transfer on a small instance.                                           *)
EXTENDS Transfer

CONSTANTS location

MCBody    == <<1, 2>>
MCBytes   == {1, 2}
MCSizes   == {1}
MCKeys    == {location}
MCLengths == {0, 1}
=============================================================================
