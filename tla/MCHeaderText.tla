---------------------------- MODULE MCHeaderText ----------------------------
(* HeaderText on a small instance: LF CR space : A B a b                   *)
EXTENDS HeaderText

MCChars   == {10, 13, 32, 58, 65, 66, 97, 98}
MCBlanks  == {10, 13, 32}
MCUpper   == [c \in MCChars |-> IF c \in {97, 98} THEN c - 32 ELSE c]
MCNewline == <<13, 10>>
MCNames   == {<<97>>, <<65>>, <<97, 98>>}
MCValues  == {<<>>, <<98, 32, 58, 65>>}
MCPads    == {<<>>, <<32>>}
MCOthers  == {<<65, 32, 97>>, <<65, 32, 58>>, <<32, 97, 58, 98>>}
=============================================================================
