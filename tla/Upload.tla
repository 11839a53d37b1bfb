------------------------------- MODULE Upload -------------------------------
(***************************************************************************)
(* What BasicRequest::async_write_some and async_abort promise, without    *)
(* cURL, connections or pausing: a sink that takes from one writer at a    *)
(* time, no more than the writer holds, while a transfer runs; and that an *)
(* abort, which needs no turn, ends.                                       *)
(***************************************************************************)
EXTENDS Naturals

CONSTANTS
  Calls,    (* the calls of async_write_some and async_abort *)
  Lengths   (* the sizes of the writers' buffers             *)

VARIABLES
  status,   \* per call: idle, waiting, or the result it completed with
  kind,     \* per call: write or abort
  given,    \* per call: the number of bytes taken from it
  size,     \* the size of the waiting writer's buffer
  open,     \* a transfer runs
  taken     \* the number of bytes it has taken

vars == <<status, kind, given, size, open, taken>>

Init ==
  /\ status = [c \in Calls |-> "idle"]
  /\ kind = [c \in Calls |-> "write"]
  /\ given = [c \in Calls |-> 0]
  /\ size = 0
  /\ open = FALSE
  /\ taken = 0

Waits(c) == status[c] = "waiting"
Nobody   == \A c \in Calls : ~Waits(c)

(* The waiting call, if there is one, completes with result.               *)
Completed(result) ==
  [c \in Calls |-> IF Waits(c) THEN result ELSE status[c]]

New(c, what) ==
  /\ status[c] = "idle"
  /\ kind' = [kind EXCEPT ![c] = what]
  /\ UNCHANGED <<given, open, taken>>

(* Each transfer starts empty and with no one waiting.                     *)
Begin ==
  /\ ~open
  /\ Nobody
  /\ open' = TRUE
  /\ taken' = 0
  /\ UNCHANGED <<status, kind, given, size>>

Write(c) ==
  /\ New(c, "write")
  /\ Nobody
  /\ open
  /\ status' = [status EXCEPT ![c] = "waiting"]
  /\ size' \in Lengths

RefuseWrite(c) ==
  /\ New(c, "write")
  /\ ~Nobody
  /\ status' = [status EXCEPT ![c] = "multiple_writes"]
  /\ UNCHANGED size

(* There may be no connection, and without a transfer there is none.       *)
FailWrite(c) ==
  /\ New(c, "write")
  /\ Nobody
  /\ status' = [status EXCEPT ![c] = "error"]
  /\ UNCHANGED size

(* An abort takes the place of who waits, be it a write or an abort.       *)
Abort(c) ==
  /\ New(c, "abort")
  /\ open
  /\ status' = [Completed("aborted") EXCEPT ![c] = "waiting"]
  /\ size' = 0

FailAbort(c) ==
  /\ New(c, "abort")
  /\ status' = [Completed("aborted") EXCEPT ![c] = "error"]
  /\ size' = 0

(* Some of the writer's bytes are taken, each of them once.                *)
Take(c) ==
  /\ Waits(c) /\ kind[c] = "write"
  /\ open
  /\ \E n \in 0 .. size :
       /\ given' = [given EXCEPT ![c] = n]
       /\ taken' = taken + n
  /\ status' = Completed("success")
  /\ size' = 0
  /\ UNCHANGED <<kind, open>>

(* The abort has its effect: the transfer that it waited for ends.         *)
EndByAbort(c) ==
  /\ Waits(c) /\ kind[c] = "abort"
  /\ open
  /\ open' = FALSE
  /\ status' = Completed("success")
  /\ size' = 0
  /\ UNCHANGED <<kind, given, taken>>

(* The transfer ends for another reason; who waits is told so.             *)
End ==
  /\ open
  /\ open' = FALSE
  /\ status' = Completed("eof")
  /\ size' = 0
  /\ UNCHANGED <<kind, given, taken>>

Cancel(c) ==
  /\ Waits(c)
  /\ status' = Completed("aborted")
  /\ size' = 0
  /\ UNCHANGED <<kind, given, open, taken>>

Next ==
  \/ Begin
  \/ End
  \/ \E c \in Calls :
       \/ Write(c)
       \/ RefuseWrite(c)
       \/ FailWrite(c)
       \/ Abort(c)
       \/ FailAbort(c)
       \/ Take(c)
       \/ EndByAbort(c)
       \/ Cancel(c)

(* That who waits is answered at last depends on the transfer's end and is *)
(* stated of Request (EveryCallIsAnswered).                                *)
Spec == Init /\ [][Next]_vars
=============================================================================
