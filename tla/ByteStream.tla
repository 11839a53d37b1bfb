----------------------------- MODULE ByteStream -----------------------------
(***************************************************************************)
(* What BasicResponse::async_read_some promises, without buffer, cURL or   *)
(* pausing: a stream whose bytes are handed out once and in order, to one  *)
(* reader at a time, until it has ended.                                   *)
(***************************************************************************)
EXTENDS Naturals, Sequences

CONSTANTS
  Reads,  (* the calls of async_read_some *)
  Body    (* the bytes the peer sends     *)

VARIABLES
  status,     \* per call: idle, waiting, or the result it completed with
  delivered,  \* the bytes all calls together were given
  ended       \* no byte will be given any more

vars == <<status, delivered, ended>>

Init ==
  /\ status = [op \in Reads |-> "idle"]
  /\ delivered = <<>>
  /\ ended = FALSE

Waits(op) == status[op] = "waiting"
Nobody    == \A op \in Reads : ~Waits(op)

(* The calls that may be answered now: a new one only if none waits, so    *)
(* that no call overtakes another.                                         *)
Turn(op) == Waits(op) \/ (status[op] = "idle" /\ Nobody)

Complete(op, result) == status' = [status EXCEPT ![op] = result]

Wait(op) ==
  /\ status[op] = "idle"
  /\ Nobody
  /\ ~ended
  /\ Complete(op, "waiting")
  /\ UNCHANGED <<delivered, ended>>

(* The next bytes of the body, perhaps the last ones.  No bytes at all are *)
(* possible when the caller's buffer is empty.                             *)
Serve(op) ==
  /\ Turn(op)
  /\ ~ended
  /\ \E to \in Len(delivered) .. Len(Body) : delivered' = SubSeq(Body, 1, to)
  /\ ended' \in BOOLEAN
  /\ Complete(op, "success")

Eof(op) ==
  /\ status[op] = "idle"
  /\ ended
  /\ Complete(op, "eof")
  /\ UNCHANGED <<delivered, ended>>

(* The stream ends; who waits is told so.                                  *)
End ==
  /\ ended' = TRUE
  /\ status' = [op \in Reads |-> IF Waits(op) THEN "eof" ELSE status[op]]
  /\ UNCHANGED delivered

Refuse(op) ==
  /\ status[op] = "idle"
  /\ ~Nobody
  /\ Complete(op, "multiple_reads")
  /\ UNCHANGED <<delivered, ended>>

(* The transfer cannot be resumed: there is no connection yet.             *)
Fail(op) ==
  /\ status[op] = "idle"
  /\ Nobody
  /\ ~ended
  /\ Complete(op, "error")
  /\ UNCHANGED <<delivered, ended>>

Abort(op) ==
  /\ Waits(op)
  /\ Complete(op, "aborted")
  /\ UNCHANGED <<delivered, ended>>

Next ==
  \/ End
  \/ \E op \in Reads :
       \/ Wait(op)
       \/ Serve(op)
       \/ Eof(op)
       \/ Refuse(op)
       \/ Fail(op)
       \/ Abort(op)

(* Who waits is answered.                                                  *)
Answer == ~Nobody /\ (End \/ \E op \in Reads : Serve(op) \/ Abort(op))

Safety == Init /\ [][Next]_vars
Spec   == Safety /\ WF_vars(Answer)
=============================================================================
