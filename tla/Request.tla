------------------------------- MODULE Request -------------------------------
(***************************************************************************)
(* BasicRequest as the source of an upload: async_write_some and           *)
(* async_abort, which the program calls at any time, against               *)
(* _read_callback and _mark_finished, which cURL and the session call; all *)
(* on the session's strand.  A request outlives its transfers: it can be   *)
(* started again and again.                                                *)
(***************************************************************************)
EXTENDS Naturals, FiniteSetsExt

CONSTANTS
  MaxCalls,      (* bound: how often the program writes or aborts        *)
  MaxTransfers,  (* bound: how often the request is started              *)
  Lengths,       (* the sizes of the buffers the program passes          *)
  MaxChunk       (* the size of cURL's upload buffer                     *)

ASSUME RequestAssumption ==
  /\ MaxCalls \in Nat
  /\ MaxTransfers \in Nat
  /\ Lengths \subseteq Nat
  /\ MaxChunk \in Nat \ {0}

Calls == 1 .. MaxCalls
None  == 0   \* the empty Function

Results == {"success", "eof", "aborted", "multiple_writes", "error"}

VARIABLES
  status,     \* per call: idle, waiting or its result
  kind,       \* per call: write or abort
  during,     \* per call: the transfer that ran when it was made
  moved,      \* per call: the number of bytes it reported
  send,       \* _send_handler: the call it completes, or None
  length,     \* and the size of that call's buffer
  transfer,   \* the number of the last transfer
  running,    \* it is in the session
  connected,  \* cURL: the easy handle is attached to a connection
  uploading,  \* cURL: the request on this connection has more body to send
  paused,     \* cURL: sending is paused
  taken,      \* cURL: the number of bytes read in this transfer
  killed      \* cURL: the transfers whose read callback said ABORT

calls   == <<status, kind, during, moved>>
handler == <<send, length>>
curl    == <<transfer, running, connected, uploading, paused, taken, killed>>
vars    == <<calls, handler, curl>>

TypeOK ==
  /\ status \in [Calls -> {"idle", "waiting"} \cup Results]
  /\ kind \in [Calls -> {"write", "abort"}]
  /\ during \in [Calls -> 0 .. MaxTransfers]
  /\ moved \in [Calls -> 0 .. MaxChunk]
  /\ send \in Calls \cup {None}
  /\ length \in Lengths \cup {0}
  /\ transfer \in 0 .. MaxTransfers
  /\ running \in BOOLEAN
  /\ connected \in BOOLEAN
  /\ uploading \in BOOLEAN
  /\ paused \in BOOLEAN
  /\ taken \in 0 .. MaxCalls * MaxChunk
  /\ killed \subseteq 1 .. MaxTransfers

Init ==
  /\ status = [c \in Calls |-> "idle"]
  /\ kind = [c \in Calls |-> "write"]
  /\ during = [c \in Calls |-> 0]
  /\ moved = [c \in Calls |-> 0]
  /\ send = None
  /\ length = 0
  /\ transfer = 0
  /\ running = FALSE
  /\ connected = FALSE
  /\ uploading = FALSE
  /\ paused = FALSE
  /\ taken = 0
  /\ killed = {}

-----------------------------------------------------------------------------
(* _send_handler.                                                          *)

(* The handler is stored, and curl_easy_pause(CURLPAUSE_CONT) wakes cURL.  *)
Store(c, size) ==
  /\ send' = c
  /\ length' = size
  /\ paused' = FALSE

Reset == send' = None /\ length' = 0

(* status once the handler, if there is one, was invoked with result.      *)
Invoked(result) ==
  IF send = None THEN status ELSE [status EXCEPT ![send] = result]

(* A call is made; the calls are made in order.                            *)
New(c, what) ==
  /\ status[c] = "idle"
  /\ \A earlier \in Calls : earlier < c => status[earlier] # "idle"
  /\ kind' = [kind EXCEPT ![c] = what]
  /\ during' = [during EXCEPT ![c] = transfer]
  /\ UNCHANGED moved

-----------------------------------------------------------------------------
(* async_write_some, branch by branch.                                     *)

WriteRefused(c) ==
  /\ New(c, "write")
  /\ send # None
  /\ status' = [status EXCEPT ![c] = "multiple_writes"]
  /\ UNCHANGED <<handler, curl>>

(* Mutant: cURL is not told to go on.                                      *)
WriteWaits_Asleep(c, size) ==
  /\ New(c, "write")
  /\ send = None
  /\ connected
  /\ status' = [status EXCEPT ![c] = "waiting"]
  /\ send' = c
  /\ length' = size
  /\ UNCHANGED curl

WriteWaits(c, size) ==
  /\ New(c, "write")
  /\ send = None
  /\ connected
  /\ status' = [status EXCEPT ![c] = "waiting"]
  /\ Store(c, size)
  /\ UNCHANGED <<transfer, running, connected, uploading, taken, killed>>

(* Mutant: the error of curl_easy_pause is not passed on.                  *)
WriteNotConnected_Kept(c) ==
  /\ New(c, "write")
  /\ send = None
  /\ ~connected
  /\ status' = [status EXCEPT ![c] = "waiting"]
  /\ Store(c, 0)
  /\ UNCHANGED <<transfer, running, connected, uploading, taken, killed>>

(* curl_easy_pause fails on a handle that has no connection.               *)
WriteNotConnected(c) ==
  /\ New(c, "write")
  /\ send = None
  /\ ~connected
  /\ status' = [status EXCEPT ![c] = "error"]
  /\ UNCHANGED <<handler, curl>>

(* async_abort: a waiting call, write or abort, is completed and makes     *)
(* place for the new one.                                                  *)

(* Mutant: the waiting call is overwritten.                                *)
AbortWaits_Overwrites(c) ==
  /\ New(c, "abort")
  /\ connected
  /\ status' = [status EXCEPT ![c] = "waiting"]
  /\ Store(c, 0)
  /\ UNCHANGED <<transfer, running, connected, uploading, taken, killed>>

AbortWaits(c) ==
  /\ New(c, "abort")
  /\ connected
  /\ status' = [Invoked("aborted") EXCEPT ![c] = "waiting"]
  /\ Store(c, 0)
  /\ UNCHANGED <<transfer, running, connected, uploading, taken, killed>>

AbortNotConnected(c) ==
  /\ New(c, "abort")
  /\ ~connected
  /\ status' = [Invoked("aborted") EXCEPT ![c] = "error"]
  /\ Reset
  /\ UNCHANGED curl

(* The program cancels the waiting call through its cancellation slot.  The*)
(* lambda looks at who waits only: the signal of a call that has its       *)
(* result already, if it meets another that waits, is this same step.  If  *)
(* it meets none an empty Function is invoked, which is left out here;     *)
(* Response has that case.                                                 *)
Cancel(c) ==
  /\ send = c
  /\ status' = Invoked("aborted")
  /\ Reset
  /\ UNCHANGED <<kind, during, moved, curl>>

-----------------------------------------------------------------------------
(* cURL and the session.                                                   *)

Start ==
  /\ ~running
  /\ transfer < MaxTransfers
  /\ transfer' = transfer + 1
  /\ running' = TRUE
  /\ taken' = 0
  /\ UNCHANGED <<calls, handler, connected, uploading, paused, killed>>

(* Whether the request has a body is in its options.                       *)
Connect ==
  /\ running
  /\ ~connected
  /\ connected' = TRUE
  /\ uploading' \in BOOLEAN
  /\ UNCHANGED <<calls, handler, transfer, running, paused, taken, killed>>

(* A redirect is followed on a new connection.                             *)
Redirect ==
  /\ connected
  /\ connected' = FALSE
  /\ uploading' = FALSE
  /\ paused' = FALSE
  /\ UNCHANGED <<calls, handler, transfer, running, taken, killed>>

(* The transfer ends, for whatever reason: cURL lets go of the handle and  *)
(* BasicResponse::_stop calls _mark_finished.                              *)
Leave ==
  /\ running' = FALSE
  /\ connected' = FALSE
  /\ uploading' = FALSE
  /\ paused' = FALSE
  /\ UNCHANGED <<transfer, taken>>

(* Mutant: _mark_finished is not called.                                   *)
Finish_Unmarked ==
  /\ running
  /\ Leave
  /\ UNCHANGED <<calls, handler, killed>>

Finish ==
  /\ running
  /\ Leave
  /\ status' = Invoked("eof")
  /\ Reset
  /\ UNCHANGED <<kind, during, moved, killed>>

Reading == connected /\ uploading /\ ~paused

(* _read_callback without a handler.                                       *)
ReadPauses ==
  /\ Reading
  /\ send = None
  /\ paused' = TRUE
  /\ UNCHANGED <<calls, handler, transfer, running, connected, uploading,
                 taken, killed>>

(* Mutant: the callback fills cURL's buffer, whatever the program gave.    *)
Copied_Room(room) == room

(* buffer_copy moves what both sides have room for.                        *)
Copied(room) == IF length < room THEN length ELSE room

(* Mutant: the callback returns the size of cURL's buffer.                 *)
Returned_Room(copied, room) == room

(* What _read_callback returns to cURL.                                    *)
Returned(copied, room) == copied

(* _read_callback with a waiting write and room bytes to fill.  To return  *)
(* no byte is to end the upload.                                           *)
ReadTakes(room) ==
  LET copied == Copied(room)
      n      == Returned(copied, room)
  IN
  /\ Reading
  /\ send # None
  /\ kind[send] = "write"
  /\ status' = Invoked("success")
  /\ moved' = [moved EXCEPT ![send] = copied]
  /\ taken' = taken + n
  /\ uploading' = (n # 0)
  /\ Reset
  /\ UNCHANGED <<kind, during, transfer, running, connected, paused, killed>>

(* Mutant: the abort handler returns 0, the end of the upload.             *)
ReadAborts_Ends ==
  /\ Reading
  /\ send # None
  /\ kind[send] = "abort"
  /\ status' = Invoked("success")
  /\ Reset
  /\ uploading' = FALSE
  /\ UNCHANGED <<kind, during, moved, transfer, running, connected, paused,
                 taken, killed>>

(* _read_callback with a waiting abort: CURL_READFUNC_ABORT.  cURL ends    *)
(* the transfer, and _clean_finished sees it before the strand is free.    *)
ReadAborts ==
  /\ Reading
  /\ send # None
  /\ kind[send] = "abort"
  /\ status' = Invoked("success")
  /\ killed' = killed \cup {transfer}
  /\ Reset
  /\ Leave
  /\ UNCHANGED <<kind, during, moved>>

(* async_read_some resumes both directions of a transfer.                  *)
ResumedByReader ==
  /\ paused
  /\ paused' = FALSE
  /\ UNCHANGED <<calls, handler, transfer, running, connected, uploading,
                 taken, killed>>

-----------------------------------------------------------------------------
Next ==
  \/ Start
  \/ Connect
  \/ Redirect
  \/ Finish
  \/ ReadPauses
  \/ \E room \in 1 .. MaxChunk : ReadTakes(room)
  \/ ReadAborts
  \/ ResumedByReader
  \/ \E c \in Calls :
       \/ WriteRefused(c)
       \/ \E size \in Lengths : WriteWaits(c, size)
       \/ WriteNotConnected(c)
       \/ AbortWaits(c)
       \/ AbortNotConnected(c)
       \/ Cancel(c)

(* A transfer ends at last.                                                *)
Fairness == WF_vars(Finish)

Spec == Init /\ [][Next]_vars /\ Fairness

-----------------------------------------------------------------------------
(* Properties.                                                             *)

(* A waiting call is the one in _send_handler, so there is only one: no    *)
(* call is overwritten, also not by an abort, and left without an answer.  *)
WaitingIsStored == \A c \in Calls : status[c] = "waiting" <=> send = c

(* What waits belongs to the transfer that runs: a request that is started *)
(* again carries no write or abort over from its last transfer.            *)
NoCarryOver == send # None => running /\ during[send] = transfer

(* cURL has been told to go on as long as somebody waits to send.          *)
NoLostWakeup == send # None => ~paused

(* The sum of a function's values over a set.                              *)
Total(g, S) == MapThenSumSet(LAMBDA x : g[x], S)

(* The bytes cURL read in this transfer are those the writes reported.     *)
OfTransfer     == {c \in Calls : during[c] = transfer}
BytesAccounted == taken = Total(moved, OfTransfer)

(* An abort that succeeds has ended the transfer it was meant for, and no  *)
(* other: it cannot succeed while that transfer goes on.                   *)
AbortEndsItsTransfer ==
  \A c \in Calls : kind[c] = "abort" /\ status[c] = "success" =>
    /\ during[c] \in killed
    /\ ~(running /\ transfer = during[c])

(* Every call is answered, if not by cURL then by the transfer's end.      *)
EveryCallIsAnswered ==
  \A c \in Calls : status[c] = "waiting" ~> status[c] # "waiting"

(* The contract of Upload.                                                 *)
Sink == INSTANCE Upload WITH
          given <- moved, size <- length, open <- running
Contract == Sink!Spec
=============================================================================
