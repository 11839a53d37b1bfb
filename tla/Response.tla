------------------------------ MODULE Response ------------------------------
(***************************************************************************)
(* BasicResponse as a byte stream: async_read_some, which the program      *)
(* calls at any time, against _write_callback and _stop, which cURL and    *)
(* the session call.  All of them run on the session's strand, so each is  *)
(* one step; their order is open.                                          *)
(*                                                                         *)
(* A completion handler is posted, so a call has its result (status)       *)
(* before the program learns of it, and before its cancellation slot is    *)
(* cleared (SlotCleared).  Until then the program can cancel the call.     *)
(***************************************************************************)
EXTENDS Naturals, Sequences

CONSTANTS
  Bytes,       (* the values of a byte                                       *)
  Body,        (* the bytes the peer sends in this response                  *)
  MaxChunk,    (* cURL's largest write to a callback, CURL_MAX_WRITE_SIZE    *)
  Sizes,       (* the sizes of the buffers the program passes                *)
  MaxReads,    (* bound: how often the program calls async_read_some         *)
  MaxRedirects (* how many redirects cURL follows, CURLOPT_MAXREDIRS         *)

ASSUME ResponseAssumption ==
  /\ Body \in Seq(Bytes)
  /\ MaxChunk \in Nat \ {0}
  /\ Sizes \subseteq Nat
  /\ MaxReads \in Nat
  /\ MaxRedirects \in Nat

Reads == 1 .. MaxReads
None  == 0   \* the empty Function

Results == {"success", "eof", "aborted", "multiple_reads", "error"}

VARIABLES
  status,     \* per call: idle, waiting or its result
  receive,    \* _receive_handler: the call it completes, or None
  room,       \* and the size of that call's buffer
  input,      \* _input_buffer
  finished,   \* _finished
  connected,  \* cURL: the easy handle is attached to a connection
  paused,     \* cURL: receiving is paused
  accepted,   \* cURL: how much of Body the callback has taken
  redirects,  \* cURL: how many redirects it has followed
  delivered,  \* the bytes all calls together were given
  armed,      \* the calls whose cancellation slot holds the lambda
  signalled,  \* history: the calls the program has cancelled
  late,       \* history: those it has cancelled when they had their result
  crashed     \* an empty Function was invoked

calls == <<status, delivered>>
curl  == <<connected, paused, accepted, redirects>>
slots == <<armed, signalled, late, crashed>>
vars  == <<calls, receive, room, input, finished, curl, slots>>

TypeOK ==
  /\ status \in [Reads -> {"idle", "waiting"} \cup Results]
  /\ receive \in Reads \cup {None}
  /\ room \in Nat
  /\ input \in Seq(Bytes)
  /\ finished \in BOOLEAN
  /\ connected \in BOOLEAN
  /\ paused \in BOOLEAN
  /\ accepted \in 0 .. Len(Body)
  /\ redirects \in 0 .. MaxRedirects
  /\ delivered \in Seq(Bytes)
  /\ armed \subseteq Reads
  /\ signalled \subseteq Reads
  /\ late \subseteq Reads
  /\ crashed \in BOOLEAN

Init ==
  /\ status = [op \in Reads |-> "idle"]
  /\ receive = None
  /\ room = 0
  /\ input = <<>>
  /\ finished = FALSE
  /\ connected = FALSE
  /\ paused = FALSE
  /\ accepted = 0
  /\ redirects = 0
  /\ delivered = <<>>
  /\ armed = {}
  /\ signalled = {}
  /\ late = {}
  /\ crashed = FALSE

(* buffer_copy moves what both sides have room for.                        *)
Copied(size, length) == IF size < length THEN size ELSE length

Complete(op, result) == status' = [status EXCEPT ![op] = result]

(* _receive_handler.reset()                                                *)
ResetReceive == receive' = None /\ room' = 0

(* Mutant: consume() is forgotten.                                         *)
Rest_Whole(bytes, n) == bytes

(* What is left of a buffer or a chunk after its first n bytes.            *)
Rest(bytes, n) == SubSeq(bytes, n + 1, Len(bytes))

(* Mutant: a new call does not tell cURL to go on.                         *)
Resume_Forgotten == UNCHANGED paused

(* curl_easy_pause(CURLPAUSE_CONT)                                         *)
Resume == paused' = FALSE

-----------------------------------------------------------------------------
(* async_read_some, branch by branch.  The calls are made in order.        *)

New(op) ==
  /\ ~crashed
  /\ status[op] = "idle"
  /\ \A earlier \in Reads : earlier < op => status[earlier] # "idle"

ReadBuffered(op, size) ==
  LET n == Copied(size, Len(input)) IN
  /\ New(op)
  /\ input # <<>>
  /\ Complete(op, "success")
  /\ delivered' = delivered \o SubSeq(input, 1, n)
  /\ input' = Rest(input, n)
  /\ UNCHANGED <<receive, room, finished, curl, slots>>

(* Mutant: _finished is looked at before _input_buffer.                    *)
ReadAtEnd_Hasty(op) ==
  /\ New(op)
  /\ finished
  /\ Complete(op, "eof")
  /\ UNCHANGED <<delivered, receive, room, input, finished, curl, slots>>

ReadAtEnd(op) ==
  /\ New(op)
  /\ input = <<>>
  /\ finished
  /\ Complete(op, "eof")
  /\ UNCHANGED <<delivered, receive, room, input, finished, curl, slots>>

ReadRefused(op) ==
  /\ New(op)
  /\ input = <<>>
  /\ ~finished
  /\ receive # None
  /\ Complete(op, "multiple_reads")
  /\ UNCHANGED <<delivered, receive, room, input, finished, curl, slots>>

(* Mutant: no multiple_reads, a second call takes the handler's place.     *)
MustWait_Overwrites(op) ==
  /\ New(op)
  /\ input = <<>>
  /\ ~finished

(* The last branch: the handler is stored and cURL is told to resume.      *)
MustWait(op) ==
  /\ New(op)
  /\ input = <<>>
  /\ ~finished
  /\ receive = None

(* cURL may call _write_callback before curl_easy_pause returns; this is   *)
(* the case that Receive follows at once.                                  *)
ReadWaits(op, size) ==
  /\ MustWait(op)
  /\ connected
  /\ Complete(op, "waiting")
  /\ receive' = op
  /\ room' = size
  /\ Resume
  /\ armed' = armed \cup {op}
  /\ UNCHANGED <<delivered, input, finished, connected, accepted, redirects,
                 signalled, late, crashed>>

(* curl_easy_pause fails on a handle that has no connection: the handler   *)
(* gets the error and is reset.                                            *)
ReadNotConnected(op) ==
  /\ MustWait(op)
  /\ ~connected
  /\ Complete(op, "error")
  /\ ResetReceive
  /\ armed' = armed \cup {op}
  /\ UNCHANGED <<delivered, input, finished, curl, signalled, late, crashed>>

-----------------------------------------------------------------------------
(* cURL and the session.                                                   *)

Running == ~finished /\ ~crashed

Connect ==
  /\ Running
  /\ ~connected
  /\ connected' = TRUE
  /\ UNCHANGED <<calls, receive, room, input, finished, paused, accepted,
                 redirects, slots>>

(* A redirect is followed on another connection.  The body of the response *)
(* that redirects is not handed to the callback.                           *)
Redirect ==
  /\ Running
  /\ connected
  /\ accepted = 0 /\ ~paused
  /\ redirects < MaxRedirects
  /\ redirects' = redirects + 1
  /\ connected' = FALSE
  /\ UNCHANGED <<calls, receive, room, input, finished, paused, accepted,
                 slots>>

Arriving == Running /\ connected /\ ~paused /\ accepted < Len(Body)

(* _write_callback with a waiting call: it takes what fits its buffer, the *)
(* rest of the chunk is kept.                                              *)
Receive(n) ==
  LET chunk == SubSeq(Body, accepted + 1, accepted + n)
      k     == Copied(room, n)
  IN
  /\ Arriving
  /\ n <= Len(Body) - accepted
  /\ receive # None
  /\ Complete(receive, "success")
  /\ delivered' = delivered \o SubSeq(chunk, 1, k)
  /\ input' = input \o Rest(chunk, k)
  /\ accepted' = accepted + k + Len(Rest(chunk, k))
  /\ ResetReceive
  /\ UNCHANGED <<finished, connected, paused, redirects, slots>>

(* Mutant: bytes nobody waits for are buffered.                            *)
Pause_Buffers ==
  /\ Arriving
  /\ receive = None
  /\ input' = Append(input, Body[accepted + 1])
  /\ accepted' = accepted + 1
  /\ UNCHANGED <<calls, receive, room, finished, connected, paused, redirects,
                 slots>>

(* _write_callback without one: CURL_WRITEFUNC_PAUSE, cURL keeps the chunk *)
(* and offers it again.                                                    *)
Pause ==
  /\ Arriving
  /\ receive = None
  /\ paused' = TRUE
  /\ UNCHANGED <<calls, receive, room, input, finished, connected, accepted,
                 redirects, slots>>

(* async_write_some and async_abort resume both directions of a transfer.  *)
ResumedByWriter ==
  /\ Running
  /\ paused
  /\ Resume
  /\ UNCHANGED <<calls, receive, room, input, finished, connected, accepted,
                 redirects, slots>>

(* _stop, called when the session has taken the handle out of cURL.        *)
Stop ==
  /\ Running
  /\ finished' = TRUE
  /\ status' = IF receive = None THEN status
               ELSE [status EXCEPT ![receive] = "eof"]
  /\ ResetReceive
  /\ connected' = FALSE
  /\ paused' = FALSE
  /\ UNCHANGED <<delivered, input, accepted, redirects, slots>>

TransferDone ==
  /\ connected
  /\ ~paused
  /\ accepted = Len(Body)
  /\ Stop

(* A broken connection, a timeout, an abort: the session looks at the DONE *)
(* message only, not at its result.                                        *)
TransferFails == Stop

-----------------------------------------------------------------------------
(* The program.                                                            *)

(* The program emits a call's cancellation signal.  The lambda in the slot *)
(* tests nothing: it completes whichever call _receive_handler belongs to  *)
(* by then.  It runs where the signal is emitted; the model takes it for a *)
(* step of the strand, which it is if the program emits the signal there.  *)
Cancel(op) ==
  /\ ~crashed
  /\ op \in armed
  /\ signalled' = signalled \cup {op}
  /\ late' = IF status[op] = "waiting" THEN late ELSE late \cup {op}
  /\ IF receive = None
     THEN crashed' = TRUE /\ UNCHANGED status
     ELSE Complete(receive, "aborted") /\ UNCHANGED crashed
  /\ ResetReceive
  /\ UNCHANGED <<delivered, input, finished, curl, armed>>

(* The slot of a completed call is cleared, if ever: an awaitable clears   *)
(* its own when the posted handler runs, one that the program has bound    *)
(* stays until the program clears it.                                      *)
SlotCleared(op) ==
  /\ ~crashed
  /\ status[op] \in Results
  /\ op \in armed
  /\ armed' = armed \ {op}
  /\ UNCHANGED <<calls, receive, room, input, finished, curl, signalled, late,
                 crashed>>

-----------------------------------------------------------------------------
AsyncReadSome(op) ==
  \/ \E size \in Sizes : ReadBuffered(op, size) \/ ReadWaits(op, size)
  \/ ReadAtEnd(op)
  \/ ReadRefused(op)
  \/ ReadNotConnected(op)

Next ==
  \/ Connect
  \/ Redirect
  \/ \E n \in 1 .. MaxChunk : Receive(n)
  \/ Pause
  \/ ResumedByWriter
  \/ TransferDone
  \/ TransferFails
  \/ \E op \in Reads : AsyncReadSome(op) \/ Cancel(op) \/ SlotCleared(op)

(* The peer goes on sending to a transfer that is not paused.              *)
Fairness ==
  /\ WF_vars(Connect)
  /\ WF_vars(\E n \in 1 .. MaxChunk : Receive(n))
  /\ WF_vars(TransferDone)

Spec == Init /\ [][Next]_vars /\ Fairness

-----------------------------------------------------------------------------
(* Properties.                                                             *)

(* Whatever mix of waiting and immediate reads, of partly consumed chunks, *)
(* pauses and cancelled calls: what the program was given, followed by     *)
(* _input_buffer, is the beginning of the body that cURL has handed over.  *)
NothingLostOrReordered == delivered \o input = SubSeq(Body, 1, accepted)

(* A call waits only while nothing could complete it: no bytes are         *)
(* buffered, the end is not known, and cURL has been told to go on, on     *)
(* this connection or on the one a redirect leads to.                      *)
NoLostWakeup == receive # None => input = <<>> /\ ~finished /\ ~paused

(* _input_buffer holds a chunk's rest, and never a second chunk: bytes are *)
(* taken from cURL only for a call that waits.                             *)
ReadAheadBound == Len(input) <= MaxChunk

(* Per-operation cancellation, as it is documented: only a call that the   *)
(* program has cancelled completes with operation_aborted.  The code does  *)
(* not keep to that when a call is cancelled late.                         *)
CancelsItself == \A op \in Reads : status[op] = "aborted" => op \in signalled

(* What the code keeps to: a call completes with operation_aborted if it   *)
(* was cancelled, or if one before it was cancelled too late.              *)
AbortIsSignalled ==
  \A op \in Reads :
    status[op] = "aborted" =>
      op \in signalled \/ \E other \in late : other < op

(* The lambda invokes _receive_handler unconditionally.  It always finds   *)
(* one as long as the call that is cancelled still waits.                  *)
NullInvokeIsLate == crashed => late # {}

(* The contract of ByteStream, its fairness included.                      *)
Stream == INSTANCE ByteStream WITH ended <- finished /\ input = <<>>
Contract == Stream!Spec

(* Every read is answered, and a call that waits holds up no other: the    *)
(* transfer goes on as long as one waits.                                  *)
EveryReadIsAnswered ==
  \A op \in Reads : status[op] = "waiting" ~> status[op] # "waiting"
=============================================================================
