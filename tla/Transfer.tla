------------------------------ MODULE Transfer ------------------------------
(***************************************************************************)
(* One transfer with all that waits on it: the body (Response), the        *)
(* headers (HeaderCollector) and the upload (Request) of one easy handle,  *)
(* composed.  They share the connection and the end: cURL sends headers    *)
(* before the body and the body to who reads it, curl_easy_pause resumes   *)
(* both directions, and _stop ends all three in one strand task.           *)
(*                                                                         *)
(* On top of them runs async_wait_last_headers, a loop over                *)
(* async_wait_headers.  Here the program has one coroutine that reads, one *)
(* that waits for headers and one that writes, so that no call is refused, *)
(* and it cancels none; the modules of the parts have all that.            *)
(***************************************************************************)
EXTENDS Naturals, Sequences

CONSTANTS
  Bytes, Body, MaxChunk, Sizes, MaxReads, MaxRedirects,  (* see Response *)
  Keys, MaxSections, MaxWaits,                   (* see HeaderCollector *)
  MaxCalls, Lengths, UploadChunk,                (* see Request         *)
  Location,     (* the key "location"                                      *)
  MaxPlain      (* bound: calls of async_wait_headers before the loop      *)

VARIABLES
  reads, receive, room, input, recv_paused, accepted, redirects, delivered,
  armed,                                                   \* see Response
  fields, last_clear, headers_received, ready, waiting, waits, given, of,
  lines, inside,                                    \* see HeaderCollector
  sends, kind, during, moved, send, length, transfer, running, uploading,
  send_paused, taken, killed,                               \* see Request
  finished,   \* _finished of the response and of its header collector
  connected,  \* cURL: the easy handle is attached to a connection
  body,       \* cURL: the last header section is over, the body comes
  left,       \* history: the sections cURL left to follow their Location
  last,       \* async_wait_last_headers: idle, looping or done
  lastWait    \* and the call of async_wait_headers it has come to

response == <<reads, receive, room, input, recv_paused, accepted, redirects,
              delivered, armed>>
headers  == <<fields, last_clear, headers_received, ready, waiting, waits,
              given, of, lines, inside>>
request  == <<sends, kind, during, moved, send, length, transfer, running,
              uploading, send_paused, taken, killed>>
loop     == <<last, lastWait>>
vars     == <<response, headers, request, finished, connected, body, left,
              loop>>

R == INSTANCE Response WITH
       status <- reads, paused <- recv_paused,
       signalled <- {}, late <- {}, crashed <- ~TRUE

H == INSTANCE HeaderCollector WITH
       status <- waits, handler <- waiting, torn <- {}

Q == INSTANCE Request WITH
       status <- sends, paused <- send_paused,
       MaxChunk <- UploadChunk, MaxTransfers <- 1

ASSUME TransferAssumption ==
  /\ R!ResponseAssumption /\ H!HeaderAssumption /\ Q!RequestAssumption
  /\ Location \in Keys
  /\ MaxPlain \in Nat

Init ==
  /\ R!Init /\ H!Init /\ Q!Init
  /\ body = FALSE
  /\ left = {}
  /\ last = "idle"
  /\ lastWait = H!None

-----------------------------------------------------------------------------
(* The session and cURL.                                                   *)

(* async_start creates the response; before it there is the request only.  *)
Start ==
  /\ Q!Start
  /\ UNCHANGED <<response, headers, finished, body, left, loop>>

Started == transfer # 0

Connect ==
  /\ R!Connect
  /\ Q!Connect
  /\ UNCHANGED <<headers, body, left, loop>>

Lines == {{}} \cup {{k} : k \in Keys}

HeaderLine ==
  /\ connected /\ ~body
  /\ headers_received < MaxSections
  /\ \E keys \in Lines : H!Line(keys)
  /\ UNCHANGED <<response, request, connected, body, left, loop>>

EndOfSection ==
  /\ connected /\ ~body
  /\ H!EndUnawaited \/ H!EndAwaited
  /\ UNCHANGED <<response, request, connected, body, left, loop>>

(* A complete section has come on this connection, and no further line.    *)
AtSection == ~body /\ ~inside /\ headers_received \notin left \cup {0}

(* The Location is followed (CURLOPT_FOLLOWLOCATION).                      *)
Redirect ==
  /\ AtSection
  /\ headers_received < MaxSections
  /\ Location \in lines[headers_received]
  /\ R!Redirect
  /\ Q!Redirect
  /\ left' = left \cup {headers_received}
  /\ UNCHANGED <<headers, body, loop>>

(* The section was the last one: what follows is the body.                 *)
BeginBody ==
  /\ AtSection
  /\ connected
  /\ body' = TRUE
  /\ UNCHANGED <<response, headers, request, finished, connected, left, loop>>

Arrive ==
  /\ body
  /\ \E n \in 1 .. MaxChunk : R!Receive(n)
  /\ UNCHANGED <<headers, request, body, left, loop>>

Pause ==
  /\ body
  /\ R!Pause
  /\ UNCHANGED <<headers, request, body, left, loop>>

(* A header line after a chunked body.                                     *)
Trailer ==
  /\ body
  /\ connected /\ ~recv_paused
  /\ accepted = Len(Body)
  /\ \E keys \in Lines : H!Line(keys)
  /\ UNCHANGED <<response, request, connected, body, left, loop>>

(* cURL reads the upload; an abort is a separate case.                     *)
Take ==
  /\ \E n \in 1 .. UploadChunk : Q!ReadTakes(n)
  /\ UNCHANGED <<response, headers, finished, body, left, loop>>

PauseUpload ==
  /\ Q!ReadPauses
  /\ UNCHANGED <<response, headers, finished, body, left, loop>>

(* Mutant: _stop does not call _header_collector.stop().                   *)
StopHeaders_Forgotten == UNCHANGED headers

StopHeaders == H!StopUnawaited \/ H!StopAwaited

(* _stop, in one strand task: the header collector, the response and, by   *)
(* _mark_finished, the request.  A complete transfer has sent its upload.  *)
Done ==
  /\ body /\ ~uploading
  /\ StopHeaders
  /\ R!TransferDone
  /\ Q!Finish
  /\ UNCHANGED <<body, left, loop>>

Fail ==
  /\ StopHeaders
  /\ R!TransferFails
  /\ Q!Finish
  /\ UNCHANGED <<body, left, loop>>

(* Mutant: the end of the aborted transfer is not noticed.                 *)
Abort_Unnoticed ==
  /\ Q!ReadAborts
  /\ UNCHANGED <<response, headers, finished, body, left, loop>>

(* The read callback says CURL_READFUNC_ABORT, and _clean_finished, in the *)
(* same strand task, finds the transfer ended.                             *)
Abort ==
  /\ Q!ReadAborts
  /\ StopHeaders
  /\ R!Stop
  /\ UNCHANGED <<body, left, loop>>

-----------------------------------------------------------------------------
(* The program.                                                            *)

(* curl_easy_pause(CURLPAUSE_CONT) from the one side resumes the other.    *)
WakeReceiving ==
  IF recv_paused THEN R!ResumedByWriter
  ELSE UNCHANGED <<response, finished, connected>>

WakeSending == IF send_paused THEN Q!ResumedByReader ELSE UNCHANGED request

Read(op) ==
  /\ Started
  /\ \/ (\E size \in Sizes : R!ReadWaits(op, size)) /\ WakeSending
     \/ /\ \/ \E size \in Sizes : R!ReadBuffered(op, size)
           \/ R!ReadAtEnd(op)
           \/ R!ReadNotConnected(op)
        /\ UNCHANGED request
  /\ UNCHANGED <<headers, body, left, loop>>

Send(c) ==
  /\ \/ /\ (\E size \in Lengths : Q!WriteWaits(c, size)) \/ Q!AbortWaits(c)
        /\ WakeReceiving
     \/ /\ Q!WriteNotConnected(c) \/ Q!AbortNotConnected(c)
        /\ UNCHANGED <<response, finished>>
  /\ UNCHANGED <<headers, body, left, loop>>

Wait(op) ==
  /\ Started
  /\ H!WaitAtEnd(op) \/ H!WaitReady(op) \/ H!WaitWaits(op)
  /\ UNCHANGED <<response, request, connected, body, left>>

(* async_wait_headers                                                      *)
WaitHeaders(op) ==
  /\ last = "idle" /\ op <= MaxPlain
  /\ Wait(op)
  /\ UNCHANGED loop

(* async_wait_last_headers: started is false ...                           *)
BeginLast(op) ==
  /\ last = "idle"
  /\ Wait(op)
  /\ last' = "looping"
  /\ lastWait' = op

Returned == last = "looping" /\ waits[lastWait] # "waiting"

(* Mutant: the test of the count is the wrong way round.                   *)
Again_Swapped ==
  waits[lastWait] = "success" /\ given[lastWait][Location] = H!None

(* !ec && headers.count("location") > 0                                    *)
Again == waits[lastWait] = "success" /\ given[lastWait][Location] # H!None

(* ... and each time the handler runs it waits again ...                   *)
WaitAgain(op) ==
  /\ Returned
  /\ Again
  /\ Wait(op)
  /\ lastWait' = op
  /\ UNCHANGED last

(* ... or completes with what the call was given.                          *)
EndLast ==
  /\ Returned
  /\ ~Again
  /\ last' = "done"
  /\ UNCHANGED <<response, headers, request, finished, connected, body, left,
                 lastWait>>

-----------------------------------------------------------------------------
Headers == HeaderLine \/ EndOfSection \/ Redirect \/ BeginBody

GoOn == EndLast \/ \E op \in H!Waits : WaitAgain(op)

Next ==
  \/ Start
  \/ Connect
  \/ Headers
  \/ Arrive
  \/ Pause
  \/ Trailer
  \/ Take
  \/ PauseUpload
  \/ Done
  \/ Fail
  \/ Abort
  \/ \E op \in R!Reads : Read(op)
  \/ \E c \in Q!Calls : Send(c)
  \/ \E op \in H!Waits : WaitHeaders(op) \/ BeginLast(op)
  \/ GoOn

(* cURL connects, receives what the peer sends unless the transfer is      *)
(* paused, reads what is there to send, and ends; the executor runs the    *)
(* posted handler of the loop.                                             *)
Fairness ==
  /\ WF_vars(Connect)
  /\ WF_vars(Headers)
  /\ WF_vars(Arrive)
  /\ WF_vars(Take \/ Abort)
  /\ WF_vars(Done)
  /\ WF_vars(GoOn)

Spec == Init /\ [][Next]_vars /\ Fairness

-----------------------------------------------------------------------------
(* Properties.                                                             *)

(* When the transfer has ended nothing waits: no read, no wait for headers *)
(* and no write or abort.                                                  *)
EndAnswersAll ==
  finished =>
    /\ \A op \in R!Reads : reads[op] # "waiting"
    /\ \A op \in H!Waits : waits[op] # "waiting"
    /\ \A c \in Q!Calls : sends[c] # "waiting"

(* An async_abort that succeeds has ended the response as well.            *)
AbortEndsResponse ==
  \A c \in Q!Calls : kind[c] = "abort" /\ sends[c] = "success" => finished

(* The headers async_wait_last_headers succeeds with are a complete        *)
(* section, and not one whose Location cURL followed.  They need not be    *)
(* the last of the transfer: the loop stops at any section that has no     *)
(* Location, also at an interim one (100 Continue, a proxy's answer).      *)
LastIsFinal ==
  last = "done" /\ waits[lastWait] = "success" =>
    /\ of[lastWait] \notin left
    /\ given[lastWait] = H!Section(of[lastWait])

(* What the program owes: it starts the request; it waits to read, again   *)
(* and again, once the body has begun; it waits to send, again and again,  *)
(* as long as the upload is not over.                                      *)
Starts   == <>Started
ReadsOn  == []<>(body => finished \/ receive # R!None)
WritesOn == []<>(uploading => send # Q!None)

(* For such a program the composition keeps what the parts were promised:  *)
(* the fairness under which Response, HeaderCollector and Request answer   *)
(* every call.  In particular the transfer ends.                           *)
PartsAreDriven ==
  Starts /\ ReadsOn /\ WritesOn => R!Fairness /\ H!Fairness /\ Q!Fairness

(* A program that asks for the last headers first need not read to be      *)
(* answered, if cURL follows every Location and the upload goes on.        *)
AsksFirst == [](last = "idle" => \A op \in H!Waits : waits[op] # "success")
Follows   == [](body => Location \notin lines[headers_received])

LastHeadersIsAnswered ==
  AsksFirst /\ Follows /\ WritesOn => (last = "looping" ~> last = "done")
=============================================================================
