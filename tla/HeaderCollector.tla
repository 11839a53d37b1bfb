--------------------------- MODULE HeaderCollector ---------------------------
(***************************************************************************)
(* detail::HeaderCollector: async_wait, which the program calls through    *)
(* BasicResponse::async_wait_headers, against _header_callback and stop,   *)
(* which cURL and the session call; all on the session's strand.           *)
(*                                                                         *)
(* A response may have several header sections (interim responses,         *)
(* redirects), and lines after the last one (trailers).  A header field is *)
(* represented by its key and the number of the section it came in.        *)
(***************************************************************************)
EXTENDS Naturals

CONSTANTS
  Keys,         (* the keys of header fields                        *)
  MaxSections,  (* bound: how many header sections the peer sends   *)
  MaxWaits      (* bound: how often the program waits for headers   *)

ASSUME HeaderAssumption == MaxSections \in Nat /\ MaxWaits \in Nat

Waits    == 1 .. MaxWaits
Sections == 1 .. MaxSections
None     == 0   \* the empty Function; also: no field, no section

Results == {"success", "eof", "aborted", "multiple_headers_awaitings"}

VARIABLES
  fields,           \* _fields: per key the section of its field, or None
  last_clear,       \* _last_clear
  headers_received, \* _headers_received
  ready,            \* _ready_to_await
  finished,         \* _finished
  handler,          \* _headers_received_handler: the call it completes
  status,           \* per call: idle, waiting or its result
  given,            \* per call: the fields it was given
  of,               \* per call: the section whose end completed it
  lines,            \* history: the keys the peer sent in each section
  inside,           \* is the peer in the middle of a section (or a trailer)?
  torn              \* history: sections whose fields a cancel took away

answers == <<status, given, of>>
peer    == <<lines, inside>>
vars    == <<fields, last_clear, headers_received, ready, finished, handler,
             answers, peer, torn>>

FieldMap == [Keys -> Sections \cup {None}]
NoFields == [k \in Keys |-> None]

(* _fields holds one section only.                                         *)
TypeOK ==
  /\ fields \in [Keys -> {None, last_clear + 1}]
  /\ last_clear \in 0 .. headers_received
  /\ headers_received \in 0 .. MaxSections
  /\ ready \in BOOLEAN
  /\ finished \in BOOLEAN
  /\ handler \in Waits \cup {None}
  /\ status \in [Waits -> {"idle", "waiting"} \cup Results]
  /\ given \in [Waits -> FieldMap]
  /\ of \in [Waits -> Sections \cup {None}]
  /\ lines \in [Sections -> SUBSET Keys]
  /\ inside \in BOOLEAN
  /\ torn \subseteq Sections

Init ==
  /\ fields = NoFields
  /\ last_clear = 0
  /\ headers_received = 0
  /\ ready = FALSE
  /\ finished = FALSE
  /\ handler = None
  /\ status = [op \in Waits |-> "idle"]
  /\ given = [op \in Waits |-> NoFields]
  /\ of = [op \in Waits |-> None]
  /\ lines = [n \in Sections |-> {}]
  /\ inside = FALSE
  /\ torn = {}

(* A call completes with a copy of map, which is _fields or an empty map.  *)
Answer(op, result, map, section) ==
  /\ status' = [status EXCEPT ![op] = result]
  /\ given' = [given EXCEPT ![op] = map]
  /\ of' = [of EXCEPT ![op] = section]

-----------------------------------------------------------------------------
(* async_wait, branch by branch.  The calls are made in order.             *)

New(op) ==
  /\ status[op] = "idle"
  /\ \A earlier \in Waits : earlier < op => status[earlier] # "idle"

WaitAtEnd(op) ==
  /\ New(op)
  /\ finished
  /\ Answer(op, "eof", fields, None)
  /\ fields' = NoFields
  /\ UNCHANGED <<last_clear, headers_received, ready, finished, handler,
                 peer, torn>>

(* Mutant: the section stays ready after it was handed out.                *)
Taken_Forgotten == UNCHANGED ready

Taken == ready' = FALSE

WaitReady(op) ==
  /\ New(op)
  /\ ~finished
  /\ ready
  /\ Taken
  /\ Answer(op, "success", fields, headers_received)
  /\ fields' = NoFields
  /\ UNCHANGED <<last_clear, headers_received, finished, handler, peer, torn>>

WaitRefused(op) ==
  /\ New(op)
  /\ ~finished
  /\ ~ready
  /\ handler # None
  /\ Answer(op, "multiple_headers_awaitings", NoFields, None)
  /\ UNCHANGED <<fields, last_clear, headers_received, ready, finished,
                 handler, peer, torn>>

(* Mutant: whether a section is ready is not looked at.                    *)
MustWait_Always(op) == New(op) /\ ~finished /\ handler = None

MustWait(op) == New(op) /\ ~finished /\ ~ready /\ handler = None

WaitWaits(op) ==
  /\ MustWait(op)
  /\ handler' = op
  /\ status' = [status EXCEPT ![op] = "waiting"]
  /\ UNCHANGED <<fields, last_clear, headers_received, ready, finished, given,
                 of, peer, torn>>

-----------------------------------------------------------------------------
(* _header_callback, once per line.                                        *)

(* The first line after a section is complete empties _fields.             *)
NewSection == last_clear < headers_received

(* Mutant: old fields stay.                                                *)
Cleared_Never == fields

Cleared == IF NewSection THEN NoFields ELSE fields

(* Mutant: a section may be handed out although the next one has begun.    *)
StillReady_Stale == ready

StillReady == ready /\ ~NewSection

(* A line with the field of keys = {k}, or without one (keys = {}): a      *)
(* status line.  insert keeps an older field of the same key.              *)
Line(keys) ==
  /\ ~finished
  /\ headers_received < MaxSections \/ keys = {}
  /\ fields' = [k \in Keys |->
                  IF k \in keys /\ Cleared[k] = None
                  THEN headers_received + 1 ELSE Cleared[k]]
  /\ last_clear' = headers_received
  /\ ready' = StillReady
  /\ lines' = [n \in Sections |->
                 IF n = headers_received + 1 THEN lines[n] \cup keys
                 ELSE lines[n]]
  /\ inside' = TRUE
  /\ UNCHANGED <<headers_received, finished, handler, answers, torn>>

(* The empty line that ends a section with nobody waiting ...              *)
EndUnawaited ==
  /\ ~finished
  /\ inside
  /\ headers_received < MaxSections
  /\ handler = None
  /\ fields' = Cleared
  /\ last_clear' = headers_received
  /\ headers_received' = headers_received + 1
  /\ ready' = TRUE
  /\ inside' = FALSE
  /\ UNCHANGED <<finished, handler, answers, lines, torn>>

(* ... and with a waiting call, which is given _fields.                    *)
EndAwaited ==
  /\ ~finished
  /\ inside
  /\ headers_received < MaxSections
  /\ handler # None
  /\ last_clear' = headers_received
  /\ headers_received' = headers_received + 1
  /\ Taken
  /\ Answer(handler, "success", Cleared, headers_received + 1)
  /\ fields' = NoFields
  /\ handler' = None
  /\ inside' = FALSE
  /\ UNCHANGED <<finished, lines, torn>>

-----------------------------------------------------------------------------
(* Mutant: stop does not look for a waiting call.                          *)
StopUnawaited_Blind ==
  /\ ~finished
  /\ finished' = TRUE
  /\ UNCHANGED <<fields, last_clear, headers_received, ready, handler,
                 answers, peer, torn>>

(* stop, when the transfer has ended: the waiting call gets eof and what   *)
(* has been collected.                                                     *)
StopUnawaited ==
  /\ ~finished
  /\ handler = None
  /\ finished' = TRUE
  /\ UNCHANGED <<fields, last_clear, headers_received, ready, handler,
                 answers, peer, torn>>

StopAwaited ==
  /\ ~finished
  /\ handler # None
  /\ finished' = TRUE
  /\ Answer(handler, "eof", fields, None)
  /\ fields' = NoFields
  /\ handler' = None
  /\ UNCHANGED <<last_clear, headers_received, ready, peer, torn>>

(* The program cancels the waiting call: the lambda in its cancellation    *)
(* slot completes it, and what has been collected of the section goes with *)
(* it.  The lambda looks at who waits only: the signal of a call that has  *)
(* its result already, if it meets another that waits, is this same step.  *)
(* If it meets none an empty Function is invoked, which is left out here;  *)
(* Response has that case.                                                 *)
Cancel(op) ==
  /\ handler = op
  /\ Answer(op, "aborted", fields, None)
  /\ fields' = NoFields
  /\ handler' = None
  /\ torn' = IF inside /\ headers_received < MaxSections
             THEN torn \cup {headers_received + 1} ELSE torn
  /\ UNCHANGED <<last_clear, headers_received, ready, finished, peer>>

-----------------------------------------------------------------------------
Next ==
  \/ \E k \in Keys : Line({k})
  \/ Line({})
  \/ EndUnawaited
  \/ EndAwaited
  \/ StopUnawaited
  \/ StopAwaited
  \/ \E op \in Waits :
       \/ WaitAtEnd(op)
       \/ WaitReady(op)
       \/ WaitRefused(op)
       \/ WaitWaits(op)
       \/ Cancel(op)

(* The transfer ends.                                                      *)
Fairness == WF_vars(StopUnawaited \/ StopAwaited)

Spec == Init /\ [][Next]_vars /\ Fairness

-----------------------------------------------------------------------------
(* Properties.                                                             *)

(* The fields of section n.                                                *)
Section(n) == [k \in Keys |-> IF k \in lines[n] THEN n ELSE None]

(* A successful call is given a complete section, exactly: no field of it  *)
(* is missing and none of another section is among them, however the calls *)
(* fall between the lines.  Sections a cancelled call took fields from are *)
(* excepted here; see SuccessIsComplete.                                   *)
SuccessIsSection ==
  \A op \in Waits : status[op] = "success" =>
    /\ of[op] # None
    /\ of[op] \notin torn => given[op] = Section(of[op])

(* async_wait_headers is documented to wait "until a complete header       *)
(* section is received": also after an earlier call was cancelled.         *)
SuccessIsComplete ==
  \A op \in Waits : status[op] = "success" => given[op] = Section(of[op])

(* A section is handed out to one call only, and the sections are handed   *)
(* out in the order in which they came; some may be skipped.               *)
DeliveredOnceInOrder ==
  \A op1, op2 \in Waits :
    op1 < op2 /\ status[op1] = "success" /\ status[op2] = "success"
      => of[op1] < of[op2]

(* A call waits only while there is something to wait for.                 *)
NoLostWakeup == handler # None => ~ready /\ ~finished

(* async_wait_headers is documented to wait "until a complete header       *)
(* section is received".  A call that fails with eof instead has missed    *)
(* none: the last complete section was handed out by a successful call.    *)
EofMeansNoneLeft ==
  (\E op \in Waits : status[op] = "eof") =>
    headers_received \in {None} \cup {of[op] : op \in Waits}

(* Every call is answered, if not by headers then by the transfer's end.   *)
EveryWaitIsAnswered ==
  \A op \in Waits : status[op] = "waiting" ~> status[op] # "waiting"

(* The contract of HeaderFeed: a map of fields is the set of its fields.   *)
FieldsOf(map) == {field \in Sections \X Keys : map[field[2]] = field[1]}

Feed == INSTANCE HeaderFeed WITH
          Calls <- Waits,
          given <- [op \in Waits |-> FieldsOf(given[op])],
          sent <- {field \in Sections \X Keys : field[2] \in lines[field[1]]},
          complete <- headers_received,
          begun <- inside,
          offered <- ready /\ ~finished,
          spoiled <- torn,
          ended <- finished
Contract == Feed!Spec
=============================================================================
