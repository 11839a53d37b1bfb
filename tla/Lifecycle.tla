----------------------------- MODULE Lifecycle -----------------------------
(***************************************************************************)
(* What BasicSession::async_start promises, without cURL's stack, the map  *)
(* of active requests or the strand: a request runs for one response at a  *)
(* time, which ends once and for all; a start is refused exactly if it     *)
(* finds one of its request running.                                       *)
(***************************************************************************)
CONSTANTS
  Starts,    (* the calls of async_start, and the responses they create *)
  Requests   (* the requests                                            *)

VARIABLES
  request,   \* the request each call names
  status,    \* per call: idle, waiting, started or refused
  ended,     \* the responses that have ended
  held       \* the responses the program holds

vars == <<request, status, ended, held>>

Init ==
  /\ request \in [Starts -> Requests]
  /\ status = [s \in Starts |-> "idle"]
  /\ ended = {}
  /\ held = {}

Running == {s \in Starts : status[s] = "started" /\ s \notin ended}
InUse   == {request[s] : s \in Running}

Call(s) ==
  /\ status[s] = "idle"
  /\ status' = [status EXCEPT ![s] = "waiting"]
  /\ UNCHANGED <<request, ended, held>>

(* The new response goes to the program.                                   *)
Accept(s) ==
  /\ status[s] = "waiting"
  /\ request[s] \notin InUse
  /\ status' = [status EXCEPT ![s] = "started"]
  /\ held' = held \cup {s}
  /\ UNCHANGED <<request, ended>>

Refuse(s) ==
  /\ status[s] = "waiting"
  /\ request[s] \in InUse
  /\ status' = [status EXCEPT ![s] = "refused"]
  /\ UNCHANGED <<request, ended, held>>

(* Transfers end by themselves, and no later than when the session notices *)
(* that nobody holds their response: it notices all of these at once.      *)
End ==
  /\ \E some \in SUBSET Running : ended' = ended \cup some \cup (Running \ held)
  /\ UNCHANGED <<request, status, held>>

Drop(s) ==
  /\ s \in held
  /\ held' = held \ {s}
  /\ UNCHANGED <<request, status, ended>>

Next ==
  \/ End
  \/ \E s \in Starts :
       \/ Call(s)
       \/ Accept(s)
       \/ Refuse(s)
       \/ Drop(s)

(* That a call is answered at last depends on the executor and is stated   *)
(* of Session (StartIsAnswered).                                           *)
Spec == Init /\ [][Next]_vars
=============================================================================
