----------------------------- MODULE HeaderFeed -----------------------------
(***************************************************************************)
(* What BasicResponse::async_wait_headers promises, without a map that is  *)
(* filled and cleared line by line: the peer's header sections, each       *)
(* handed out whole to one caller at most, the newest only and only until  *)
(* the next one begins.  A header field is its section and its key.        *)
(***************************************************************************)
EXTENDS Naturals

CONSTANTS
  Calls,    (* the calls of async_wait_headers *)
  Keys      (* the keys of header fields       *)

VARIABLES
  status,   \* per call: idle, waiting, or the result it completed with
  given,    \* per call: the set of fields it was given
  sent,     \* the fields the peer has sent
  complete, \* the number of sections the peer has completed
  begun,    \* the next one has begun
  offered,  \* the last complete one is still to be had
  spoiled,  \* the sections a cancelled call took fields of
  ended     \* no section will be given any more

calls == <<status, given>>
peer  == <<sent, complete, begun>>
vars  == <<calls, peer, offered, spoiled, ended>>

Init ==
  /\ status = [c \in Calls |-> "idle"]
  /\ given = [c \in Calls |-> {}]
  /\ sent = {}
  /\ complete = 0
  /\ begun = FALSE
  /\ offered = FALSE
  /\ spoiled = {}
  /\ ended = FALSE

Waits(c) == status[c] = "waiting"
Nobody   == \A c \in Calls : ~Waits(c)

Section(n) == {field \in sent : field[1] = n}

Give(c, result, fields) ==
  /\ status' = [status EXCEPT ![c] = result]
  /\ given' = [given EXCEPT ![c] = fields]

(* A call that succeeds is given the whole section, unless it was spoiled. *)
Succeed(c, n) ==
  \E fields \in SUBSET Section(n) :
    /\ n \notin spoiled => fields = Section(n)
    /\ Give(c, "success", fields)

(* A call that fails is given what there happens to be of one section.     *)
Fail(c, result) ==
  \E n \in {complete, complete + 1} : \E fields \in SUBSET Section(n) :
    Give(c, result, fields)

-----------------------------------------------------------------------------
(* The peer.                                                               *)

(* A line, with a field or without one; what was offered is gone.          *)
Line ==
  /\ ~ended
  /\ \/ sent' = sent
     \/ \E k \in Keys : sent' = sent \cup {<<complete + 1, k>>}
  /\ begun' = TRUE
  /\ offered' = FALSE
  /\ UNCHANGED <<calls, complete, spoiled, ended>>

(* The end of a section.  Who waits is given it, else it is offered.       *)
EndOfSection ==
  /\ ~ended
  /\ begun
  /\ complete' = complete + 1
  /\ begun' = FALSE
  /\ \/ /\ Nobody
        /\ offered' = TRUE
        /\ UNCHANGED calls
     \/ /\ \E c \in Calls : Waits(c) /\ Succeed(c, complete + 1)
        /\ offered' = FALSE
  /\ UNCHANGED <<sent, spoiled, ended>>

(* The end of the transfer.                                                *)
End ==
  /\ ~ended
  /\ ended' = TRUE
  /\ offered' = FALSE
  /\ \/ Nobody /\ UNCHANGED calls
     \/ \E c \in Calls : Waits(c) /\ Fail(c, "eof")
  /\ UNCHANGED <<peer, spoiled>>

-----------------------------------------------------------------------------
(* The program.                                                            *)

Take(c) ==
  /\ status[c] = "idle"
  /\ offered
  /\ offered' = FALSE
  /\ Succeed(c, complete)
  /\ UNCHANGED <<peer, spoiled, ended>>

Wait(c) ==
  /\ status[c] = "idle"
  /\ ~offered /\ ~ended
  /\ Nobody
  /\ status' = [status EXCEPT ![c] = "waiting"]
  /\ UNCHANGED <<given, peer, offered, spoiled, ended>>

Refuse(c) ==
  /\ status[c] = "idle"
  /\ ~Nobody
  /\ Give(c, "multiple_headers_awaitings", {})
  /\ UNCHANGED <<peer, offered, spoiled, ended>>

Eof(c) ==
  /\ status[c] = "idle"
  /\ ended
  /\ Fail(c, "eof")
  /\ UNCHANGED <<peer, offered, spoiled, ended>>

(* The fields that have come of a section go with the cancelled call.      *)
Cancel(c) ==
  /\ Waits(c)
  /\ Fail(c, "aborted")
  /\ \/ spoiled' = spoiled
     \/ begun /\ spoiled' = spoiled \cup {complete + 1}
  /\ UNCHANGED <<peer, offered, ended>>

-----------------------------------------------------------------------------
Next ==
  \/ Line
  \/ EndOfSection
  \/ End
  \/ \E c \in Calls :
       \/ Take(c)
       \/ Wait(c)
       \/ Refuse(c)
       \/ Eof(c)
       \/ Cancel(c)

(* That who waits is answered at last depends on the transfer's end and is *)
(* stated of HeaderCollector (EveryWaitIsAnswered).                        *)
Spec == Init /\ [][Next]_vars
=============================================================================
