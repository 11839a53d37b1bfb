------------------------------ MODULE Session ------------------------------
(***************************************************************************)
(* BasicSession: the life of a request in the cURL multi handle.           *)
(*                                                                         *)
(* A request is started by async_start, whose lambda runs on the session's *)
(* strand; the transfer then lives in two tables, cURL's own stack of easy *)
(* handles and the session's map _active_requests, until _clean_finished   *)
(* takes it out of both.  The program's threads call async_start and let   *)
(* go of responses at any moment, also between two calls that one strand   *)
(* task makes.                                                             *)
(*                                                                         *)
(* The strand is modelled by what it promises: its tasks do not overlap    *)
(* (StrandFree).  Their order is left open, which allows every order the   *)
(* FIFO strand has, and more.                                              *)
(***************************************************************************)
EXTENDS Naturals

CONSTANTS
  Requests,      (* the BasicRequest objects, each owns one easy handle      *)
  MaxStarts      (* bound: how often the program calls async_start           *)

ASSUME SessionAssumption == MaxStarts \in Nat

Starts == 1 .. MaxStarts  \* call s of async_start creates response s
None   == 0               \* the null pointer
ASSUME NoneIsNoRequest == None \notin Requests

VARIABLES
  request,     \* the request each call of async_start is given
  status,      \* how far each call of async_start has come
  registered,  \* cURL: the easy handles added to the multi handle
  active,      \* _active_requests: the response a request runs for, or None
  hooks,       \* the easy handles whose OPEN/CLOSESOCKET options are set
  sink,        \* the response WRITEDATA and HEADERDATA point to, or None
  kicks,       \* the starts whose posted _perform has not run yet
  finished,    \* the responses whose _stop has run (BasicResponse::_finished)
  held,        \* the responses somebody beside _active_requests owns
  wired,       \* cURL: the transfers that have opened a socket
  sockets,     \* those of them whose newest socket is in _sockets
  misused      \* history: has the program started a request still in use?

tables == <<registered, active, hooks, sink, finished, wired, sockets>>
vars   == <<request, status, kicks, held, misused, tables>>

TypeOK ==
  /\ request \in [Starts -> Requests]
  /\ status \in [Starts -> {"idle", "queued", "adding", "started", "refused"}]
  /\ registered \subseteq Requests
  /\ active \in [Requests -> Starts \cup {None}]
  /\ hooks \subseteq Requests
  /\ sink \in [Requests -> Starts \cup {None}]
  /\ kicks \subseteq Starts
  /\ finished \subseteq Starts
  /\ held \subseteq Starts
  /\ wired \subseteq Requests
  /\ sockets \subseteq Requests
  /\ misused \in BOOLEAN

(* Which request each call will name is the program's choice; it is made   *)
(* here once for all calls.                                                *)
Init ==
  /\ request \in [Starts -> Requests]
  /\ status = [s \in Starts |-> "idle"]
  /\ registered = {}
  /\ active = [r \in Requests |-> None]
  /\ hooks = {}
  /\ sink = [r \in Requests |-> None]
  /\ kicks = {}
  /\ finished = {}
  /\ held = {}
  /\ wired = {}
  /\ sockets = {}
  /\ misused = FALSE

-----------------------------------------------------------------------------
(* The strand.                                                             *)

StrandFree == \A s \in Starts : status[s] # "adding"

(* A response the session alone still owns (use_count() == 1).             *)
Stale(r) == active[r] # None /\ active[r] \notin held

(* curl_multi_remove_handle                                                *)
RemoveHandles(gone) == registered' = registered \ gone

(* Mutant: the options stay set.                                           *)
Unhook_Forgotten(gone) == UNCHANGED hooks

(* The four curl_easy_setopt calls of _clean_finished.                     *)
Unhook(gone) == hooks' = hooks \ gone

(* Mutant: _stop leaves WRITEDATA and HEADERDATA as they are.              *)
StopResponses_Wired(gone) ==
  /\ finished' = finished \cup {active[r] : r \in gone}
  /\ UNCHANGED sink

(* Mutant: a response that is let go is not stopped.                       *)
StopResponses_Held(gone) ==
  /\ finished' = finished \cup ({active[r] : r \in gone} \cap held)
  /\ sink' = [r \in Requests |-> IF r \in gone THEN None ELSE sink[r]]

(* BasicResponse::_stop                                                    *)
StopResponses(gone) ==
  /\ finished' = finished \cup {active[r] : r \in gone}
  /\ sink' = [r \in Requests |-> IF r \in gone THEN None ELSE sink[r]]

(* Mutant: _active_requests.erase is forgotten.                            *)
Erase_Forgotten(gone) == UNCHANGED active

Erase(gone) ==
  active' = [r \in Requests |-> IF r \in gone THEN None ELSE active[r]]

(* _perform: curl_multi_socket_action, in which transfers may open sockets *)
(* (opened; also a new one, after a redirect) and end (done), and then     *)
(* _clean_finished, which unregisters the transfers that ended and those   *)
(* whose response is stale.  cURL opens the sockets of an easy handle whose*)
(* options are not set itself.                                             *)
Perform(done, opened) ==
  LET gone == done \cup {r \in Requests : Stale(r)} IN
  /\ wired' = (wired \cup opened) \ gone
  /\ sockets' = ((sockets \ opened) \cup (opened \cap hooks)) \ gone
  /\ RemoveHandles(gone)
  /\ Unhook(gone)
  /\ StopResponses(gone)
  /\ Erase(gone)

SomePerform ==
  \E done \in SUBSET registered : \E opened \in SUBSET registered :
    Perform(done, opened)

(* Mutant: async_start does not clean before it adds.                      *)
BeginStart_Unclean(s) ==
  /\ status[s] = "queued"
  /\ StrandFree
  /\ status' = [status EXCEPT ![s] = "adding"]
  /\ UNCHANGED <<request, kicks, held, misused, tables>>

(* The first call of the async_start lambda: clean what already ended.     *)
BeginStart(s) ==
  /\ status[s] = "queued"
  /\ StrandFree
  /\ SomePerform
  /\ status' = [status EXCEPT ![s] = "adding"]
  /\ UNCHANGED <<request, kicks, held, misused>>

(* Mutant: a path of the lambda forgets to post the handler.               *)
Answer_Forgotten(s, result) == UNCHANGED status

Answer(s, result) == status' = [status EXCEPT ![s] = result]

(* The options the lambda sets before it adds the handle, as its scope     *)
(* guard leaves them: reset, unless the guard is cancelled.                *)
ResetHooks(s) == hooks' = hooks \ {request[s]}
KeepHooks(s)  == hooks' = hooks \cup {request[s]}

(* The rest of the lambda when curl_multi_add_handle fails because the     *)
(* easy handle is in the stack: the guard runs, and the error goes to the  *)
(* handler.                                                                *)
RefuseStart(s) ==
  /\ status[s] = "adding"
  /\ request[s] \in registered
  /\ ResetHooks(s)
  /\ Answer(s, "refused")
  /\ UNCHANGED <<request, kicks, held, misused, registered, active, sink,
                 finished, wired, sockets>>

(* The rest of the lambda when it succeeds: insert does not replace an     *)
(* entry, and the posted completion handler holds the new response.        *)
Launch(s) ==
  LET r == request[s] IN
  /\ status[s] = "adding"
  /\ r \notin registered
  /\ registered' = registered \cup {r}
  /\ kicks' = kicks \cup {s}
  /\ sink' = [sink EXCEPT ![r] = s]
  /\ active' = [active EXCEPT ![r] = IF @ = None THEN s ELSE @]
  /\ held' = held \cup {s}
  /\ KeepHooks(s)
  /\ Answer(s, "started")
  /\ UNCHANGED <<request, misused, finished, wired, sockets>>

(* The _perform that async_start posted.                                   *)
Kick(s) ==
  /\ s \in kicks
  /\ StrandFree
  /\ SomePerform
  /\ kicks' = kicks \ {s}
  /\ UNCHANGED <<request, status, held, misused>>

(* The _perform a timer or a socket handler makes.                         *)
Poll ==
  /\ StrandFree
  /\ SomePerform
  /\ UNCHANGED <<request, status, kicks, held, misused>>

-----------------------------------------------------------------------------
(* The program.                                                            *)

(* The program is done with a request: every call that named it has been   *)
(* answered, and each response it got has ended or was let go.             *)
Idle(r) ==
  \A s \in Starts : request[s] = r =>
    \/ status[s] \in {"idle", "refused"}
    \/ status[s] = "started" /\ (s \in finished \/ s \notin held)

AsyncStart(s) ==
  /\ status[s] = "idle"
  /\ \A t \in Starts : t < s => status[t] # "idle"
  /\ status' = [status EXCEPT ![s] = "queued"]
  /\ misused' = (misused \/ ~Idle(request[s]))
  /\ UNCHANGED <<request, kicks, held, tables>>

(* The last shared_ptr outside the session goes away.                      *)
Drop(s) ==
  /\ s \in held
  /\ held' = held \ {s}
  /\ UNCHANGED <<request, status, kicks, misused, tables>>

-----------------------------------------------------------------------------
Next ==
  \/ Poll
  \/ \E s \in Starts :
       \/ AsyncStart(s)
       \/ BeginStart(s)
       \/ RefuseStart(s)
       \/ Launch(s)
       \/ Kick(s)
       \/ Drop(s)

(* The executor runs what is posted or dispatched to the strand.           *)
Fairness ==
  \A s \in Starts :
    /\ WF_vars(BeginStart(s))
    /\ WF_vars(RefuseStart(s) \/ Launch(s))
    /\ WF_vars(Kick(s))

Spec == Init /\ [][Next]_vars /\ Fairness

-----------------------------------------------------------------------------
(* Properties.                                                             *)

(* cURL's stack and _active_requests hold the same transfers, so that a    *)
(* DONE message always finds its map entry: the CURLIO_ASSERT at the head  *)
(* of unregister in _clean_finished cannot fail.                           *)
RegisteredIsActive ==
  \A r \in Requests : r \in registered <=> active[r] # None

(* The raw pointers in WRITEDATA and HEADERDATA, which cURL hands to the   *)
(* static callbacks, always lead to the response the session keeps alive   *)
(* for this very transfer, never to an earlier or a destroyed one.         *)
CallbacksReachLiveResponse ==
  \A r \in Requests : sink[r] = active[r]

(* A request that is out of the session holds no pointer to it: it may be  *)
(* reused, kept or destroyed whatever becomes of the session.              *)
IdleIsUnhooked == hooks \subseteq registered

(* A response has ended exactly if the session no longer runs a transfer   *)
(* for it.  Read from left to right it is the README's promise that after  *)
(* eof the request is removed from the session; from right to left it      *)
(* says that no transfer is forgotten: a response out of the map was       *)
(* stopped, and with it every operation that waited on it.                 *)
FinishedIffReleased ==
  \A s \in Starts : status[s] = "started" =>
    (s \in finished <=> active[request[s]] # s)

(* A program that starts a request only when it is done with it is never   *)
(* refused, also if it only let the response go and the transfer itself    *)
(* still runs: async_start cleans that up first.  README: after eof the    *)
(* request can be used again.                                              *)
CanBeUsedAgain == misused \/ \A s \in Starts : status[s] # "refused"

(* The comment on _sockets, "All opened sockets by cURL": every socket a   *)
(* transfer runs on was opened through the session.  A socket that is not  *)
(* in the map is never waited for.                                         *)
AllOpenedSockets == wired \subseteq sockets

(* For such a program the comment is true.                                 *)
SocketsAreKnown == misused \/ AllOpenedSockets

(* The contract of Lifecycle.  A start waits until it is answered, in the  *)
(* middle of its lambda too.                                               *)
Life == INSTANCE Lifecycle WITH
          status <- [s \in Starts |-> IF status[s] \in {"queued", "adding"}
                                     THEN "waiting" ELSE status[s]],
          ended <- finished
Contract == Life!Spec

(* Every async_start is answered.                                          *)
StartIsAnswered ==
  \A s \in Starts :
    status[s] = "queued" ~> status[s] \in {"started", "refused"}
=============================================================================
