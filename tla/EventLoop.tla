------------------------------ MODULE EventLoop ------------------------------
(***************************************************************************)
(* What drives cURL: the sockets it asked BasicSession to watch            *)
(* (_socket_callback, _monitor, _open/_close_socket_callback) and its      *)
(* timer (_timer_callback).                                                *)
(*                                                                         *)
(* cURL calls back only while a task on the strand is inside it (task); a  *)
(* wait that is over has its handler queued on the strand (queued), where  *)
(* it cannot be taken back.  The kernel and the clock act at any moment.   *)
(*                                                                         *)
(* Not all sockets are opened through _open_socket_callback: cURL opens    *)
(* those of its resolver itself, and after a second async_start of a       *)
(* request that runs, which resets the option, those of its connections.   *)
(***************************************************************************)
EXTENDS Naturals, FiniteSets

CONSTANTS
  Fds,         (* the numbers the kernel gives to sockets; it reuses them    *)
  MaxSockets,  (* bound: how many sockets cURL opens                         *)
  MaxChanges,  (* bound: how often cURL changes what it wants of a socket    *)
  MaxTimers    (* bound: how often cURL sets the timer                       *)

ASSUME EventLoopAssumption ==
  /\ MaxSockets \in Nat
  /\ MaxChanges \in Nat
  /\ MaxTimers \in Nat

Data == 1 .. MaxSockets     \* SocketData objects: which socket each is for
Ways == {"read", "write"}   \* wait_flag_read and wait_flag_write
None == 0
ASSUME NoneIsNoSocket == None \notin Fds

VARIABLES
  sockets,     \* _sockets: per number the SocketData in the map, or None
  fd,          \* per SocketData its native_handle(), None if closed
  strangers,   \* the open sockets that cURL has opened itself
  wait_flags,  \* per SocketData
  pending,     \* per SocketData and way: how many async_wait are under way
  queued,      \* and how many have succeeded, with their handler to run
  wanted,      \* cURL: the ways it wants to hear of, per number
  timeout,     \* cURL: is a timeout set?
  timer,       \* _timer: is it being waited for?
  expired,     \* the handlers of successful timer waits on the strand
  task,        \* what runs on the strand
  opened,      \* how many sockets cURL has opened
  changes,     \* how often cURL has called _socket_callback
  timers       \* how often cURL has set the timer

held   == <<sockets, fd, strangers>>
waits  == <<pending, queued>>
clock  == <<timeout, timer, expired, timers>>
bounds == <<opened, changes>>
vars   == <<held, wait_flags, waits, wanted, clock, task, bounds>>

(* The strand's tasks: the handler of a socket's wait, inside its _perform;*)
(* the timer's handler; any other call into cURL.                          *)
Handler(d, way) == [data |-> d, way |-> way]
Handlers == [data : Data, way : Ways]
NoTask   == [data |-> None, way |-> "none"]
TimerRun == [data |-> None, way |-> "timer"]
OtherRun == [data |-> None, way |-> "other"]

(* A way is never waited for more often than cURL has asked: _monitor,     *)
(* which renews a wait, does not multiply it.                              *)
TypeOK ==
  /\ sockets \in [Fds -> Data \cup {None}]
  /\ fd \in [Data -> Fds \cup {None}]
  /\ strangers \subseteq Fds
  /\ wait_flags \in [Data -> SUBSET Ways]
  /\ pending \in [Data -> [Ways -> 0 .. changes]]
  /\ queued \in [Data -> [Ways -> 0 .. changes]]
  /\ wanted \in [Fds -> SUBSET Ways]
  /\ timeout \in BOOLEAN
  /\ timer \in BOOLEAN
  /\ expired \in 0 .. MaxTimers
  /\ task \in {NoTask, TimerRun, OtherRun} \cup Handlers
  /\ opened \in 0 .. MaxSockets
  /\ changes \in 0 .. MaxChanges
  /\ timers \in 0 .. MaxTimers

NoWaits == [way \in Ways |-> 0]

Init ==
  /\ sockets = [n \in Fds |-> None]
  /\ fd = [d \in Data |-> None]
  /\ strangers = {}
  /\ wait_flags = [d \in Data |-> {}]
  /\ pending = [d \in Data |-> NoWaits]
  /\ queued = [d \in Data |-> NoWaits]
  /\ wanted = [n \in Fds |-> {}]
  /\ timeout = FALSE
  /\ timer = FALSE
  /\ expired = 0
  /\ task = NoTask
  /\ opened = 0
  /\ changes = 0
  /\ timers = 0

Idle == task = NoTask

(* The numbers the kernel has given away.                                  *)
InUse == strangers \cup {fd[d] : d \in Data}

-----------------------------------------------------------------------------
(* cURL, inside one of the strand's tasks.                                 *)

(* _open_socket_callback                                                   *)
Open(n) ==
  LET d == opened + 1 IN
  /\ ~Idle
  /\ opened < MaxSockets
  /\ n \notin InUse
  /\ opened' = d
  /\ fd' = [fd EXCEPT ![d] = n]
  /\ sockets' = [sockets EXCEPT ![n] = IF @ = None THEN d ELSE @]
  /\ UNCHANGED <<strangers, wait_flags, waits, wanted, clock, task, changes>>

(* cURL opens a socket without the callback.                               *)
OpenItself(n) ==
  /\ ~Idle
  /\ opened < MaxSockets
  /\ n \notin InUse
  /\ opened' = opened + 1
  /\ strangers' = strangers \cup {n}
  /\ UNCHANGED <<sockets, fd, wait_flags, waits, wanted, clock, task, changes>>

(* Mutant: _monitor is called only for ways that are new.                  *)
Monitored_New(d, ways) ==
  [way \in Ways |-> pending[d][way] +
                    (IF way \in ways \ wait_flags[d] THEN 1 ELSE 0)]

(* The waits of d once _monitor was called for ways.                       *)
Monitored(d, ways) ==
  [way \in Ways |-> pending[d][way] + (IF way \in ways THEN 1 ELSE 0)]

(* cURL calls _socket_callback with IN, OUT or INOUT when it wants         *)
(* something else of a socket than before.                                 *)
Wish(n, ways) ==
  /\ ~Idle
  /\ n \in InUse
  /\ changes < MaxChanges
  /\ ways # wanted[n]
  /\ wanted' = [wanted EXCEPT ![n] = ways]
  /\ changes' = changes + 1
  /\ UNCHANGED <<held, queued, clock, task, opened>>

Watch(n, ways) ==
  LET d == sockets[n] IN
  /\ Wish(n, ways)
  /\ d # None
  /\ wait_flags' = [wait_flags EXCEPT ![d] = ways]
  /\ pending' = [pending EXCEPT ![d] = Monitored(d, ways)]

(* The socket was not found: CURLM_OK, and nothing waits for it.           *)
WatchUnknown(n, ways) ==
  /\ Wish(n, ways)
  /\ sockets[n] = None
  /\ UNCHANGED <<wait_flags, pending>>

(* Mutant: REMOVE cancels the waits but leaves the flags.                  *)
Flags_Kept(d) == UNCHANGED wait_flags

Flags_Cleared(d) == wait_flags' = [wait_flags EXCEPT ![d] = {}]

(* cURL wants nothing of a socket any more, REMOVE.                        *)
NoWish(n) ==
  /\ ~Idle
  /\ wanted[n] # {}
  /\ wanted' = [wanted EXCEPT ![n] = {}]
  /\ UNCHANGED <<held, queued, clock, task, bounds>>

(* The waits under way are cancelled, their handlers will get an error and *)
(* do nothing.  Those already queued stay.                                 *)
Remove(n) ==
  LET d == sockets[n] IN
  /\ NoWish(n)
  /\ d # None
  /\ Flags_Cleared(d)
  /\ pending' = [pending EXCEPT ![d] = NoWaits]

RemoveUnknown(n) ==
  /\ NoWish(n)
  /\ sockets[n] = None
  /\ UNCHANGED <<wait_flags, pending>>

(* Mutant: the map keeps the socket.                                       *)
Erased_Kept(n) == UNCHANGED sockets

Erased(n) == sockets' = [sockets EXCEPT ![n] = None]

(* _close_socket_callback; cURL has said REMOVE before.                    *)
Close(n) ==
  LET d == sockets[n] IN
  /\ ~Idle
  /\ d # None
  /\ wanted[n] = {}
  /\ fd' = [fd EXCEPT ![d] = None]
  /\ pending' = [pending EXCEPT ![d] = NoWaits]
  /\ Erased(n)
  /\ UNCHANGED <<strangers, wait_flags, queued, wanted, clock, task, bounds>>

(* It is not in the map: close() at once.                                  *)
CloseUnknown(n) ==
  /\ ~Idle
  /\ n \in strangers
  /\ sockets[n] = None
  /\ wanted[n] = {}
  /\ strangers' = strangers \ {n}
  /\ UNCHANGED <<sockets, fd, wait_flags, waits, wanted, clock, task, bounds>>

(* Mutant: the timer is not waited for.                                    *)
SetTimer_Lazy ==
  /\ ~Idle
  /\ timers < MaxTimers
  /\ timers' = timers + 1
  /\ timeout' = TRUE
  /\ timer' = FALSE
  /\ UNCHANGED <<held, wait_flags, waits, wanted, expired, task, bounds>>

(* _timer_callback: expires_after cancels the wait before, if its handler  *)
(* is not queued yet.                                                      *)
SetTimer ==
  /\ ~Idle
  /\ timers < MaxTimers
  /\ timers' = timers + 1
  /\ timeout' = TRUE
  /\ timer' = TRUE
  /\ UNCHANGED <<held, wait_flags, waits, wanted, expired, task, bounds>>

ClearTimer ==
  /\ ~Idle
  /\ timeout
  /\ timeout' = FALSE
  /\ timer' = FALSE
  /\ UNCHANGED <<held, wait_flags, waits, wanted, expired, timers, task,
                 bounds>>

-----------------------------------------------------------------------------
(* The kernel and the clock.                                               *)

(* A socket becomes readable or writable: all its waits for it are over.   *)
Fire(d, way) ==
  /\ pending[d][way] > 0
  /\ pending' = [pending EXCEPT ![d][way] = 0]
  /\ queued' = [queued EXCEPT ![d][way] = @ + pending[d][way]]
  /\ UNCHANGED <<held, wait_flags, wanted, clock, task, bounds>>

Expire ==
  /\ timer
  /\ timer' = FALSE
  /\ expired' = expired + 1
  /\ UNCHANGED <<held, wait_flags, waits, wanted, timeout, timers, task,
                 bounds>>

-----------------------------------------------------------------------------
(* The strand.                                                             *)

(* Mutant: the handler of a wait does not look at the flags.               *)
StillWanted_Ignored(d, way) == TRUE

(* Mutant: the flags are compared, instead of looking for the bit.         *)
StillWanted_Alone(d, way) == wait_flags[d] = {way}

StillWanted(d, way) == way \in wait_flags[d]

(* The handler of a successful wait begins: it calls _perform ...          *)
HandleSocket(d, way) ==
  /\ Idle
  /\ queued[d][way] > 0
  /\ StillWanted(d, way)
  /\ queued' = [queued EXCEPT ![d][way] = @ - 1]
  /\ task' = Handler(d, way)
  /\ UNCHANGED <<held, wait_flags, pending, wanted, clock, bounds>>

(* ... or, if cURL has lost interest in the meantime, does nothing.        *)
IgnoreSocket(d, way) ==
  /\ Idle
  /\ queued[d][way] > 0
  /\ ~StillWanted(d, way)
  /\ queued' = [queued EXCEPT ![d][way] = @ - 1]
  /\ UNCHANGED <<held, wait_flags, pending, wanted, clock, task, bounds>>

(* Its _perform is over: _monitor waits again, if the flag is still set.   *)
EndSocket ==
  /\ task \in Handlers
  /\ pending' =
       [pending EXCEPT ![task.data] =
          Monitored(task.data, {task.way} \cap wait_flags[task.data])]
  /\ task' = NoTask
  /\ UNCHANGED <<held, wait_flags, queued, wanted, clock, bounds>>

(* The timer's handler: cURL takes note that its timeout has passed, if it *)
(* has; it sets a new one if it needs to.                                  *)
HandleTimer ==
  /\ Idle
  /\ expired > 0
  /\ expired' = expired - 1
  /\ task' = TimerRun
  /\ timeout' = (timeout /\ timer)
  /\ UNCHANGED <<held, wait_flags, waits, wanted, timer, timers, bounds>>

(* Any other call into cURL: async_start, a kick, curl_easy_pause.         *)
BeginOther ==
  /\ Idle
  /\ task' = OtherRun
  /\ UNCHANGED <<held, wait_flags, waits, wanted, clock, bounds>>

EndOther ==
  /\ task \in {TimerRun, OtherRun}
  /\ task' = NoTask
  /\ UNCHANGED <<held, wait_flags, waits, wanted, clock, bounds>>

-----------------------------------------------------------------------------
Next ==
  \/ \E n \in Fds :
       \/ Open(n) \/ OpenItself(n)
       \/ Remove(n) \/ RemoveUnknown(n)
       \/ Close(n) \/ CloseUnknown(n)
  \/ \E n \in Fds, ways \in SUBSET Ways \ {{}} :
       Watch(n, ways) \/ WatchUnknown(n, ways)
  \/ SetTimer
  \/ ClearTimer
  \/ \E d \in Data, way \in Ways :
       \/ Fire(d, way)
       \/ HandleSocket(d, way)
       \/ IgnoreSocket(d, way)
  \/ EndSocket
  \/ Expire
  \/ HandleTimer
  \/ BeginOther
  \/ EndOther

(* The strand runs what is queued, also if other tasks keep coming; each   *)
(* task ends.  Time passes.                                                *)
Fairness ==
  /\ \A d \in Data, way \in Ways :
       SF_vars(HandleSocket(d, way) \/ IgnoreSocket(d, way))
  /\ SF_vars(HandleTimer)
  /\ WF_vars(Expire)
  /\ WF_vars(EndSocket \/ EndOther)

Spec == Init /\ [][Next]_vars /\ Fairness

-----------------------------------------------------------------------------
(* Properties.                                                             *)

Waiting(d, way) == pending[d][way] + queued[d][way] > 0

(* What cURL wants to hear of a socket it opened through the callback, it  *)
(* will hear of: between tasks, every way it wants has a wait under way or *)
(* a handler that is about to run and will not be ignored.  Nothing waits  *)
(* for the other sockets; cURL looks at them when its timer expires.       *)
NoLostInterest ==
  Idle => \A n \in Fds \ strangers : \A way \in wanted[n] :
            /\ sockets[n] # None
            /\ Waiting(sockets[n], way)
            /\ way \in wait_flags[sockets[n]]

(* The same for the timer.                                                 *)
NoLostTimeout == Idle /\ timeout => timer \/ expired > 0

(* _sockets knows every socket opened through the callback by its number, *)
(* and no other, although numbers are reused at once, also by sockets cURL *)
(* opens itself, and SocketData outlive their sockets.                     *)
MapIsOpen ==
  /\ \A d \in Data : fd[d] # None => sockets[fd[d]] = d
  /\ \A n \in Fds : sockets[n] # None => fd[sockets[n]] = n
  /\ \A n \in strangers : sockets[n] = None

(* Handlers that were queued when their socket was closed do nothing: none *)
(* calls _perform with the number -1 of a closed socket, which is          *)
(* CURL_SOCKET_TIMEOUT, or waits on it again.                              *)
ClosedIsSilent ==
  \A d \in Data : fd[d] = None =>
    /\ wait_flags[d] = {}
    /\ pending[d] = NoWaits

(* A handler tells cURL only of a socket cURL owns and of a way it wants   *)
(* at that moment, never of the closed one that had its number before.     *)
TellsTheTruth ==
  [][\A d \in Data, way \in Ways :
       HandleSocket(d, way) => fd[d] \in Fds /\ way \in wanted[fd[d]]]_vars

(* A socket that is ready is reported, unless cURL loses interest first.   *)
ReadyIsReported ==
  \A d \in Data, way \in Ways :
    queued[d][way] > 0 ~>
      task = Handler(d, way) \/ way \notin wait_flags[d]
=============================================================================
