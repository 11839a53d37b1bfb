---------------------------- MODULE SessionProofs ----------------------------
(* Theorems about Session, for any requests and any number of starts.      *)
EXTENDS Session, TLAPS

(***************************************************************************)
(* The inductive invariant.  What the properties say of the two tables is  *)
(* not inductive: that a response in _active_requests is not yet stopped,  *)
(* and that a started one that is not stopped is there, ties the tables to *)
(* the starts.                                                             *)
(***************************************************************************)
ActiveIsRunning ==
  \A r \in Requests : active[r] # None =>
    /\ request[active[r]] = r
    /\ status[active[r]] = "started"
    /\ active[r] \notin finished

RunningIsActive ==
  \A s \in Starts : status[s] = "started" /\ s \notin finished =>
    active[request[s]] = s

FinishedIsStarted == \A s \in finished : status[s] = "started"

Tables ==
  /\ RegisteredIsActive
  /\ CallbacksReachLiveResponse
  /\ IdleIsUnhooked
  /\ ActiveIsRunning
  /\ RunningIsActive
  /\ FinishedIsStarted

IInv == TypeOK /\ Tables

(* Only the session decides that a response has ended, and it never takes  *)
(* the decision back; and a transfer keeps the response it was given until *)
(* that response has ended.                                                *)
OneResponsePerTransfer ==
  [][/\ finished \subseteq finished'
     /\ \A r \in Requests :
          active[r] \notin {None, active'[r]} => active[r] \in finished']_vars

(* No number of a response is the null pointer.                            *)
LEMMA NoneIsNoStart == None \notin Starts
  BY SessionAssumption DEF None, Starts

-----------------------------------------------------------------------------
LEMMA InitIInv == Init => IInv
  BY NoneIsNoStart, NoneIsNoRequest
  DEF Init, IInv, TypeOK, Tables, RegisteredIsActive, IdleIsUnhooked,
      CallbacksReachLiveResponse, ActiveIsRunning, RunningIsActive,
      FinishedIsStarted

(* _perform keeps types and tables, whichever transfers end in it.         *)
LEMMA PerformKeepsTypes ==
  ASSUME TypeOK, Tables, SomePerform
  PROVE  /\ registered' \subseteq Requests
         /\ active' \in [Requests -> Starts \cup {None}]
         /\ hooks' \subseteq Requests
         /\ sink' \in [Requests -> Starts \cup {None}]
         /\ finished' \subseteq Starts
         /\ wired' \subseteq Requests
         /\ sockets' \subseteq Requests
<1>1. PICK done \in SUBSET registered, opened \in SUBSET registered :
        Perform(done, opened)
  BY DEF SomePerform
<1> DEFINE gone == done \cup {r \in Requests : Stale(r)}
<1>2. \A r \in gone : r \in Requests /\ active[r] \in Starts
  BY DEF Stale, TypeOK, Tables, RegisteredIsActive
<1> QED
  BY <1>1, <1>2 DEF Perform, RemoveHandles, Unhook, StopResponses, Erase, TypeOK

LEMMA PerformKeepsTables ==
  ASSUME TypeOK, Tables, SomePerform, request' = request,
         \A s \in Starts : status'[s] = "started" <=> status[s] = "started"
  PROVE  Tables'
<1>1. PICK done \in SUBSET registered, opened \in SUBSET registered :
        Perform(done, opened)
  BY DEF SomePerform
<1> DEFINE gone == done \cup {r \in Requests : Stale(r)}
<1>2. \A r \in gone : r \in Requests /\ active[r] \in Starts
  BY DEF Stale, TypeOK, Tables, RegisteredIsActive
<1>3. /\ registered' = registered \ gone
      /\ hooks' = hooks \ gone
      /\ finished' = finished \cup {active[r] : r \in gone}
      /\ \A r \in Requests : sink'[r] = IF r \in gone THEN None ELSE sink[r]
      /\ \A r \in Requests : active'[r] = IF r \in gone THEN None ELSE active[r]
  BY <1>1 DEF Perform, RemoveHandles, Unhook, StopResponses, Erase
<1>4. RegisteredIsActive' /\ CallbacksReachLiveResponse' /\ IdleIsUnhooked'
  BY <1>3 DEF Tables, RegisteredIsActive, CallbacksReachLiveResponse,
              IdleIsUnhooked
<1>5. ActiveIsRunning'
  <2> SUFFICES ASSUME NEW r \in Requests, active'[r] # None
               PROVE  /\ request[active'[r]] = r
                      /\ status'[active'[r]] = "started"
                      /\ active'[r] \notin finished'
    BY DEF ActiveIsRunning
  <2>1. r \notin gone /\ active'[r] = active[r] /\ active[r] \in Starts
    BY <1>3 DEF TypeOK
  <2>2. /\ request[active[r]] = r
        /\ status[active[r]] = "started"
        /\ active[r] \notin finished
    BY <2>1 DEF Tables, ActiveIsRunning
  <2>3. \A q \in gone : active[q] # active[r]
    BY <1>2, <2>1, <2>2, NoneIsNoStart DEF Tables, ActiveIsRunning
  <2> QED
    BY <1>3, <2>1, <2>2, <2>3
<1>6. RunningIsActive'
  <2> SUFFICES ASSUME NEW s \in Starts, status'[s] = "started", s \notin finished'
               PROVE  active'[request[s]] = s
    BY DEF RunningIsActive
  <2>1. active[request[s]] = s /\ request[s] \in Requests
    BY <1>3 DEF Tables, RunningIsActive, TypeOK
  <2> QED
    BY <1>3, <2>1
<1>7. FinishedIsStarted'
  BY <1>2, <1>3, NoneIsNoStart
  DEF Tables, FinishedIsStarted, ActiveIsRunning, TypeOK
<1> QED
  BY <1>4, <1>5, <1>6, <1>7 DEF Tables

-----------------------------------------------------------------------------
LEMMA NextIInv == IInv /\ [Next]_vars => IInv'
<1> SUFFICES ASSUME TypeOK, Tables, [Next]_vars
             PROVE  TypeOK' /\ Tables'
  BY DEF IInv
<1> USE NoneIsNoStart
<1>1. CASE Poll
  <2>1. TypeOK'
    BY <1>1, PerformKeepsTypes DEF Poll, TypeOK
  <2> QED
    BY <1>1, <2>1, PerformKeepsTables DEF Poll
<1>2. ASSUME NEW s \in Starts, AsyncStart(s) PROVE TypeOK' /\ Tables'
  <2>1. TypeOK'
    BY <1>2 DEF AsyncStart, TypeOK, tables
  <2>2. /\ UNCHANGED <<request, tables>>
        /\ \A t \in Starts : status'[t] = "started" <=> status[t] = "started"
    BY <1>2 DEF AsyncStart, TypeOK
  <2> QED
    BY <2>1, <2>2 DEF tables, Tables, TypeOK, RegisteredIsActive,
      CallbacksReachLiveResponse, IdleIsUnhooked, ActiveIsRunning,
      RunningIsActive, FinishedIsStarted
<1>3. ASSUME NEW s \in Starts, BeginStart(s) PROVE TypeOK' /\ Tables'
  <2>1. TypeOK'
    BY <1>3, PerformKeepsTypes DEF BeginStart, TypeOK
  <2>2. \A t \in Starts : status'[t] = "started" <=> status[t] = "started"
    BY <1>3 DEF BeginStart, TypeOK
  <2> QED
    BY <1>3, <2>1, <2>2, PerformKeepsTables DEF BeginStart
<1>4. ASSUME NEW s \in Starts, RefuseStart(s) PROVE TypeOK' /\ Tables'
  <2>1. TypeOK'
    BY <1>4 DEF RefuseStart, ResetHooks, Answer, TypeOK
  <2>2. \A t \in Starts : status'[t] = "started" <=> status[t] = "started"
    BY <1>4 DEF RefuseStart, Answer, TypeOK
  <2> QED
    BY <1>4, <2>1, <2>2 DEF RefuseStart, ResetHooks, Tables, TypeOK,
      RegisteredIsActive, CallbacksReachLiveResponse, IdleIsUnhooked,
      ActiveIsRunning, RunningIsActive, FinishedIsStarted
<1>5. ASSUME NEW s \in Starts, Launch(s) PROVE TypeOK' /\ Tables'
  <2> DEFINE r == request[s]
  <2>1. /\ r \in Requests
        /\ r \notin registered
        /\ active[r] = None
        /\ s \notin finished
        /\ s # None
    BY <1>5 DEF Launch, TypeOK, Tables, RegisteredIsActive, FinishedIsStarted
  <2>2. /\ registered' = registered \cup {r}
        /\ hooks' = hooks \cup {r}
        /\ sink' = [sink EXCEPT ![r] = s]
        /\ active' = [active EXCEPT ![r] = s]
        /\ status' = [status EXCEPT ![s] = "started"]
        /\ UNCHANGED <<request, finished>>
    BY <1>5, <2>1 DEF Launch, KeepHooks, Answer
  <2>3. TypeOK'
    BY <1>5, <2>1, <2>2 DEF Launch, TypeOK
  <2>4. RegisteredIsActive' /\ CallbacksReachLiveResponse' /\ IdleIsUnhooked'
    BY <2>1, <2>2 DEF TypeOK, Tables, RegisteredIsActive,
                      CallbacksReachLiveResponse, IdleIsUnhooked
  <2>5. ActiveIsRunning'
    BY <2>1, <2>2 DEF TypeOK, Tables, ActiveIsRunning
  <2>6. RunningIsActive'
    BY <2>1, <2>2 DEF TypeOK, Tables, RunningIsActive
  <2>7. FinishedIsStarted'
    BY <2>1, <2>2 DEF TypeOK, Tables, FinishedIsStarted
  <2> QED
    BY <2>3, <2>4, <2>5, <2>6, <2>7 DEF Tables
<1>6. ASSUME NEW s \in Starts, Kick(s) PROVE TypeOK' /\ Tables'
  <2>1. TypeOK'
    BY <1>6, PerformKeepsTypes DEF Kick, TypeOK
  <2> QED
    BY <1>6, <2>1, PerformKeepsTables DEF Kick
<1>7. ASSUME NEW s \in Starts, Drop(s) PROVE TypeOK' /\ Tables'
  BY <1>7 DEF Drop, tables, Tables, TypeOK, RegisteredIsActive,
    CallbacksReachLiveResponse, IdleIsUnhooked, ActiveIsRunning,
    RunningIsActive, FinishedIsStarted
<1>8. CASE UNCHANGED vars
  BY <1>8 DEF vars, tables, Tables, TypeOK, RegisteredIsActive,
    CallbacksReachLiveResponse, IdleIsUnhooked, ActiveIsRunning,
    RunningIsActive, FinishedIsStarted
<1> QED
  BY <1>1, <1>2, <1>3, <1>4, <1>5, <1>6, <1>7, <1>8 DEF Next

(* Every behaviour keeps the inductive invariant.                          *)
THEOREM Invariance == Spec => []IInv
  BY InitIInv, NextIInv, PTL DEF Spec

-----------------------------------------------------------------------------
(* The session's tables always have the shape the code declares.           *)
THEOREM TypeCorrect == Spec => []TypeOK
  BY Invariance, PTL DEF IInv

(* CURLIO_ASSERT(it != _active_requests.end()) in _clean_finished holds.   *)
THEOREM AssertHolds == Spec => []RegisteredIsActive
  BY Invariance, PTL DEF IInv, Tables

(* cURL's callbacks never follow a pointer to a wrong or dead response.    *)
THEOREM NoDanglingCallback == Spec => []CallbacksReachLiveResponse
  BY Invariance, PTL DEF IInv, Tables

(* A request outside the session holds no pointer to the session.          *)
THEOREM RequestsOutliveSession == Spec => []IdleIsUnhooked
  BY Invariance, PTL DEF IInv, Tables

(* A response is stopped exactly when its transfer has left the session.   *)
THEOREM StoppedWhenReleased == Spec => []FinishedIffReleased
<1>1. IInv => FinishedIffReleased
  BY NoneIsNoStart DEF IInv, TypeOK, Tables, FinishedIffReleased,
                       ActiveIsRunning, RunningIsActive
<1> QED
  BY Invariance, <1>1, PTL

-----------------------------------------------------------------------------
(* The decision that a response has ended is the session's and is final.   *)
LEMMA PerformStopsOnce ==
  ASSUME TypeOK, Tables, SomePerform
  PROVE  /\ finished \subseteq finished'
         /\ \A r \in Requests :
              active[r] \notin {None, active'[r]} => active[r] \in finished'
<1>1. PICK done \in SUBSET registered, opened \in SUBSET registered :
        Perform(done, opened)
  BY DEF SomePerform
<1> QED
  BY <1>1 DEF Perform, StopResponses, Erase

(* A transfer keeps its response until that response has ended, and the    *)
(* end is final.                                                           *)
THEOREM OneResponse == Spec => OneResponsePerTransfer
<1> DEFINE Kept ==
      /\ finished \subseteq finished'
      /\ \A r \in Requests :
           active[r] \notin {None, active'[r]} => active[r] \in finished'
<1>1. ASSUME IInv, [Next]_vars PROVE [Kept]_vars
  <2> SUFFICES ASSUME Next PROVE Kept
    BY <1>1
  <2>1. CASE SomePerform
    BY <1>1, <2>1, PerformStopsOnce DEF IInv
  <2>2. ASSUME NEW s \in Starts, AsyncStart(s) \/ RefuseStart(s) \/ Drop(s)
        PROVE  Kept
    BY <2>2 DEF AsyncStart, RefuseStart, Drop, tables
  <2>3. ASSUME NEW s \in Starts, Launch(s) PROVE Kept
    BY <1>1, <2>3 DEF Launch, IInv, TypeOK
  <2> QED
    BY <2>1, <2>2, <2>3 DEF Next, Poll, BeginStart, Kick
<1> QED
  BY <1>1, Invariance, PTL DEF Spec, OneResponsePerTransfer

(***************************************************************************)
(* A program that starts a request only when it is done with it.  From the *)
(* call of async_start on, every other start of the same request is over:  *)
(* answered with an error, ended, or let go; and once the leading _perform *)
(* has run, the easy handle is out of cURL.  Its options are set as long   *)
(* as it is in.                                                            *)
(***************************************************************************)
Over(s) ==
  \/ status[s] \in {"idle", "refused"}
  \/ status[s] = "started" /\ (s \in finished \/ s \notin held)

OthersOver ==
  \A s, t \in Starts :
    status[s] \in {"queued", "adding"} /\ s # t /\ request[s] = request[t]
      => Over(t)

OneAtATime ==
  \A s, t \in Starts : status[s] = "adding" /\ status[t] = "adding" => s = t

Cleaned == \A s \in Starts : status[s] = "adding" => request[s] \notin registered

NoneRefused == \A s \in Starts : status[s] # "refused"

Polite == OthersOver /\ OneAtATime /\ Cleaned /\ NoneRefused

Wired == AllOpenedSockets /\ registered \subseteq hooks

(* _perform lets a start that is over be over.                             *)
LEMMA PerformKeepsOver ==
  ASSUME SomePerform, held' = held,
         NEW t \in Starts, Over(t), status'[t] = status[t]
  PROVE  Over(t)'
<1>1. PICK done \in SUBSET registered, opened \in SUBSET registered :
        Perform(done, opened)
  BY DEF SomePerform
<1> QED
  BY <1>1 DEF Perform, StopResponses, Over

(* The leading _perform of async_start takes a let-go transfer out of cURL.*)
LEMMA PerformCleans ==
  ASSUME TypeOK, Tables, SomePerform,
         NEW r \in Requests,
         \A t \in Starts : request[t] = r /\ status[t] = "started" => Over(t)
  PROVE  r \notin registered'
<1>1. PICK done \in SUBSET registered, opened \in SUBSET registered :
        Perform(done, opened)
  BY DEF SomePerform
<1>2. r \in registered => Stale(r)
  BY DEF TypeOK, Tables, RegisteredIsActive, ActiveIsRunning, Stale, Over
<1> QED
  BY <1>1, <1>2 DEF Perform, RemoveHandles

LEMMA PerformKeepsWired ==
  ASSUME Wired, SomePerform
  PROVE  Wired'
<1>1. PICK done \in SUBSET registered, opened \in SUBSET registered :
        Perform(done, opened)
  BY DEF SomePerform
<1> QED
  BY <1>1 DEF Perform, RemoveHandles, Unhook, Wired, AllOpenedSockets

(* Every step of such a program keeps the stronger invariant.              *)
LEMMA NextPolite ==
  ASSUME misused' = FALSE, IInv, Polite, Wired, [Next]_vars
  PROVE  Polite' /\ Wired'
<1> USE DEF IInv, TypeOK, NoneRefused
<1>1. CASE Poll \/ \E s \in Starts : Kick(s)
  <2>1. SomePerform /\ UNCHANGED <<request, status, held>>
    BY <1>1 DEF Poll, Kick
  <2>2. registered' \subseteq registered
    BY <2>1 DEF SomePerform, Perform, RemoveHandles
  <2> QED
    BY <2>1, <2>2, PerformKeepsOver, PerformKeepsWired
    DEF Polite, OthersOver, OneAtATime, Cleaned
<1>2. ASSUME NEW s \in Starts, AsyncStart(s) PROVE Polite' /\ Wired'
  <2>1. /\ status[s] = "idle"
        /\ Idle(request[s])
        /\ status' = [status EXCEPT ![s] = "queued"]
        /\ UNCHANGED <<request, held, finished, registered, hooks, wired, sockets>>
    BY <1>2 DEF AsyncStart, tables
  <2>2. \A t \in Starts : Over(t) /\ t # s => Over(t)'
    BY <2>1 DEF Over
  <2>3. \A t \in Starts : request[t] = request[s] => Over(t)
    BY <2>1 DEF Idle, Over
  <2>4. OthersOver'
    <3> SUFFICES ASSUME NEW u \in Starts, NEW t \in Starts,
                        status'[u] \in {"queued", "adding"}, u # t,
                        request[u] = request[t]
                 PROVE  Over(t)'
      BY <2>1 DEF OthersOver
    <3>1. CASE u = s
      BY <2>2, <2>3, <3>1
    <3>2. CASE u # s
      <4>1. status[u] \in {"queued", "adding"} /\ Over(t)
        BY <2>1, <3>2 DEF Polite, OthersOver
      <4>2. t # s
        BY <2>3, <4>1 DEF Over
      <4> QED
        BY <2>2, <4>1, <4>2
    <3> QED
      BY <3>1, <3>2
  <2> QED
    BY <2>1, <2>4 DEF Polite, OneAtATime, Cleaned, Wired, AllOpenedSockets
<1>3. ASSUME NEW s \in Starts, BeginStart(s) PROVE Polite' /\ Wired'
  <2>1. /\ status[s] = "queued"
        /\ \A t \in Starts : status[t] # "adding"
        /\ SomePerform
        /\ status' = [status EXCEPT ![s] = "adding"]
        /\ UNCHANGED <<request, held>>
    BY <1>3 DEF BeginStart, StrandFree
  <2>2. request[s] \notin registered'
    BY <2>1, PerformCleans DEF Polite, OthersOver
  <2>3. OthersOver'
    <3> SUFFICES ASSUME NEW u \in Starts, NEW t \in Starts,
                        status'[u] \in {"queued", "adding"}, u # t,
                        request[u] = request[t]
                 PROVE  Over(t)'
      BY <2>1 DEF OthersOver
    <3>1. status[u] \in {"queued", "adding"} /\ Over(t)
      BY <2>1 DEF Polite, OthersOver
    <3>2. status'[t] = status[t]
      BY <2>1, <3>1 DEF Over
    <3> QED
      BY <2>1, <3>1, <3>2, PerformKeepsOver
  <2> QED
    BY <2>1, <2>2, <2>3, PerformKeepsWired DEF Polite, OneAtATime, Cleaned
<1>4. ASSUME NEW s \in Starts, RefuseStart(s) PROVE FALSE
  BY <1>4 DEF RefuseStart, Polite, Cleaned
<1>5. ASSUME NEW s \in Starts, Launch(s) PROVE Polite' /\ Wired'
  <2>1. /\ status[s] = "adding"
        /\ status' = [status EXCEPT ![s] = "started"]
        /\ held' = held \cup {s}
        /\ registered' = registered \cup {request[s]}
        /\ hooks' = hooks \cup {request[s]}
        /\ UNCHANGED <<request, finished, wired, sockets>>
    BY <1>5 DEF Launch, KeepHooks, Answer
  <2>2. \A t \in Starts : Over(t) => Over(t)'
    BY <2>1 DEF Over
  <2>3. OthersOver'
    BY <2>1, <2>2 DEF Polite, OthersOver
  <2>4. \A t \in Starts : status'[t] # "adding"
    BY <2>1 DEF Polite, OneAtATime
  <2> QED
    BY <2>1, <2>3, <2>4
    DEF Polite, OneAtATime, Cleaned, Wired, AllOpenedSockets
<1>6. ASSUME NEW s \in Starts, Drop(s) PROVE Polite' /\ Wired'
  BY <1>6 DEF Drop, tables, Polite, OthersOver, Over, OneAtATime, Cleaned,
              Wired, AllOpenedSockets
<1>7. CASE UNCHANGED vars
  BY <1>7 DEF vars, tables, Polite, OthersOver, Over, OneAtATime, Cleaned,
              Wired, AllOpenedSockets
<1> QED
  BY <1>1, <1>2, <1>3, <1>4, <1>5, <1>6, <1>7 DEF Next

(* What the program did wrong is not undone.                               *)
LEMMA MisuseStays ==
  ASSUME TypeOK, [Next]_vars, misused
  PROVE  misused'
BY DEF TypeOK, Next, vars, Poll, AsyncStart, BeginStart, RefuseStart, Launch,
       Kick, Drop

LEMMA PoliteInvariance ==
  Spec => [](misused \/ (Polite /\ Wired))
<1>1. Init => Polite /\ Wired
  BY DEF Init, Polite, OthersOver, OneAtATime, Cleaned, NoneRefused, Wired,
         AllOpenedSockets
<1>2. ASSUME IInv, misused \/ (Polite /\ Wired), [Next]_vars
      PROVE  (misused \/ (Polite /\ Wired))'
  <2>1. misused' \in BOOLEAN
    BY <1>2, NextIInv DEF IInv, TypeOK
  <2>2. CASE misused
    BY <1>2, <2>2, MisuseStays DEF IInv
  <2>3. CASE ~misused /\ misused' = FALSE
    BY <1>2, <2>3, NextPolite
  <2> QED
    BY <2>1, <2>2, <2>3
<1> QED
  BY <1>1, <1>2, Invariance, PTL DEF Spec

(* README: after eof "the request is removed from the session and can be   *)
(* used again"; so it can after the response was let go.                   *)
THEOREM NeverRefused ==
  Spec => []CanBeUsedAgain
<1>1. misused \/ (Polite /\ Wired) => CanBeUsedAgain
  BY DEF Polite, NoneRefused, CanBeUsedAgain
<1> QED
  BY PoliteInvariance, <1>1, PTL

(* "All opened sockets by cURL": true of a program that starts no request  *)
(* that is still in use.                                                   *)
THEOREM EverySocketIsKnown ==
  Spec => []SocketsAreKnown
<1>1. misused \/ (Polite /\ Wired) => SocketsAreKnown
  BY DEF Wired, SocketsAreKnown
<1> QED
  BY PoliteInvariance, <1>1, PTL

-----------------------------------------------------------------------------
(***************************************************************************)
(* The contract.  The responses Lifecycle calls running are those in       *)
(* _active_requests, and those of them that nobody holds are the stale     *)
(* ones: this is where the invariant ties the session's tables, which the  *)
(* contract does not have, to the starts, which it has.                    *)
(***************************************************************************)
Shown(s) == IF status[s] \in {"queued", "adding"} THEN "waiting" ELSE status[s]

LEMMA RunningIsInTheMap ==
  ASSUME TypeOK, Tables
  PROVE  Life!Running = {active[r] : r \in {q \in Requests : active[q] # None}}
<1>1. Life!Running = {s \in Starts : status[s] = "started" /\ s \notin finished}
  BY DEF Life!Running
<1> QED
  BY <1>1, NoneIsNoStart
  DEF TypeOK, Tables, ActiveIsRunning, RunningIsActive

LEMMA InUseIsRegistered ==
  ASSUME TypeOK, Tables
  PROVE  Life!InUse = registered
<1>1. Life!Running = {s \in Starts : status[s] = "started" /\ s \notin finished}
  BY DEF Life!Running
<1>2. \A s \in Life!Running :
        request[s] \in Requests /\ active[request[s]] = s /\ s # None
  BY <1>1, NoneIsNoStart DEF TypeOK, Tables, RunningIsActive
<1>3. \A r \in registered : active[r] \in Life!Running /\ request[active[r]] = r
  BY <1>1 DEF TypeOK, Tables, RegisteredIsActive, ActiveIsRunning
<1> QED
  BY <1>2, <1>3 DEF Life!InUse, TypeOK, Tables, RegisteredIsActive

(* What ends in _perform, by itself or because its response was let go.    *)
LEMMA PerformEnds ==
  ASSUME TypeOK, Tables, SomePerform,
         request' = request, held' = held,
         \A s \in Starts : Shown(s)' = Shown(s)
  PROVE  Life!End
<1>1. PICK done \in SUBSET registered, opened \in SUBSET registered :
        Perform(done, opened)
  BY DEF SomePerform
<1> DEFINE gone  == done \cup {r \in Requests : Stale(r)}
           ended == {active[r] : r \in gone}
<1>2. finished' = finished \cup ended
  BY <1>1 DEF Perform, StopResponses
<1>3. ended \subseteq Life!Running
  <2>1. \A r \in gone : r \in Requests /\ active[r] # None
    BY DEF Stale, TypeOK, Tables, RegisteredIsActive
  <2> QED
    BY <2>1, RunningIsInTheMap
<1>4. Life!Running \ held \subseteq ended
  BY RunningIsInTheMap DEF Stale
<1>5. finished' = finished \cup ended \cup (Life!Running \ held)
  BY <1>2, <1>4
<1>6. [s \in Starts |-> Shown(s)]' = [s \in Starts |-> Shown(s)]
  OBVIOUS
<1> QED
  BY <1>3, <1>5, <1>6 DEF Life!End, Shown

LEMMA StepRefines == IInv /\ [Next]_vars => [Life!Next]_(Life!vars)
<1> SUFFICES ASSUME TypeOK, Tables, [Next]_vars
             PROVE  [Life!Next]_(Life!vars)
  BY DEF IInv
<1>1. CASE Poll
  <2>1. \A s \in Starts : Shown(s)' = Shown(s)
    BY <1>1 DEF Poll, Shown
  <2> QED
    BY <1>1, <2>1, PerformEnds DEF Poll, Life!Next
<1>2. ASSUME NEW s \in Starts, Kick(s) PROVE Life!Next
  <2>1. \A t \in Starts : Shown(t)' = Shown(t)
    BY <1>2 DEF Kick, Shown
  <2> QED
    BY <1>2, <2>1, PerformEnds DEF Kick, Life!Next
<1>3. ASSUME NEW s \in Starts, BeginStart(s) PROVE Life!Next
  <2>1. \A t \in Starts : Shown(t)' = Shown(t)
    BY <1>3 DEF BeginStart, Shown, TypeOK
  <2> QED
    BY <1>3, <2>1, PerformEnds DEF BeginStart, Life!Next
<1>4. ASSUME NEW s \in Starts, AsyncStart(s) PROVE Life!Call(s)
  BY <1>4 DEF AsyncStart, tables, TypeOK, Life!Call
<1>5. ASSUME NEW s \in Starts, RefuseStart(s) PROVE Life!Refuse(s)
  BY <1>5, InUseIsRegistered DEF RefuseStart, Answer, TypeOK, Life!Refuse
<1>6. ASSUME NEW s \in Starts, Launch(s) PROVE Life!Accept(s)
  BY <1>6, InUseIsRegistered DEF Launch, Answer, TypeOK, Life!Accept
<1>7. ASSUME NEW s \in Starts, Drop(s) PROVE Life!Drop(s)
  BY <1>7 DEF Drop, tables, Life!Drop
<1>8. CASE UNCHANGED vars
  BY <1>8 DEF vars, tables, Life!vars
<1> QED
  BY <1>1, <1>2, <1>3, <1>4, <1>5, <1>6, <1>7, <1>8 DEF Next, Life!Next

LEMMA InitRefines == Init => Life!Init
  BY DEF Init, Life!Init

(* async_start keeps its contract: a request runs for one response at a    *)
(* time, which ends once and for all and at the latest when the session    *)
(* meets it unheld; and a start is refused exactly if its request is in    *)
(* use when the lambda adds it.                                            *)
THEOREM ImplementsLifecycle == Spec => Contract
  BY InitRefines, StepRefines, Invariance, PTL DEF Spec, Contract, Life!Spec
=============================================================================
