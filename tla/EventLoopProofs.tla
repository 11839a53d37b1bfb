---------------------------- MODULE EventLoopProofs ----------------------------
(* Theorems about EventLoop, for any numbers, sockets and timers.          *)
EXTENDS EventLoop, TLAPS

(***************************************************************************)
(* The inductive invariant.  TypeOK bounds the waits by what cURL has      *)
(* asked for; they only add up to that with the running handler, which     *)
(* takes a wait with it and may bring it back.                             *)
(***************************************************************************)
Shape ==
  /\ sockets \in [Fds -> Data \cup {None}]
  /\ fd \in [Data -> Fds \cup {None}]
  /\ strangers \subseteq Fds
  /\ wait_flags \in [Data -> SUBSET Ways]
  /\ pending \in [Data -> [Ways -> Nat]]
  /\ queued \in [Data -> [Ways -> Nat]]
  /\ wanted \in [Fds -> SUBSET Ways]
  /\ timeout \in BOOLEAN
  /\ timer \in BOOLEAN
  /\ expired \in Nat
  /\ task \in {NoTask, TimerRun, OtherRun} \cup Handlers
  /\ opened \in 0 .. MaxSockets
  /\ changes \in 0 .. MaxChanges
  /\ timers \in 0 .. MaxTimers

Running(d, way) == IF task = Handler(d, way) THEN 1 ELSE 0

Counted ==
  \A d \in Data, way \in Ways :
    pending[d][way] + queued[d][way] + Running(d, way) <= changes

(* Sockets: the flags of a socket in the map say what cURL wants; of the   *)
(* others it wants something only if it has opened them itself.            *)
Fresh == \A d \in Data : d > opened => fd[d] = None

FlagsAreWanted ==
  \A n \in Fds :
    /\ sockets[n] = None => n \in strangers \/ wanted[n] = {}
    /\ sockets[n] # None => wanted[n] = wait_flags[sockets[n]]

(* While a handler runs, it stands for the wait that it will renew.        *)
InterestKept ==
  \A n \in Fds \ strangers : \A way \in wanted[n] :
    Waiting(sockets[n], way) \/ task = Handler(sockets[n], way)

(* The timer.                                                              *)
TimersCounted ==
  /\ expired <= timers
  /\ timer => expired + 1 <= timers

TimeoutKept == timeout => timer \/ expired > 0

IInv ==
  /\ Shape
  /\ Counted
  /\ Fresh /\ MapIsOpen /\ FlagsAreWanted
  /\ ClosedIsSilent
  /\ InterestKept
  /\ TimersCounted /\ TimeoutKept

LEMMA Constants ==
  /\ MaxSockets \in Nat /\ MaxChanges \in Nat /\ MaxTimers \in Nat
  /\ None \notin Fds /\ None \notin Data /\ Data \subseteq Nat
  BY EventLoopAssumption, NoneIsNoSocket DEF None, Data

LEMMA Tasks ==
  /\ NoTask \notin Handlers /\ TimerRun \notin Handlers
  /\ OtherRun \notin Handlers
  /\ NoTask # TimerRun /\ NoTask # OtherRun
  /\ \A d \in Data, way \in Ways : Handler(d, way) \in Handlers
  /\ \A d \in Data, e \in Data, way \in Ways, w \in Ways :
       Handler(d, way) = Handler(e, w) => d = e /\ way = w
  /\ \A h \in Handlers :
       h.data \in Data /\ h.way \in Ways /\ h = Handler(h.data, h.way)
  BY Constants DEF NoTask, TimerRun, OtherRun, Handlers, Handler

LEMMA SameHandler ==
  ASSUME NEW d \in Data, NEW e \in Data, NEW way \in Ways, NEW w \in Ways,
         Handler(d, way) = Handler(e, w)
  PROVE  d = e /\ way = w
  BY Tasks

LEMMA WaitsAreNat ==
  ASSUME Shape, NEW d \in Data, NEW way \in Ways
  PROVE  pending[d][way] \in Nat /\ queued[d][way] \in Nat
  BY DEF Shape

LEMMA NoWaitsType ==
  NoWaits \in [Ways -> Nat] /\ \A way \in Ways : NoWaits[way] = 0
  BY DEF NoWaits

LEMMA MonitoredType ==
  ASSUME Shape, NEW d \in Data, NEW ways
  PROVE  /\ Monitored(d, ways) \in [Ways -> Nat]
         /\ \A way \in Ways :
              /\ way \in ways => Monitored(d, ways)[way] = pending[d][way] + 1
              /\ way \notin ways => Monitored(d, ways)[way] = pending[d][way]
  BY DEF Shape, Monitored

(* The invariant gives the type invariant that TLC checks.                 *)
LEMMA TypeFromIInv == IInv => TypeOK
<1> SUFFICES ASSUME IInv PROVE TypeOK
  OBVIOUS
<1> USE Constants DEF IInv, Shape
<1>1. ASSUME NEW d \in Data, NEW way \in Ways
      PROVE  pending[d][way] \in 0 .. changes /\ queued[d][way] \in 0 .. changes
  <2>1. /\ pending[d][way] \in Nat /\ queued[d][way] \in Nat
        /\ changes \in Nat /\ Running(d, way) \in {0, 1}
    BY DEF Running
  <2>2. pending[d][way] + queued[d][way] + Running(d, way) <= changes
    BY DEF Counted
  <2> QED
    BY <2>1, <2>2
<1>2. /\ pending \in [Data -> [Ways -> 0 .. changes]]
      /\ queued \in [Data -> [Ways -> 0 .. changes]]
  BY <1>1
<1>3. expired \in 0 .. MaxTimers
  BY DEF TimersCounted
<1> QED
  BY <1>2, <1>3 DEF TypeOK

LEMMA InitIInv == Init => IInv
<1> SUFFICES ASSUME Init PROVE IInv
  OBVIOUS
<1> USE Constants, NoWaitsType, Tasks DEF Init
<1>1. Shape
  <2>1. /\ sockets \in [Fds -> Data \cup {None}]
        /\ fd \in [Data -> Fds \cup {None}]
        /\ wait_flags \in [Data -> SUBSET Ways]
        /\ wanted \in [Fds -> SUBSET Ways]
    OBVIOUS
  <2>2. pending \in [Data -> [Ways -> Nat]] /\ queued \in [Data -> [Ways -> Nat]]
    BY NoWaitsType
  <2>3. /\ expired \in Nat
        /\ opened \in 0 .. MaxSockets /\ changes \in 0 .. MaxChanges
        /\ timers \in 0 .. MaxTimers
    OBVIOUS
  <2>4. /\ timeout \in BOOLEAN /\ timer \in BOOLEAN
        /\ task \in {NoTask, TimerRun, OtherRun} \cup Handlers
    OBVIOUS
  <2> QED
    BY <2>1, <2>2, <2>3, <2>4 DEF Shape
<1>2. Counted
  BY DEF Counted, Running
<1>3. Fresh /\ MapIsOpen /\ FlagsAreWanted /\ ClosedIsSilent
  BY DEF Fresh, MapIsOpen, FlagsAreWanted, ClosedIsSilent
<1>4. InterestKept /\ TimersCounted /\ TimeoutKept
  BY DEF InterestKept, TimersCounted, TimeoutKept
<1> QED
  BY <1>1, <1>2, <1>3, <1>4 DEF IInv

-----------------------------------------------------------------------------
(* cURL's calls.  They come while a task runs, which stays the same.       *)
LEMMA OpenIInv ==
  ASSUME IInv, NEW n \in Fds, Open(n)
  PROVE  IInv'
<1> USE Constants DEF IInv
<1> DEFINE d == opened + 1
<1>1. /\ opened < MaxSockets
      /\ n \notin strangers /\ n \notin {fd[e] : e \in Data}
      /\ opened' = d
      /\ fd' = [fd EXCEPT ![d] = n]
      /\ sockets' = [sockets EXCEPT ![n] = IF @ = None THEN d ELSE @]
      /\ UNCHANGED <<strangers, wait_flags, pending, queued, wanted, timeout,
                     timer, expired, timers, task, changes>>
  BY DEF Open, InUse, waits, clock
<1>2. d \in Data /\ opened \in Nat
  BY <1>1 DEF Shape, Data
<1>3. fd[d] = None /\ sockets[n] = None
  BY <1>1, <1>2 DEF Fresh, MapIsOpen, Shape
<1> HIDE DEF d
<1>4. /\ \A e \in Data : fd'[e] = IF e = d THEN n ELSE fd[e]
      /\ \A m \in Fds : sockets'[m] = IF m = n THEN d ELSE sockets[m]
  BY <1>1, <1>2, <1>3 DEF Shape
<1>5. Shape'
  <2>1. opened' \in 0 .. MaxSockets
    BY <1>1, <1>2 DEF d
  <2>2. fd' \in [Data -> Fds \cup {None}] /\ sockets' \in [Fds -> Data \cup {None}]
    BY <1>1, <1>2, <1>3 DEF Shape
  <2> QED
    BY <1>1, <2>1, <2>2 DEF Shape
<1>6. Counted' /\ TimersCounted' /\ TimeoutKept'
  BY <1>1 DEF Counted, Running, TimersCounted, TimeoutKept
<1>7. Fresh'
  <2> SUFFICES ASSUME NEW e \in Data, e > opened + 1
               PROVE  fd'[e] = None
    BY <1>1 DEF Fresh, d
  <2>1. e # d /\ e > opened
    BY <1>2 DEF d
  <2> QED
    BY <1>4, <2>1 DEF Fresh
<1>8. MapIsOpen'
  <2>1. ASSUME NEW e \in Data, fd'[e] # None PROVE sockets'[fd'[e]] = e
    <3>1. CASE e = d
      BY <1>4, <3>1
    <3>2. CASE e # d
      <4>1. fd'[e] = fd[e] /\ fd[e] \in Fds /\ sockets[fd[e]] = e
        BY <1>4, <2>1, <3>2 DEF MapIsOpen, Shape
      <4>2. fd[e] # n
        BY <1>3, <4>1
      <4> QED
        BY <1>4, <4>1, <4>2
    <3> QED
      BY <3>1, <3>2
  <2>2. ASSUME NEW m \in Fds, sockets'[m] # None PROVE fd'[sockets'[m]] = m
    <3>1. CASE m = n
      BY <1>2, <1>4, <3>1
    <3>2. CASE m # n
      <4>1. /\ sockets'[m] = sockets[m] /\ sockets[m] \in Data
            /\ fd[sockets[m]] = m
        BY <1>4, <2>2, <3>2 DEF MapIsOpen, Shape
      <4>2. sockets[m] # d
        BY <1>3, <4>1
      <4> QED
        BY <1>4, <4>1, <4>2
    <3> QED
      BY <3>1, <3>2
  <2>3. \A m \in strangers : sockets'[m] = None
    BY <1>1, <1>4 DEF MapIsOpen, Shape
  <2> QED
    BY <1>1, <2>1, <2>2, <2>3 DEF MapIsOpen
<1>9. ClosedIsSilent'
  BY <1>1, <1>2, <1>4 DEF ClosedIsSilent
<1>10. FlagsAreWanted' /\ InterestKept'
  <2>1. wanted[n] = {} /\ wait_flags[d] = {}
    BY <1>1, <1>2, <1>3 DEF FlagsAreWanted, ClosedIsSilent
  <2>2. FlagsAreWanted'
    <3> SUFFICES ASSUME NEW m \in Fds
                 PROVE  /\ sockets'[m] = None => m \in strangers \/ wanted[m] = {}
                        /\ sockets'[m] # None
                             => wanted[m] = wait_flags[sockets'[m]]
      BY <1>1 DEF FlagsAreWanted
    <3>1. CASE m = n
      BY <1>2, <1>4, <2>1, <3>1
    <3>2. CASE m # n
      BY <1>4, <3>2 DEF FlagsAreWanted
    <3> QED
      BY <3>1, <3>2
  <2>3. InterestKept'
    BY <1>1, <1>4, <2>1 DEF InterestKept, Waiting
  <2> QED
    BY <2>2, <2>3
<1> QED
  BY <1>5, <1>6, <1>7, <1>8, <1>9, <1>10

(* Of two open sockets each has its own number.                            *)
LEMMA OwnNumber ==
  ASSUME IInv, NEW n \in Fds, sockets[n] # None
  PROVE  /\ sockets[n] \in Data /\ fd[sockets[n]] = n
         /\ wanted[n] = wait_flags[sockets[n]]
         /\ \A m \in Fds : sockets[m] = sockets[n] => m = n
  BY DEF IInv, Shape, MapIsOpen, FlagsAreWanted

LEMMA WatchIInv ==
  ASSUME IInv, NEW n \in Fds, NEW ways \in SUBSET Ways, Watch(n, ways)
  PROVE  IInv'
<1> USE Constants DEF IInv
<1> DEFINE d == sockets[n]
<1>1. /\ d # None /\ changes < MaxChanges
      /\ wanted' = [wanted EXCEPT ![n] = ways]
      /\ changes' = changes + 1
      /\ wait_flags' = [wait_flags EXCEPT ![d] = ways]
      /\ pending' = [pending EXCEPT ![d] = Monitored(d, ways)]
      /\ UNCHANGED <<sockets, fd, strangers, queued, timeout, timer, expired,
                     timers, task, opened>>
  BY DEF Watch, Wish, held, clock
<1>2. /\ d \in Data /\ fd[d] = n
      /\ \A m \in Fds : sockets[m] = d => m = n
  BY <1>1, OwnNumber
<1> HIDE DEF d
<1>3. /\ \A m \in Fds : wanted'[m] = IF m = n THEN ways ELSE wanted[m]
      /\ \A e \in Data : wait_flags'[e] = IF e = d THEN ways ELSE wait_flags[e]
      /\ \A e \in Data : e # d => pending'[e] = pending[e]
      /\ pending'[d] = Monitored(d, ways)
  BY <1>1, <1>2 DEF Shape
<1>4. Shape'
  <2>1. pending' \in [Data -> [Ways -> Nat]]
    BY <1>1, <1>2, MonitoredType DEF Shape
  <2>2. changes' \in 0 .. MaxChanges
    BY <1>1 DEF Shape
  <2>3. /\ wanted' \in [Fds -> SUBSET Ways]
        /\ wait_flags' \in [Data -> SUBSET Ways]
    BY <1>1 DEF Shape
  <2> QED
    BY <1>1, <2>1, <2>2, <2>3 DEF Shape
<1>5. \A e \in Data, way \in Ways :
        /\ pending'[e][way] \in Nat /\ pending[e][way] \in Nat
        /\ pending[e][way] <= pending'[e][way]
        /\ pending'[e][way] <= pending[e][way] + 1
        /\ e = d /\ way \in ways => pending'[e][way] > 0
  <2> SUFFICES ASSUME NEW e \in Data, NEW way \in Ways
               PROVE  /\ pending'[e][way] \in Nat /\ pending[e][way] \in Nat
                      /\ pending[e][way] <= pending'[e][way]
                      /\ pending'[e][way] <= pending[e][way] + 1
                      /\ e = d /\ way \in ways => pending'[e][way] > 0
    OBVIOUS
  <2>1. pending'[e][way] \in Nat /\ pending[e][way] \in Nat
    BY <1>4 DEF Shape
  <2>2. \/ pending'[e][way] = pending[e][way] /\ ~(e = d /\ way \in ways)
        \/ pending'[e][way] = pending[e][way] + 1
    BY <1>3, MonitoredType, <1>2
  <2> QED
    BY <2>1, <2>2
<1>6. Counted'
  <2> SUFFICES ASSUME NEW e \in Data, NEW way \in Ways
               PROVE  pending'[e][way] + queued[e][way] + Running(e, way)
                        <= changes + 1
    BY <1>1 DEF Counted, Running
  <2>1. /\ queued[e][way] \in Nat /\ changes \in Nat /\ Running(e, way) \in {0, 1}
        /\ pending[e][way] + queued[e][way] + Running(e, way) <= changes
    BY DEF Counted, Running, Shape
  <2> QED
    BY <1>5, <2>1
<1>7. Fresh' /\ MapIsOpen' /\ TimersCounted' /\ TimeoutKept'
  BY <1>1 DEF Fresh, MapIsOpen, TimersCounted, TimeoutKept
<1>8. FlagsAreWanted'
  BY <1>1, <1>2, <1>3 DEF FlagsAreWanted, d, Shape
<1>9. ClosedIsSilent'
  BY <1>1, <1>2, <1>3 DEF ClosedIsSilent
<1>10. InterestKept'
  <2> SUFFICES ASSUME NEW m \in Fds \ strangers, NEW way \in wanted'[m]
               PROVE  \/ pending'[sockets[m]][way] + queued[sockets[m]][way] > 0
                      \/ task = Handler(sockets[m], way)
    BY <1>1 DEF InterestKept, Waiting
  <2>1. /\ way \in Ways /\ sockets[m] \in Data
        /\ queued[sockets[m]][way] \in Nat
    <3>1. way \in Ways
      BY <1>4 DEF Shape
    <3>2. sockets[m] # None
      BY <1>1, <1>4, <1>8 DEF FlagsAreWanted
    <3>3. sockets[m] \in Data
      BY <3>2 DEF Shape
    <3> QED
      BY <3>1, <3>3, WaitsAreNat
  <2>2. /\ pending'[sockets[m]][way] \in Nat /\ pending[sockets[m]][way] \in Nat
        /\ pending[sockets[m]][way] <= pending'[sockets[m]][way]
    BY <1>5, <2>1
  <2>3. CASE m = n
    <3>1. pending'[sockets[m]][way] > 0
      BY <1>3, <1>5, <2>1, <2>3 DEF d
    <3> QED
      BY <2>1, <2>2, <3>1
  <2>4. CASE m # n
    <3>1. \/ pending[sockets[m]][way] + queued[sockets[m]][way] > 0
          \/ task = Handler(sockets[m], way)
      BY <1>3, <2>4 DEF InterestKept, Waiting
    <3> QED
      BY <2>1, <2>2, <3>1
  <2> QED
    BY <2>3, <2>4
<1> QED
  BY <1>4, <1>6, <1>7, <1>8, <1>9, <1>10

(* Cancelling all waits of a SocketData that cURL wants nothing of.        *)
LEMMA CancelWaits ==
  ASSUME IInv, NEW d \in Data,
         pending' = [pending EXCEPT ![d] = NoWaits],
         UNCHANGED <<queued, task, changes>>
  PROVE  /\ pending' \in [Data -> [Ways -> Nat]]
         /\ pending'[d] = NoWaits
         /\ \A e \in Data : e # d => pending'[e] = pending[e]
         /\ Counted'
<1> USE Constants, NoWaitsType DEF IInv
<1>1. pending' \in [Data -> [Ways -> Nat]]
  BY DEF Shape
<1>2. /\ pending'[d] = NoWaits
      /\ \A e \in Data : e # d => pending'[e] = pending[e]
  BY DEF Shape
<1>3. Counted'
  <2> SUFFICES ASSUME NEW e \in Data, NEW way \in Ways
               PROVE  pending'[e][way] + queued[e][way] + Running(e, way)
                        <= changes
    BY DEF Counted, Running
  <2>1. /\ pending[e][way] \in Nat /\ queued[e][way] \in Nat
        /\ changes \in Nat /\ Running(e, way) \in {0, 1}
        /\ pending[e][way] + queued[e][way] + Running(e, way) <= changes
    BY WaitsAreNat DEF Counted, Running, Shape
  <2>2. pending'[e][way] = pending[e][way] \/ pending'[e][way] = 0
    BY <1>2
  <2> QED
    BY <2>1, <2>2
<1> QED
  BY <1>1, <1>2, <1>3

LEMMA RemoveIInv ==
  ASSUME IInv, NEW n \in Fds, Remove(n)
  PROVE  IInv'
<1> USE Constants DEF IInv
<1> DEFINE d == sockets[n]
<1>1. /\ d # None
      /\ wanted' = [wanted EXCEPT ![n] = {}]
      /\ wait_flags' = [wait_flags EXCEPT ![d] = {}]
      /\ pending' = [pending EXCEPT ![d] = NoWaits]
      /\ UNCHANGED <<sockets, fd, strangers, queued, timeout, timer, expired,
                     timers, task, opened, changes>>
  BY DEF Remove, NoWish, Flags_Cleared, held, clock, bounds
<1>2. /\ d \in Data /\ fd[d] = n
      /\ \A m \in Fds : sockets[m] = d => m = n
  BY <1>1, OwnNumber
<1> HIDE DEF d
<1>3. /\ \A m \in Fds : wanted'[m] = IF m = n THEN {} ELSE wanted[m]
      /\ \A e \in Data : wait_flags'[e] = IF e = d THEN {} ELSE wait_flags[e]
  BY <1>1, <1>2 DEF Shape
<1>4. /\ pending' \in [Data -> [Ways -> Nat]] /\ pending'[d] = NoWaits
      /\ \A e \in Data : e # d => pending'[e] = pending[e]
      /\ Counted'
  BY <1>1, <1>2, CancelWaits
<1>5. Shape'
  <2>1. /\ wanted' \in [Fds -> SUBSET Ways]
        /\ wait_flags' \in [Data -> SUBSET Ways]
    BY <1>1 DEF Shape
  <2> QED
    BY <1>1, <1>4, <2>1 DEF Shape
<1>6. Fresh' /\ MapIsOpen' /\ TimersCounted' /\ TimeoutKept'
  BY <1>1 DEF Fresh, MapIsOpen, TimersCounted, TimeoutKept
<1>7. FlagsAreWanted'
  BY <1>1, <1>2, <1>3 DEF FlagsAreWanted, d, Shape
<1>8. ClosedIsSilent'
  BY <1>1, <1>3, <1>4 DEF ClosedIsSilent
<1>9. InterestKept'
  <2> SUFFICES ASSUME NEW m \in Fds \ strangers, NEW way \in wanted'[m]
               PROVE  \/ pending'[sockets[m]][way] + queued[sockets[m]][way] > 0
                      \/ task = Handler(sockets[m], way)
    BY <1>1 DEF InterestKept, Waiting
  <2>1. m # n /\ way \in wanted[m]
    BY <1>3
  <2>2. sockets[m] \in Data /\ sockets[m] # d
    BY <1>2, <2>1 DEF FlagsAreWanted, Shape
  <2> QED
    BY <1>4, <2>1, <2>2 DEF InterestKept, Waiting
<1> QED
  BY <1>4, <1>5, <1>6, <1>7, <1>8, <1>9

LEMMA CloseIInv ==
  ASSUME IInv, NEW n \in Fds, Close(n)
  PROVE  IInv'
<1> USE Constants DEF IInv
<1> DEFINE d == sockets[n]
<1>1. /\ d # None /\ wanted[n] = {}
      /\ fd' = [fd EXCEPT ![d] = None]
      /\ pending' = [pending EXCEPT ![d] = NoWaits]
      /\ sockets' = [sockets EXCEPT ![n] = None]
      /\ UNCHANGED <<strangers, wait_flags, queued, wanted, timeout, timer,
                     expired, timers, task, opened, changes>>
  BY DEF Close, Erased, clock, bounds
<1>2. /\ d \in Data /\ fd[d] = n /\ wait_flags[d] = {}
      /\ \A m \in Fds : sockets[m] = d => m = n
  BY <1>1, OwnNumber
<1> HIDE DEF d
<1>3. /\ \A m \in Fds : sockets'[m] = IF m = n THEN None ELSE sockets[m]
      /\ \A e \in Data : fd'[e] = IF e = d THEN None ELSE fd[e]
  BY <1>1, <1>2 DEF Shape
<1>4. /\ pending' \in [Data -> [Ways -> Nat]] /\ pending'[d] = NoWaits
      /\ \A e \in Data : e # d => pending'[e] = pending[e]
      /\ Counted'
  BY <1>1, <1>2, CancelWaits
<1>5. Shape'
  <2>1. /\ sockets' \in [Fds -> Data \cup {None}]
        /\ fd' \in [Data -> Fds \cup {None}]
    BY <1>1 DEF Shape
  <2> QED
    BY <1>1, <1>4, <2>1 DEF Shape
<1>6. Fresh' /\ TimersCounted' /\ TimeoutKept'
  BY <1>1, <1>3 DEF Fresh, TimersCounted, TimeoutKept
<1>7. MapIsOpen'
  <2>1. ASSUME NEW e \in Data, fd'[e] # None PROVE sockets'[fd'[e]] = e
    <3>1. e # d /\ fd'[e] = fd[e] /\ fd[e] \in Fds /\ sockets[fd[e]] = e
      BY <1>3, <2>1 DEF MapIsOpen, Shape
    <3>2. fd[e] # n
      BY <3>1 DEF d
    <3> QED
      BY <1>3, <3>1, <3>2
  <2>2. ASSUME NEW m \in Fds, sockets'[m] # None PROVE fd'[sockets'[m]] = m
    <3>1. /\ m # n /\ sockets'[m] = sockets[m] /\ sockets[m] \in Data
          /\ fd[sockets[m]] = m
      BY <1>3, <2>2 DEF MapIsOpen, Shape
    <3> QED
      BY <1>2, <1>3, <3>1
  <2>3. \A m \in strangers : sockets'[m] = None
    BY <1>3 DEF MapIsOpen, Shape
  <2> QED
    BY <1>1, <2>1, <2>2, <2>3 DEF MapIsOpen
<1>8. FlagsAreWanted'
  BY <1>1, <1>3 DEF FlagsAreWanted
<1>9. ClosedIsSilent'
  BY <1>1, <1>2, <1>3, <1>4 DEF ClosedIsSilent
<1>10. InterestKept'
  <2> SUFFICES ASSUME NEW m \in Fds \ strangers, NEW way \in wanted[m]
               PROVE  /\ sockets'[m] = sockets[m]
                      /\ \/ pending'[sockets[m]][way] + queued[sockets[m]][way] > 0
                         \/ task = Handler(sockets[m], way)
    BY <1>1 DEF InterestKept, Waiting
  <2>1. m # n
    BY <1>1
  <2>2. sockets[m] \in Data /\ sockets[m] # d
    BY <1>2, <2>1 DEF FlagsAreWanted, Shape
  <2> QED
    BY <1>3, <1>4, <2>1, <2>2 DEF InterestKept, Waiting
<1> QED
  BY <1>4, <1>5, <1>6, <1>7, <1>8, <1>9, <1>10

(* Sockets that cURL has opened itself: the map does not know them, and    *)
(* what cURL wants of them changes nothing for the others.                 *)
LEMMA StrangerIInv ==
  ASSUME IInv, NEW n \in Fds,
         \/ OpenItself(n)
         \/ \E ways \in SUBSET Ways : WatchUnknown(n, ways)
         \/ RemoveUnknown(n)
         \/ CloseUnknown(n)
  PROVE  IInv'
<1> USE Constants DEF IInv
<1>1. /\ sockets[n] = None
      /\ \A m \in Fds : m # n => /\ wanted'[m] = wanted[m]
                                /\ (m \in strangers') = (m \in strangers)
      /\ n \notin strangers' => wanted'[n] = {}
      /\ strangers' \subseteq Fds /\ wanted' \in [Fds -> SUBSET Ways]
      /\ opened' \in opened .. MaxSockets /\ changes' \in changes .. MaxChanges
      /\ UNCHANGED <<sockets, fd, wait_flags, pending, queued, timeout, timer,
                     expired, timers, task>>
  <2>1. CASE OpenItself(n)
    <3>1. sockets[n] = None
      BY <2>1 DEF OpenItself, InUse, MapIsOpen, Shape
    <3> QED
      BY <2>1, <3>1 DEF OpenItself, waits, clock, Shape
  <2>2. ASSUME NEW ways \in SUBSET Ways, WatchUnknown(n, ways)
        PROVE  /\ n \in strangers' /\ n \in strangers
               /\ strangers' = strangers
               /\ wanted' = [wanted EXCEPT ![n] = ways]
               /\ sockets[n] = None
               /\ opened' = opened /\ changes' = changes + 1
               /\ changes < MaxChanges
               /\ UNCHANGED <<sockets, fd, wait_flags, pending, queued, timeout,
                              timer, expired, timers, task>>
    <3>1. n \in strangers
      BY <2>2 DEF WatchUnknown, Wish, InUse, MapIsOpen
    <3> QED
      BY <2>2, <3>1 DEF WatchUnknown, Wish, held, clock, Shape
  <2>3. CASE RemoveUnknown(n)
    BY <2>3 DEF RemoveUnknown, NoWish, held, clock, bounds, Shape
  <2>4. CASE CloseUnknown(n)
    BY <2>4 DEF CloseUnknown, waits, clock, bounds, Shape
  <2>5. ASSUME NEW ways \in SUBSET Ways, WatchUnknown(n, ways)
        PROVE  /\ \A m \in Fds : m # n => /\ wanted'[m] = wanted[m]
                                        /\ (m \in strangers') = (m \in strangers)
               /\ strangers' \subseteq Fds /\ wanted' \in [Fds -> SUBSET Ways]
               /\ opened' \in opened .. MaxSockets
               /\ changes' \in changes .. MaxChanges
    BY <2>2, <2>5 DEF Shape
  <2> QED
    BY <2>1, <2>2, <2>3, <2>4, <2>5
<1>2. opened \in Nat /\ opened' \in Nat /\ changes \in Nat /\ changes' \in Nat
      /\ opened <= opened' /\ changes <= changes'
  BY <1>1 DEF Shape
<1>3. Shape'
  BY <1>1, <1>2 DEF Shape
<1>4. Counted'
  <2> SUFFICES ASSUME NEW e \in Data, NEW way \in Ways
               PROVE  pending[e][way] + queued[e][way] + Running(e, way)
                        <= changes'
    BY <1>1 DEF Counted, Running
  <2>1. /\ pending[e][way] \in Nat /\ queued[e][way] \in Nat
        /\ Running(e, way) \in {0, 1}
        /\ pending[e][way] + queued[e][way] + Running(e, way) <= changes
    BY WaitsAreNat DEF Counted, Running
  <2> QED
    BY <1>2, <2>1
<1>5. Fresh'
  <2> SUFFICES ASSUME NEW d \in Data, d > opened'
               PROVE  fd[d] = None
    BY <1>1 DEF Fresh
  <2>1. d \in Nat /\ d > opened
    BY <1>2
  <2> QED
    BY <2>1 DEF Fresh
<1>6. MapIsOpen' /\ FlagsAreWanted'
  <2>1. MapIsOpen'
    BY <1>1 DEF MapIsOpen
  <2>2. FlagsAreWanted'
    <3> SUFFICES ASSUME NEW m \in Fds
                 PROVE  /\ sockets[m] = None => m \in strangers' \/ wanted'[m] = {}
                        /\ sockets[m] # None => wanted'[m] = wait_flags[sockets[m]]
      BY <1>1 DEF FlagsAreWanted
    <3>1. CASE m = n
      BY <1>1, <3>1
    <3>2. CASE m # n
      BY <1>1, <3>2 DEF FlagsAreWanted
    <3> QED
      BY <3>1, <3>2
  <2> QED
    BY <2>1, <2>2
<1>7. ClosedIsSilent' /\ TimersCounted' /\ TimeoutKept'
  BY <1>1 DEF ClosedIsSilent, TimersCounted, TimeoutKept
<1>8. InterestKept'
  <2> SUFFICES ASSUME NEW m \in Fds \ strangers', NEW way \in wanted'[m]
               PROVE  \/ pending[sockets[m]][way] + queued[sockets[m]][way] > 0
                      \/ task = Handler(sockets[m], way)
    BY <1>1 DEF InterestKept, Waiting
  <2>1. m # n
    BY <1>1
  <2>2. m \in Fds \ strangers /\ way \in wanted[m]
    BY <1>1, <2>1
  <2> QED
    BY <2>2 DEF InterestKept, Waiting
<1> QED
  BY <1>3, <1>4, <1>5, <1>6, <1>7, <1>8

(* The timer, set, cleared and expired, leaves the sockets alone.          *)
LEMMA TimerIInv ==
  ASSUME IInv, SetTimer \/ ClearTimer \/ Expire
  PROVE  IInv'
<1> USE Constants DEF IInv
<1>1. UNCHANGED <<sockets, fd, strangers, wait_flags, pending, queued, wanted,
                  task, opened, changes>>
  BY DEF SetTimer, ClearTimer, Expire, held, waits, bounds
<1>2. /\ Counted' /\ Fresh' /\ MapIsOpen' /\ FlagsAreWanted'
      /\ ClosedIsSilent' /\ InterestKept'
  BY <1>1 DEF Counted, Running, Fresh, MapIsOpen, FlagsAreWanted,
    ClosedIsSilent, InterestKept, Waiting
<1>3. /\ expired \in Nat /\ timers \in Nat /\ timers <= MaxTimers
  BY DEF Shape
<1>4. /\ timeout' \in BOOLEAN /\ timer' \in BOOLEAN
      /\ expired' \in Nat /\ timers' \in 0 .. MaxTimers
      /\ TimersCounted' /\ TimeoutKept'
  <2>1. CASE SetTimer
    <3>1. timers' \in 0 .. MaxTimers /\ expired' \in Nat /\ TimersCounted'
      BY <1>3, <2>1 DEF SetTimer, TimersCounted
    <3>2. timeout' \in BOOLEAN /\ timer' \in BOOLEAN /\ TimeoutKept'
      BY <2>1 DEF SetTimer, TimeoutKept
    <3> QED
      BY <3>1, <3>2
  <2>2. CASE ClearTimer
    <3>1. timers' \in 0 .. MaxTimers /\ expired' \in Nat /\ TimersCounted'
      BY <1>3, <2>2 DEF ClearTimer, TimersCounted
    <3>2. timeout' \in BOOLEAN /\ timer' \in BOOLEAN /\ TimeoutKept'
      BY <2>2 DEF ClearTimer, TimeoutKept
    <3> QED
      BY <3>1, <3>2
  <2>3. CASE Expire
    <3>1. /\ timers' \in 0 .. MaxTimers /\ expired' \in Nat
          /\ expired' = expired + 1
      BY <1>3, <2>3 DEF Shape, Expire, clock
    <3>2. timeout' \in BOOLEAN /\ timer' \in BOOLEAN
      BY <2>3 DEF Shape, Expire
    <3>3. TimersCounted'
      BY <1>3, <2>3, <3>1 DEF Expire, TimersCounted
    <3>4. TimeoutKept'
      BY <1>3, <3>1 DEF TimeoutKept
    <3> QED
      BY <3>1, <3>2, <3>3, <3>4
  <2> QED
    BY <2>1, <2>2, <2>3
<1>5. Shape'
  BY <1>1, <1>4 DEF Shape
<1> QED
  BY <1>2, <1>4, <1>5

-----------------------------------------------------------------------------
(* Waits that move between under way, queued and running.                  *)
LEMMA FireIInv ==
  ASSUME IInv, NEW d \in Data, NEW way \in Ways, Fire(d, way)
  PROVE  IInv'
<1> USE Constants DEF IInv
<1>1. /\ pending[d][way] > 0
      /\ pending' = [pending EXCEPT ![d][way] = 0]
      /\ queued' = [queued EXCEPT ![d][way] = @ + pending[d][way]]
      /\ UNCHANGED <<sockets, fd, strangers, wait_flags, wanted, timeout,
                     timer, expired, timers, task, opened, changes>>
  BY DEF Fire, held, clock, bounds
<1>2. Shape'
  <2>1. pending' \in [Data -> [Ways -> Nat]]
    BY <1>1 DEF Shape
  <2>2. queued' \in [Data -> [Ways -> Nat]]
    <3>1. queued[d][way] + pending[d][way] \in Nat
      BY WaitsAreNat
    <3> QED
      BY <1>1, <3>1 DEF Shape
  <2> QED
    BY <1>1, <2>1, <2>2 DEF Shape
<1>3. \A e \in Data, w \in Ways :
        pending'[e][w] + queued'[e][w] = pending[e][w] + queued[e][w]
  <2> SUFFICES ASSUME NEW e \in Data, NEW w \in Ways
               PROVE  pending'[e][w] + queued'[e][w]
                        = pending[e][w] + queued[e][w]
    OBVIOUS
  <2>1. pending[e][w] \in Nat /\ queued[e][w] \in Nat
    BY WaitsAreNat
  <2>2. CASE e = d /\ w = way
    BY <1>1, <2>1, <2>2 DEF Shape
  <2>3. CASE ~(e = d /\ w = way)
    <3>1. pending'[e][w] = pending[e][w] /\ queued'[e][w] = queued[e][w]
      BY <1>1, <2>3 DEF Shape
    <3> QED
      BY <3>1
  <2> QED
    BY <2>2, <2>3
<1>4. Counted'
  BY <1>1, <1>3 DEF Counted, Running
<1>5. /\ Fresh' /\ MapIsOpen' /\ FlagsAreWanted'
      /\ TimersCounted' /\ TimeoutKept'
  BY <1>1 DEF Fresh, MapIsOpen, FlagsAreWanted, TimersCounted, TimeoutKept
<1>6. ClosedIsSilent'
  <2>1. fd[d] # None
    BY <1>1, NoWaitsType DEF ClosedIsSilent
  <2>2. \A e \in Data : e # d => pending'[e] = pending[e]
    BY <1>1 DEF Shape
  <2> QED
    BY <1>1, <2>1, <2>2 DEF ClosedIsSilent
<1>7. InterestKept'
  <2> SUFFICES ASSUME NEW n \in Fds \ strangers, NEW w \in wanted[n]
               PROVE  \/ pending'[sockets[n]][w] + queued'[sockets[n]][w] > 0
                      \/ task = Handler(sockets[n], w)
    BY <1>1 DEF InterestKept, Waiting
  <2>1. sockets[n] \in Data /\ w \in Ways
    BY DEF FlagsAreWanted, Shape
  <2> QED
    BY <1>3, <2>1 DEF InterestKept, Waiting
<1> QED
  BY <1>2, <1>4, <1>5, <1>6, <1>7

(* A handler leaves the queue; what is queued apart from it stays.         *)
Dequeue(d, way) == [queued EXCEPT ![d][way] = @ - 1]

LEMMA Dequeued ==
  ASSUME Shape, NEW d \in Data, NEW way \in Ways, queued[d][way] > 0,
         queued' = Dequeue(d, way)
  PROVE  /\ queued' \in [Data -> [Ways -> Nat]]
         /\ queued'[d][way] = queued[d][way] - 1
         /\ \A e \in Data, w \in Ways :
              e # d \/ w # way => queued'[e][w] = queued[e][w]
<1>1. queued[d][way] - 1 \in Nat
  BY WaitsAreNat
<1> QED
  BY <1>1 DEF Shape, Dequeue

LEMMA HandleSocketIInv ==
  ASSUME IInv, NEW d \in Data, NEW way \in Ways, HandleSocket(d, way)
  PROVE  IInv'
<1> USE Constants DEF IInv
<1>1. /\ task = NoTask /\ queued[d][way] > 0
      /\ queued' = Dequeue(d, way)
      /\ task' = Handler(d, way)
      /\ UNCHANGED <<sockets, fd, strangers, wait_flags, pending, wanted,
                     timeout, timer, expired, timers, opened, changes>>
  BY DEF HandleSocket, Idle, Dequeue, held, clock, bounds
<1>2. /\ queued' \in [Data -> [Ways -> Nat]]
      /\ queued'[d][way] = queued[d][way] - 1
      /\ \A e \in Data, w \in Ways :
           e # d \/ w # way => queued'[e][w] = queued[e][w]
  BY <1>1, Dequeued
<1>3. Shape'
  BY <1>1, <1>2, Tasks DEF Shape
<1>4. Counted'
  <2> SUFFICES ASSUME NEW e \in Data, NEW w \in Ways
               PROVE  pending[e][w] + queued'[e][w] + Running(e, w)'
                        <= changes
    BY <1>1 DEF Counted
  <2>1. /\ pending[e][w] \in Nat /\ queued[e][w] \in Nat /\ changes \in Nat
        /\ Running(e, w) = 0
        /\ pending[e][w] + queued[e][w] + Running(e, w) <= changes
    BY <1>1, WaitsAreNat, Tasks DEF Counted, Running, Shape
  <2>2. CASE e = d /\ w = way
    <3>1. Running(e, w)' = 1 /\ queued'[e][w] = queued[e][w] - 1
      BY <1>1, <1>2, <2>2 DEF Running
    <3> QED
      BY <2>1, <3>1
  <2>3. CASE e # d \/ w # way
    <3>1. Running(e, w)' = 0 /\ queued'[e][w] = queued[e][w]
      BY <1>1, <1>2, <2>3, Tasks DEF Running
    <3> QED
      BY <2>1, <3>1
  <2> QED
    BY <2>2, <2>3
<1>5. /\ Fresh' /\ MapIsOpen' /\ FlagsAreWanted' /\ ClosedIsSilent'
      /\ TimersCounted' /\ TimeoutKept'
  BY <1>1 DEF Fresh, MapIsOpen, FlagsAreWanted, ClosedIsSilent, TimersCounted,
    TimeoutKept
<1>6. InterestKept'
  <2> SUFFICES ASSUME NEW n \in Fds \ strangers, NEW w \in wanted[n]
               PROVE  \/ pending[sockets[n]][w] + queued'[sockets[n]][w] > 0
                      \/ Handler(d, way) = Handler(sockets[n], w)
    BY <1>1 DEF InterestKept, Waiting
  <2>1. sockets[n] \in Data /\ w \in Ways
    BY DEF FlagsAreWanted, Shape
  <2>2. pending[sockets[n]][w] + queued[sockets[n]][w] > 0
    BY <1>1, <2>1, Tasks DEF InterestKept, Waiting
  <2> QED
    BY <1>2, <2>1, <2>2
<1> QED
  BY <1>3, <1>4, <1>5, <1>6

LEMMA IgnoreSocketIInv ==
  ASSUME IInv, NEW d \in Data, NEW way \in Ways, IgnoreSocket(d, way)
  PROVE  IInv'
<1> USE Constants DEF IInv
<1>1. /\ queued[d][way] > 0 /\ way \notin wait_flags[d]
      /\ queued' = Dequeue(d, way)
      /\ UNCHANGED <<sockets, fd, strangers, wait_flags, pending, wanted,
                     timeout, timer, expired, timers, task, opened, changes>>
  BY DEF IgnoreSocket, StillWanted, Dequeue, held, clock, bounds
<1>2. /\ queued' \in [Data -> [Ways -> Nat]]
      /\ queued'[d][way] = queued[d][way] - 1
      /\ \A e \in Data, w \in Ways :
           e # d \/ w # way => queued'[e][w] = queued[e][w]
  BY <1>1, Dequeued
<1>3. Shape'
  BY <1>1, <1>2 DEF Shape
<1>4. Counted'
  <2> SUFFICES ASSUME NEW e \in Data, NEW w \in Ways
               PROVE  pending[e][w] + queued'[e][w] + Running(e, w) <= changes
    BY <1>1 DEF Counted, Running
  <2>1. /\ pending[e][w] \in Nat /\ queued[e][w] \in Nat /\ changes \in Nat
        /\ Running(e, w) \in {0, 1}
        /\ pending[e][w] + queued[e][w] + Running(e, w) <= changes
    BY WaitsAreNat DEF Counted, Running, Shape
  <2>2. queued'[e][w] = queued[e][w] \/ queued'[e][w] = queued[e][w] - 1
    BY <1>2
  <2> QED
    BY <2>1, <2>2
<1>5. /\ Fresh' /\ MapIsOpen' /\ FlagsAreWanted' /\ ClosedIsSilent'
      /\ TimersCounted' /\ TimeoutKept'
  BY <1>1 DEF Fresh, MapIsOpen, FlagsAreWanted, ClosedIsSilent, TimersCounted,
    TimeoutKept
<1>6. InterestKept'
  <2> SUFFICES ASSUME NEW n \in Fds \ strangers, NEW w \in wanted[n]
               PROVE  \/ pending[sockets[n]][w] + queued'[sockets[n]][w] > 0
                      \/ task = Handler(sockets[n], w)
    BY <1>1 DEF InterestKept, Waiting
  <2>1. /\ sockets[n] \in Data /\ w \in Ways
        /\ sockets[n] # d \/ w # way
    BY <1>1 DEF FlagsAreWanted, Shape
  <2> QED
    BY <1>2, <2>1 DEF InterestKept, Waiting
<1> QED
  BY <1>3, <1>4, <1>5, <1>6

(* What the handler stood for is under way again, or no longer wanted.     *)
LEMMA EndSocketIInv ==
  ASSUME IInv, EndSocket
  PROVE  IInv'
<1> USE Constants DEF IInv
<1> DEFINE d == task.data
           way == task.way
           again == {way} \cap wait_flags[d]
<1>1. /\ task \in Handlers /\ task' = NoTask
      /\ pending' = [pending EXCEPT ![d] = Monitored(d, again)]
      /\ UNCHANGED <<sockets, fd, strangers, wait_flags, queued, wanted,
                     timeout, timer, expired, timers, opened, changes>>
  BY DEF EndSocket, held, clock, bounds
<1>2. d \in Data /\ way \in Ways /\ task = Handler(d, way)
  BY <1>1, Tasks
<1>again. \A w \in Ways : w \in again <=> w = way /\ way \in wait_flags[d]
  BY <1>2
<1> HIDE DEF d, way, again
<1>3. /\ pending'[d] = Monitored(d, again)
      /\ \A e \in Data : e # d => pending'[e] = pending[e]
  BY <1>1, <1>2 DEF Shape
<1>4. Shape'
  <2>1. pending' \in [Data -> [Ways -> Nat]]
    BY <1>1, <1>2, MonitoredType DEF Shape
  <2> QED
    BY <1>1, <2>1 DEF Shape
<1>5. \A e \in Data, w \in Ways :
        /\ pending'[e][w] \in Nat
        /\ pending[e][w] <= pending'[e][w]
        /\ pending'[e][w] <= pending[e][w] + Running(e, w)
        /\ Running(e, w) \in {0, 1} /\ Running(e, w)' = 0
        /\ e = d /\ w = way /\ w \in wait_flags[d] => pending'[e][w] > 0
  <2> SUFFICES ASSUME NEW e \in Data, NEW w \in Ways
               PROVE
                 /\ pending'[e][w] \in Nat
                 /\ pending[e][w] <= pending'[e][w]
                 /\ pending'[e][w] <= pending[e][w] + Running(e, w)
                 /\ Running(e, w) \in {0, 1} /\ Running(e, w)' = 0
                 /\ e = d /\ w = way /\ w \in wait_flags[d]
                      => pending'[e][w] > 0
    OBVIOUS
  <2>1. pending'[e][w] \in Nat /\ pending[e][w] \in Nat
    BY <1>4, WaitsAreNat DEF Shape
  <2>2. Running(e, w) \in {0, 1} /\ Running(e, w)' = 0
    BY <1>1, Tasks DEF Running
  <2>3. \/ /\ pending'[e][w] = pending[e][w]
           /\ ~(e = d /\ w = way /\ w \in wait_flags[d])
        \/ /\ pending'[e][w] = pending[e][w] + 1
           /\ e = d /\ w = way
    BY <1>again, <1>2, <1>3, MonitoredType
  <2>4. e = d /\ w = way => Running(e, w) = 1
    BY <1>2 DEF Running
  <2> QED
    BY <2>1, <2>2, <2>3, <2>4
<1>6. Counted'
  <2> SUFFICES ASSUME NEW e \in Data, NEW w \in Ways
               PROVE  pending'[e][w] + queued[e][w] + Running(e, w)' <= changes
    BY <1>1 DEF Counted
  <2>1. /\ pending[e][w] \in Nat /\ queued[e][w] \in Nat /\ changes \in Nat
        /\ pending[e][w] + queued[e][w] + Running(e, w) <= changes
    BY WaitsAreNat DEF Counted, Shape
  <2> QED
    BY <1>5, <2>1
<1>7. Fresh' /\ MapIsOpen' /\ FlagsAreWanted' /\ TimersCounted' /\ TimeoutKept'
  BY <1>1 DEF Fresh, MapIsOpen, FlagsAreWanted, TimersCounted, TimeoutKept
<1>8. ClosedIsSilent'
  <2> SUFFICES ASSUME NEW e \in Data, fd[e] = None
               PROVE  wait_flags[e] = {} /\ pending'[e] = NoWaits
    BY <1>1 DEF ClosedIsSilent
  <2>1. wait_flags[e] = {} /\ pending[e] = NoWaits
    BY DEF ClosedIsSilent
  <2>2. CASE e = d
    <3>1. again = {}
      BY <2>1, <2>2 DEF again
    <3>2. \A w \in Ways : Monitored(d, again)[w] = 0
      BY <1>2, <2>1, <2>2, <3>1, MonitoredType, NoWaitsType
    <3>3. Monitored(d, again) = [w \in Ways |-> Monitored(d, again)[w]]
      BY <1>2, MonitoredType
    <3> QED
      BY <1>3, <2>1, <2>2, <3>2, <3>3 DEF NoWaits
  <2>3. CASE e # d
    BY <1>3, <2>1, <2>3
  <2> QED
    BY <2>2, <2>3
<1>9. InterestKept'
  <2> SUFFICES ASSUME NEW n \in Fds \ strangers, NEW w \in wanted[n]
               PROVE  pending'[sockets[n]][w] + queued[sockets[n]][w] > 0
    BY <1>1 DEF InterestKept, Waiting
  <2>1. /\ sockets[n] \in Data /\ w \in Ways /\ w \in wait_flags[sockets[n]]
    BY DEF FlagsAreWanted, Shape
  <2>2. queued[sockets[n]][w] \in Nat /\ pending[sockets[n]][w] \in Nat
    BY <2>1, WaitsAreNat
  <2>3. CASE sockets[n] = d /\ w = way
    <3>1. pending'[sockets[n]][w] > 0 /\ pending'[sockets[n]][w] \in Nat
      BY <1>5, <2>1, <2>3
    <3> QED
      BY <2>2, <3>1
  <2>4. CASE ~(sockets[n] = d /\ w = way)
    <3>1. task # Handler(sockets[n], w)
      <4> SUFFICES ASSUME Handler(d, way) = Handler(sockets[n], w)
                   PROVE  FALSE
        BY <1>2
      <4>1. d = sockets[n] /\ way = w
        BY <1>2, <2>1, SameHandler
      <4> QED
        BY <2>4, <4>1
    <3>2. pending[sockets[n]][w] + queued[sockets[n]][w] > 0
      BY <3>1 DEF InterestKept, Waiting
    <3>3. /\ pending[sockets[n]][w] <= pending'[sockets[n]][w]
          /\ pending'[sockets[n]][w] \in Nat
      BY <1>5, <2>1
    <3> QED
      BY <2>2, <3>2, <3>3
  <2> QED
    BY <2>3, <2>4
<1> QED
  BY <1>4, <1>6, <1>7, <1>8, <1>9

(* Tasks that are not a socket's.                                          *)
LEMMA OtherIInv ==
  ASSUME IInv, HandleTimer \/ BeginOther \/ EndOther
  PROVE  IInv'
<1> USE Constants DEF IInv
<1>1. /\ task \notin Handlers /\ task' \in {NoTask, TimerRun, OtherRun}
      /\ UNCHANGED <<sockets, fd, strangers, wait_flags, pending, queued,
                     wanted, timer, timers, opened, changes>>
  BY Tasks
  DEF HandleTimer, BeginOther, EndOther, Idle, held, waits, clock, bounds
<1>2. \A e \in Data, w \in Ways :
        task # Handler(e, w) /\ task' # Handler(e, w)
  BY <1>1, Tasks
<1>3. expired' \in Nat /\ timeout' \in BOOLEAN /\ TimersCounted' /\ TimeoutKept'
  <2>1. CASE HandleTimer
    <3>1. /\ expired > 0 /\ expired' = expired - 1
          /\ timeout' = (timeout /\ timer)
      BY <2>1 DEF HandleTimer
    <3>2. expired \in Nat /\ timers \in Nat
      BY DEF Shape
    <3>3. expired' \in Nat /\ TimersCounted'
      BY <1>1, <3>1, <3>2 DEF TimersCounted
    <3>4. timeout' \in BOOLEAN /\ TimeoutKept'
      BY <1>1, <3>1 DEF TimeoutKept
    <3> QED
      BY <3>3, <3>4
  <2>2. CASE BeginOther \/ EndOther
    BY <1>1, <2>2
    DEF BeginOther, EndOther, clock, Shape, TimersCounted, TimeoutKept
  <2> QED
    BY <2>1, <2>2
<1>4. Shape'
  BY <1>1, <1>3 DEF Shape
<1>5. Counted'
  BY <1>1, <1>2 DEF Counted, Running
<1>6. Fresh' /\ MapIsOpen' /\ FlagsAreWanted' /\ ClosedIsSilent'
  BY <1>1 DEF Fresh, MapIsOpen, FlagsAreWanted, ClosedIsSilent
<1>7. InterestKept'
  <2> SUFFICES ASSUME NEW n \in Fds \ strangers, NEW w \in wanted[n]
               PROVE  pending[sockets[n]][w] + queued[sockets[n]][w] > 0
    BY <1>1 DEF InterestKept, Waiting
  <2>1. sockets[n] \in Data /\ w \in Ways
    BY DEF FlagsAreWanted, Shape
  <2> QED
    BY <1>2, <2>1 DEF InterestKept, Waiting
<1> QED
  BY <1>3, <1>4, <1>5, <1>6, <1>7

-----------------------------------------------------------------------------
LEMMA NextIInv == IInv /\ [Next]_vars => IInv'
<1> SUFFICES ASSUME IInv, [Next]_vars PROVE IInv'
  OBVIOUS
<1>1. ASSUME NEW n \in Fds, Open(n) \/ Remove(n) \/ Close(n) PROVE IInv'
  BY <1>1, OpenIInv, RemoveIInv, CloseIInv
<1>8. ASSUME NEW n \in Fds, OpenItself(n) \/ RemoveUnknown(n) \/ CloseUnknown(n)
      PROVE  IInv'
  BY <1>8, StrangerIInv
<1>9. ASSUME NEW n \in Fds, NEW ways \in SUBSET Ways \ {{}},
             WatchUnknown(n, ways)
      PROVE  IInv'
  BY <1>9, StrangerIInv
<1>2. ASSUME NEW n \in Fds, NEW ways \in SUBSET Ways \ {{}}, Watch(n, ways)
      PROVE  IInv'
  BY <1>2, WatchIInv
<1>3. CASE SetTimer \/ ClearTimer \/ Expire
  BY <1>3, TimerIInv
<1>4. ASSUME NEW d \in Data, NEW way \in Ways,
             Fire(d, way) \/ HandleSocket(d, way) \/ IgnoreSocket(d, way)
      PROVE  IInv'
  BY <1>4, FireIInv, HandleSocketIInv, IgnoreSocketIInv
<1>5. CASE EndSocket
  BY <1>5, EndSocketIInv
<1>6. CASE HandleTimer \/ BeginOther \/ EndOther
  BY <1>6, OtherIInv
<1>7. CASE UNCHANGED vars
  BY <1>7 DEF vars, held, waits, clock, bounds, IInv, Shape, Counted, Running,
    Fresh, MapIsOpen, FlagsAreWanted, ClosedIsSilent, InterestKept, Waiting,
    TimersCounted, TimeoutKept
<1> QED
  BY <1>1, <1>2, <1>3, <1>4, <1>5, <1>6, <1>7, <1>8, <1>9 DEF Next

(* The strengthened invariant holds in every reachable state.              *)
THEOREM Invariance == Spec => []IInv
  BY InitIInv, NextIInv, PTL DEF Spec

(* All state has its type; in particular no way of a socket is waited for  *)
(* more often than cURL has asked for it.                                  *)
THEOREM TypeCorrect == Spec => []TypeOK
  BY TypeFromIInv, Invariance, PTL

(* Between tasks, every way that cURL wants of a socket opened through the *)
(* callback has a wait under way or a handler that will not be ignored.    *)
THEOREM InterestIsHeard == Spec => []NoLostInterest
<1>1. IInv => NoLostInterest
  <2> SUFFICES ASSUME IInv, task = NoTask, NEW n \in Fds \ strangers,
                      NEW way \in wanted[n]
               PROVE  /\ sockets[n] # None
                      /\ Waiting(sockets[n], way)
                      /\ way \in wait_flags[sockets[n]]
    BY DEF NoLostInterest, Idle
  <2>1. sockets[n] # None
    BY DEF IInv, FlagsAreWanted
  <2>2. /\ sockets[n] \in Data /\ way \in wait_flags[sockets[n]]
        /\ way \in Ways
    BY <2>1 DEF IInv, FlagsAreWanted, Shape
  <2> QED
    BY <2>1, <2>2, Tasks DEF IInv, InterestKept
<1> QED
  BY <1>1, Invariance, PTL

(* Between tasks, a timeout of cURL has a timer that is waited for or a    *)
(* handler that is about to run.                                           *)
THEOREM TimeoutIsHeard == Spec => []NoLostTimeout
<1>1. IInv => NoLostTimeout
  BY DEF IInv, TimeoutKept, NoLostTimeout
<1> QED
  BY <1>1, Invariance, PTL

(* The map holds the open sockets under their numbers, and no others.      *)
THEOREM MapIsRight == Spec => []MapIsOpen
<1>1. IInv => MapIsOpen
  BY DEF IInv
<1> QED
  BY <1>1, Invariance, PTL

(* A closed socket is waited for no more, and handlers still queued for it *)
(* find no flag set.                                                       *)
THEOREM ClosedStaysSilent == Spec => []ClosedIsSilent
<1>1. IInv => ClosedIsSilent
  BY DEF IInv
<1> QED
  BY <1>1, Invariance, PTL

(* cURL is told only of an open socket and of a way it wants just then,    *)
(* however late the handler runs and whoever has the number by then.       *)
THEOREM TruthIsTold == Spec => TellsTheTruth
<1>1. IInv /\ [Next]_vars =>
        [\A d \in Data, way \in Ways :
           HandleSocket(d, way) => fd[d] \in Fds /\ way \in wanted[fd[d]]]_vars
  <2> SUFFICES ASSUME IInv, NEW d \in Data, NEW way \in Ways,
                      HandleSocket(d, way)
               PROVE  fd[d] \in Fds /\ way \in wanted[fd[d]]
    OBVIOUS
  <2>1. way \in wait_flags[d]
    BY DEF HandleSocket, StillWanted
  <2>2. fd[d] # None
    BY <2>1 DEF IInv, ClosedIsSilent
  <2>3. fd[d] \in Fds /\ sockets[fd[d]] = d
    BY <2>2 DEF IInv, Shape, MapIsOpen
  <2>4. sockets[fd[d]] # None
    BY <2>3, Constants
  <2> QED
    BY <2>1, <2>3, <2>4, OwnNumber
<1> QED
  BY <1>1, Invariance, PTL DEF Spec, TellsTheTruth
=============================================================================
