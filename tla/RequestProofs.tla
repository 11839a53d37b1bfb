---------------------------- MODULE RequestProofs ----------------------------
(* Theorems about Request, for any calls, buffers and transfers.           *)
EXTENDS Request, Integers, FiniteSetTheorems, WellFoundedInduction, TLAPS

(***************************************************************************)
(* The inductive invariant.  That an abort hits its own transfer rests on  *)
(* three facts none of which is about aborts: what waits belongs to the    *)
(* transfer that runs (NoCarryOver), only a transfer that runs has a       *)
(* connection, and a transfer that was killed never runs again.            *)
(***************************************************************************)
Shape ==
  /\ status \in [Calls -> {"idle", "waiting"} \cup Results]
  /\ kind \in [Calls -> {"write", "abort"}]
  /\ during \in [Calls -> 0 .. MaxTransfers]
  /\ moved \in [Calls -> 0 .. MaxChunk]
  /\ send \in Calls \cup {None}
  /\ length \in Lengths \cup {0}
  /\ transfer \in 0 .. MaxTransfers
  /\ running \in BOOLEAN
  /\ connected \in BOOLEAN
  /\ uploading \in BOOLEAN
  /\ paused \in BOOLEAN
  /\ taken \in Nat
  /\ killed \subseteq 1 .. MaxTransfers

ConnectedIsRunning == connected => running
RunningIsCounted   == running => transfer # 0
KilledIsOver ==
  /\ \A t \in killed : t <= transfer
  /\ running => transfer \notin killed

(* Each write that succeeded moved a buffer of cURL at most.               *)
Succeeded == {c \in Calls : status[c] = "success"}
TakenBound == taken <= Cardinality(Succeeded) * MaxChunk

IInv ==
  /\ Shape
  /\ WaitingIsStored
  /\ NoCarryOver
  /\ NoLostWakeup
  /\ AbortEndsItsTransfer
  /\ ConnectedIsRunning
  /\ RunningIsCounted
  /\ KilledIsOver

(* No number of a call is the empty Function.                              *)
LEMMA NoneIsNoCall == None \notin Calls
  BY RequestAssumption DEF None, Calls

LEMMA InitIInv == Init => IInv
<1> SUFFICES ASSUME Init PROVE IInv
  OBVIOUS
<1>1. 0 \in 0 .. MaxTransfers /\ 0 \in 0 .. MaxChunk
  BY RequestAssumption
<1>2. Shape
  BY <1>1 DEF Init, Shape
<1> QED
  BY <1>2, NoneIsNoCall
  DEF Init, IInv, WaitingIsStored, NoCarryOver, NoLostWakeup,
      AbortEndsItsTransfer, ConnectedIsRunning, RunningIsCounted, KilledIsOver

-----------------------------------------------------------------------------
(* The effect of completing who waits.                                     *)
LEMMA InvokedEffect ==
  ASSUME Shape, WaitingIsStored, NEW result \in Results
  PROVE  /\ Invoked(result) \in [Calls -> {"idle", "waiting"} \cup Results]
         /\ \A c \in Calls : Invoked(result)[c] =
              IF send = c THEN result ELSE status[c]
         /\ \A c \in Calls : Invoked(result)[c] # "waiting"
  BY NoneIsNoCall DEF Invoked, Shape, WaitingIsStored, Results

(* The program's calls.                                                    *)
LEMMA CallIInv ==
  ASSUME IInv, NEW c \in Calls,
         \/ WriteRefused(c)
         \/ \E size \in Lengths : WriteWaits(c, size)
         \/ WriteNotConnected(c)
         \/ AbortWaits(c)
         \/ AbortNotConnected(c)
         \/ Cancel(c)
  PROVE  IInv'
<1> USE NoneIsNoCall, RequestAssumption DEF IInv
<1>1. CASE WriteRefused(c)
  BY <1>1 DEF WriteRefused, New, handler, curl, Shape, WaitingIsStored,
    NoCarryOver, NoLostWakeup, AbortEndsItsTransfer, ConnectedIsRunning,
    RunningIsCounted, KilledIsOver, Results
<1>2. ASSUME NEW size \in Lengths, WriteWaits(c, size) PROVE IInv'
  <2>1. /\ status[c] = "idle" /\ send = None /\ connected
        /\ status' = [status EXCEPT ![c] = "waiting"]
        /\ kind' = [kind EXCEPT ![c] = "write"]
        /\ during' = [during EXCEPT ![c] = transfer]
        /\ send' = c /\ length' = size /\ paused' = FALSE
        /\ UNCHANGED <<moved, transfer, running, connected, uploading, taken,
                       killed>>
    BY <1>2 DEF WriteWaits, New, Store
  <2>2. Shape'
    BY <2>1 DEF Shape
  <2>3. WaitingIsStored' /\ NoLostWakeup'
    BY <2>1 DEF Shape, WaitingIsStored, NoLostWakeup
  <2>4. NoCarryOver' /\ AbortEndsItsTransfer'
    BY <2>1 DEF Shape, NoCarryOver, AbortEndsItsTransfer, ConnectedIsRunning
  <2>5. ConnectedIsRunning' /\ RunningIsCounted' /\ KilledIsOver'
    BY <2>1 DEF ConnectedIsRunning, RunningIsCounted, KilledIsOver
  <2> QED
    BY <2>2, <2>3, <2>4, <2>5
<1>3. CASE WriteNotConnected(c)
  BY <1>3 DEF WriteNotConnected, New, handler, curl, Shape, WaitingIsStored,
    NoCarryOver, NoLostWakeup, AbortEndsItsTransfer, ConnectedIsRunning,
    RunningIsCounted, KilledIsOver, Results
<1>4. CASE AbortWaits(c)
  <2>1. /\ Invoked("aborted") \in [Calls -> {"idle", "waiting"} \cup Results]
        /\ \A d \in Calls : Invoked("aborted")[d] =
             IF send = d THEN "aborted" ELSE status[d]
        /\ \A d \in Calls : Invoked("aborted")[d] # "waiting"
    BY InvokedEffect DEF Results
  <2>2. /\ status' = [Invoked("aborted") EXCEPT ![c] = "waiting"]
        /\ send' = c /\ length' = 0 /\ paused' = FALSE /\ connected
        /\ kind' = [kind EXCEPT ![c] = "abort"]
        /\ during' = [during EXCEPT ![c] = transfer]
        /\ status[c] = "idle"
        /\ UNCHANGED <<moved, transfer, running, connected, uploading, taken,
                       killed>>
    BY <1>4 DEF AbortWaits, New, Store
  <2> QED
    BY <2>1, <2>2 DEF Shape, WaitingIsStored, NoCarryOver, NoLostWakeup,
      AbortEndsItsTransfer, ConnectedIsRunning, RunningIsCounted, KilledIsOver
<1>5. CASE AbortNotConnected(c)
  <2>1. /\ Invoked("aborted") \in [Calls -> {"idle", "waiting"} \cup Results]
        /\ \A d \in Calls : Invoked("aborted")[d] =
             IF send = d THEN "aborted" ELSE status[d]
        /\ \A d \in Calls : Invoked("aborted")[d] # "waiting"
    BY InvokedEffect DEF Results
  <2>2. /\ status' = [Invoked("aborted") EXCEPT ![c] = "error"]
        /\ send' = None /\ length' = 0
        /\ kind' = [kind EXCEPT ![c] = "abort"]
        /\ during' = [during EXCEPT ![c] = transfer]
        /\ status[c] = "idle"
        /\ UNCHANGED <<moved, curl>>
    BY <1>5 DEF AbortNotConnected, New, Reset
  <2> QED
    BY <2>1, <2>2 DEF Shape, WaitingIsStored, NoCarryOver, NoLostWakeup,
      AbortEndsItsTransfer, ConnectedIsRunning, RunningIsCounted, KilledIsOver,
      Results, curl
<1>6. CASE Cancel(c)
  BY <1>6, InvokedEffect DEF Cancel, Reset, curl, Shape, WaitingIsStored,
    NoCarryOver, NoLostWakeup, AbortEndsItsTransfer, ConnectedIsRunning,
    RunningIsCounted, KilledIsOver, Results
<1> QED
  BY <1>1, <1>2, <1>3, <1>4, <1>5, <1>6

(* cURL and the session, except the read callback with a waiting call.     *)
LEMMA TransferIInv ==
  ASSUME IInv,
         Start \/ Connect \/ Redirect \/ Finish \/ ReadPauses
           \/ ResumedByReader \/ UNCHANGED vars
  PROVE  IInv'
<1> USE NoneIsNoCall, RequestAssumption DEF IInv
<1>1. CASE Start
  BY <1>1 DEF Start, calls, handler, Shape, WaitingIsStored, NoCarryOver,
    NoLostWakeup, AbortEndsItsTransfer, ConnectedIsRunning, RunningIsCounted,
    KilledIsOver
<1>2. CASE Connect \/ Redirect \/ ReadPauses \/ ResumedByReader
  <2>1. /\ UNCHANGED <<calls, handler, transfer, running, taken, killed>>
        /\ connected' \in BOOLEAN /\ uploading' \in BOOLEAN /\ paused' \in BOOLEAN
    BY <1>2 DEF Connect, Redirect, ReadPauses, ResumedByReader, Shape
  <2>2. connected' => running
    BY <1>2 DEF Connect, Redirect, ReadPauses, ResumedByReader,
      ConnectedIsRunning
  <2>3. send # None => ~paused'
    BY <1>2 DEF Connect, Redirect, ReadPauses, ResumedByReader, NoLostWakeup
  <2>4. Shape'
    BY <2>1 DEF calls, handler, Shape
  <2>5. WaitingIsStored' /\ NoCarryOver' /\ AbortEndsItsTransfer'
    BY <2>1 DEF calls, handler, WaitingIsStored, NoCarryOver,
      AbortEndsItsTransfer
  <2>6. NoLostWakeup'
    BY <2>1, <2>3 DEF handler, NoLostWakeup
  <2>7. ConnectedIsRunning' /\ RunningIsCounted' /\ KilledIsOver'
    BY <2>1, <2>2 DEF ConnectedIsRunning, RunningIsCounted, KilledIsOver
  <2> QED
    BY <2>4, <2>5, <2>6, <2>7
<1>3. CASE Finish
  BY <1>3, InvokedEffect DEF Finish, Leave, Reset, Shape, WaitingIsStored,
    NoCarryOver, NoLostWakeup, AbortEndsItsTransfer, ConnectedIsRunning,
    RunningIsCounted, KilledIsOver, Results
<1>4. CASE UNCHANGED vars
  BY <1>4 DEF vars, calls, handler, curl, Shape, WaitingIsStored, NoCarryOver,
    NoLostWakeup, AbortEndsItsTransfer, ConnectedIsRunning, RunningIsCounted,
    KilledIsOver
<1> QED
  BY <1>1, <1>2, <1>3, <1>4

(* _read_callback with a waiting call.                                     *)
LEMMA ReadIInv ==
  ASSUME IInv, (\E room \in 1 .. MaxChunk : ReadTakes(room)) \/ ReadAborts
  PROVE  IInv'
<1> USE NoneIsNoCall, RequestAssumption DEF IInv
<1>0. /\ Invoked("success") \in [Calls -> {"idle", "waiting"} \cup Results]
      /\ \A d \in Calls : Invoked("success")[d] =
           IF send = d THEN "success" ELSE status[d]
      /\ \A d \in Calls : Invoked("success")[d] # "waiting"
  BY InvokedEffect DEF Results
<1>1. ASSUME NEW room \in 1 .. MaxChunk, ReadTakes(room) PROVE IInv'
  <2>1. /\ send \in Calls /\ kind[send] = "write" /\ connected
        /\ status' = Invoked("success")
        /\ moved' = [moved EXCEPT ![send] = Copied(room)]
        /\ taken' = taken + Copied(room)
        /\ uploading' \in BOOLEAN
        /\ send' = None /\ length' = 0
        /\ UNCHANGED <<kind, during, transfer, running, connected, paused,
                       killed>>
    BY <1>1 DEF ReadTakes, Reading, Returned, Reset, Shape
  <2>2. Copied(room) \in 0 .. MaxChunk
    BY DEF Copied, Shape
  <2>3. Shape'
    BY <1>0, <2>1, <2>2 DEF Shape
  <2>4. WaitingIsStored' /\ NoCarryOver' /\ NoLostWakeup'
    BY <1>0, <2>1 DEF WaitingIsStored, NoCarryOver, NoLostWakeup
  <2>5. AbortEndsItsTransfer'
    BY <1>0, <2>1 DEF AbortEndsItsTransfer, Shape
  <2>6. ConnectedIsRunning' /\ RunningIsCounted' /\ KilledIsOver'
    BY <2>1 DEF ConnectedIsRunning, RunningIsCounted, KilledIsOver
  <2> QED
    BY <2>3, <2>4, <2>5, <2>6
<1>2. CASE ReadAborts
  <2>1. /\ send \in Calls /\ connected /\ running /\ transfer # 0
        /\ during[send] = transfer
        /\ status' = Invoked("success")
        /\ killed' = killed \cup {transfer}
        /\ send' = None /\ length' = 0
        /\ running' = FALSE /\ connected' = FALSE
        /\ uploading' = FALSE /\ paused' = FALSE
        /\ UNCHANGED <<kind, during, moved, transfer, taken>>
    BY <1>2 DEF ReadAborts, Reading, Leave, Reset, Shape, ConnectedIsRunning,
      RunningIsCounted, NoCarryOver
  <2>2. Shape'
    <3>1. transfer \in 1 .. MaxTransfers
      BY <2>1 DEF Shape
    <3>2. killed' \subseteq 1 .. MaxTransfers
      BY <2>1, <3>1 DEF Shape
    <3> QED
      BY <1>0, <2>1, <3>2 DEF Shape
  <2>3. WaitingIsStored' /\ NoCarryOver' /\ NoLostWakeup'
    BY <1>0, <2>1 DEF WaitingIsStored, NoCarryOver, NoLostWakeup
  <2>4. AbortEndsItsTransfer'
    BY <1>0, <2>1 DEF AbortEndsItsTransfer
  <2>5. ConnectedIsRunning' /\ RunningIsCounted' /\ KilledIsOver'
    BY <2>1 DEF ConnectedIsRunning, RunningIsCounted, KilledIsOver, Shape
  <2> QED
    BY <2>2, <2>3, <2>4, <2>5
<1> QED
  BY <1>1, <1>2

LEMMA NextIInv == IInv /\ [Next]_vars => IInv'
  BY CallIInv, TransferIInv, ReadIInv DEF Next

(* Every behaviour keeps the inductive invariant.                          *)
THEOREM Invariance == Spec => []IInv
  BY InitIInv, NextIInv, PTL DEF Spec

-----------------------------------------------------------------------------
(* What cURL has read is bounded by the writes that succeeded.             *)

LEMMA CallsAreFinite == IsFiniteSet(Calls) /\ Cardinality(Calls) = MaxCalls
<1>1. MaxCalls \in Nat /\ 1 \in Int /\ MaxCalls \in Int
  BY RequestAssumption
<1>2. /\ IsFiniteSet(1 .. MaxCalls)
      /\ Cardinality(1 .. MaxCalls) = IF 1 > MaxCalls THEN 0 ELSE MaxCalls - 1 + 1
  BY <1>1, FS_Interval
<1> QED
  BY <1>1, <1>2 DEF Calls

LEMMA SucceededIsFinite ==
  ASSUME NEW s \in SUBSET Calls
  PROVE  /\ IsFiniteSet(s)
         /\ Cardinality(s) \in Nat
         /\ Cardinality(s) <= MaxCalls
<1>1. IsFiniteSet(s) /\ Cardinality(s) <= Cardinality(Calls)
  BY CallsAreFinite, FS_Subset
<1>2. Cardinality(s) \in Nat
  BY <1>1, FS_CardinalityType
<1> QED
  BY <1>1, <1>2, CallsAreFinite

(* The products that occur, by themselves.                                 *)
LEMMA Products ==
  ASSUME NEW chunk \in Nat, NEW k \in Nat, NEW m \in Nat, k <= m
  PROVE  /\ k * chunk \in Nat
         /\ k * chunk <= m * chunk
         /\ (k + 1) * chunk = k * chunk + chunk
<1>1. k * chunk \in Nat /\ (k + 1) * chunk = k * chunk + chunk
  BY SMT
<1>2. \E d \in Nat : m = k + d
  <2>1. m - k \in Nat /\ m = k + (m - k)
    OBVIOUS
  <2> QED
    BY <2>1
<1>3. PICK d \in Nat : m = k + d
  BY <1>2
<1>4. m * chunk = k * chunk + d * chunk /\ d * chunk \in Nat
  BY <1>3, SMT
<1> QED
  BY <1>1, <1>4

LEMMA TakenStep == IInv /\ TakenBound /\ [Next]_vars => TakenBound'
<1> SUFFICES ASSUME IInv, TakenBound, [Next]_vars PROVE TakenBound'
  OBVIOUS
<1> USE DEF IInv
<1>1. /\ MaxChunk \in Nat /\ taken \in Nat
      /\ Cardinality(Succeeded) \in Nat /\ IsFiniteSet(Succeeded)
      /\ Cardinality(Succeeded') \in Nat /\ IsFiniteSet(Succeeded')
  BY RequestAssumption, SucceededIsFinite DEF Shape, Succeeded
<1>2. ASSUME NEW room \in 1 .. MaxChunk, ReadTakes(room) PROVE TakenBound'
  <2>1. /\ send \in Calls /\ status[send] = "waiting"
        /\ taken' = taken + Copied(room)
        /\ status' = [status EXCEPT ![send] = "success"]
    BY <1>2, NoneIsNoCall
    DEF ReadTakes, Returned, Invoked, WaitingIsStored, Shape
  <2>2. Copied(room) \in 0 .. MaxChunk
    BY RequestAssumption DEF Copied, Shape
  <2>3. send \notin Succeeded /\ Succeeded' = Succeeded \cup {send}
    BY <2>1 DEF Succeeded, Shape
  <2>4. Cardinality(Succeeded') = Cardinality(Succeeded) + 1
    BY <1>1, <2>3, FS_AddElement
  <2>5. (Cardinality(Succeeded) + 1) * MaxChunk
          = Cardinality(Succeeded) * MaxChunk + MaxChunk
    BY <1>1, Products
  <2>6. Cardinality(Succeeded) * MaxChunk \in Nat
    BY <1>1, Products
  <2> QED
    BY <1>1, <2>1, <2>2, <2>4, <2>5, <2>6 DEF TakenBound
<1>3. CASE Start
  <2>1. Cardinality(Succeeded') * MaxChunk \in Nat
    BY <1>1, Products
  <2> QED
    BY <1>3, <2>1 DEF Start, TakenBound
<1>4. ASSUME taken' = taken,
             \A c \in Calls : status[c] = "success" => status'[c] = "success"
      PROVE  TakenBound'
  <2>1. Succeeded \subseteq Succeeded'
    BY <1>4 DEF Succeeded
  <2>2. Cardinality(Succeeded) <= Cardinality(Succeeded')
    BY <1>1, <2>1, FS_Subset
  <2>3. /\ Cardinality(Succeeded) * MaxChunk
             <= Cardinality(Succeeded') * MaxChunk
        /\ Cardinality(Succeeded) * MaxChunk \in Nat
        /\ Cardinality(Succeeded') * MaxChunk \in Nat
    BY <1>1, <2>2, Products
  <2> QED
    BY <1>1, <1>4, <2>3 DEF TakenBound
<1>5. ASSUME NEW c \in Calls,
             \/ WriteRefused(c)
             \/ \E size \in Lengths : WriteWaits(c, size)
             \/ WriteNotConnected(c)
             \/ AbortWaits(c)
             \/ AbortNotConnected(c)
             \/ Cancel(c)
      PROVE  TakenBound'
  <2>1. taken' = taken
    BY <1>5 DEF WriteRefused, WriteWaits, WriteNotConnected, AbortWaits,
      AbortNotConnected, Cancel, curl
  <2>2. \A d \in Calls : status[d] = "success" => status'[d] = "success"
    BY <1>5, NoneIsNoCall DEF WriteRefused, WriteWaits, WriteNotConnected, AbortWaits,
      AbortNotConnected, Cancel, New, Invoked, WaitingIsStored, Shape
  <2> QED
    BY <1>4, <2>1, <2>2
<1>6. CASE Connect \/ Redirect \/ Finish \/ ReadPauses \/ ReadAborts
             \/ ResumedByReader \/ UNCHANGED vars
  <2>1. taken' = taken
    BY <1>6 DEF Connect, Redirect, Finish, ReadPauses, ReadAborts, Leave,
      ResumedByReader, vars, curl
  <2>2. status' \in {status, Invoked("eof"), Invoked("success")}
    BY <1>6 DEF Connect, Redirect, Finish, ReadPauses, ReadAborts,
      ResumedByReader, vars, calls
  <2>3. \A d \in Calls : status[d] = "success" => status'[d] = "success"
    BY <2>2, NoneIsNoCall DEF Invoked, WaitingIsStored, Shape
  <2> QED
    BY <1>4, <2>1, <2>3
<1> QED
  BY <1>2, <1>3, <1>5, <1>6 DEF Next

LEMMA Bounded == Spec => []TakenBound
<1>1. Init => TakenBound
  <2> SUFFICES ASSUME Init PROVE TakenBound
    OBVIOUS
  <2>1. Cardinality(Succeeded) \in Nat /\ MaxChunk \in Nat
    BY RequestAssumption, SucceededIsFinite DEF Succeeded
  <2>2. Cardinality(Succeeded) * MaxChunk \in Nat
    BY <2>1, Products
  <2> QED
    BY <2>2 DEF Init, TakenBound
<1> QED
  BY <1>1, TakenStep, Invariance, PTL DEF Spec

(* Every variable stays in its domain; in particular cURL never reads more *)
(* than its buffer holds for each write of the program.                    *)
THEOREM TypeCorrect == Spec => []TypeOK
<1>1. IInv /\ TakenBound => TypeOK
  <2> SUFFICES ASSUME IInv, TakenBound PROVE TypeOK
    OBVIOUS
  <2>1. /\ Cardinality(Succeeded) \in Nat /\ Cardinality(Succeeded) <= MaxCalls
        /\ MaxChunk \in Nat /\ MaxCalls \in Nat /\ taken \in Nat
    BY RequestAssumption, SucceededIsFinite DEF IInv, Shape, Succeeded
  <2>2. /\ Cardinality(Succeeded) * MaxChunk <= MaxCalls * MaxChunk
        /\ Cardinality(Succeeded) * MaxChunk \in Nat
        /\ MaxCalls * MaxChunk \in Nat
    BY <2>1, Products
  <2>3. taken \in 0 .. MaxCalls * MaxChunk
    BY <2>1, <2>2 DEF TakenBound
  <2> QED
    BY <2>3 DEF IInv, Shape, TypeOK
<1> QED
  BY <1>1, Bounded, Invariance, PTL

(* No waiting write or abort is overwritten: _send_handler belongs to it.  *)
THEOREM NothingOverwritten == Spec => []WaitingIsStored
  BY Invariance, PTL DEF IInv

(* A request that is started again starts with nothing of its last         *)
(* transfer.                                                               *)
THEOREM FreshStart == Spec => []NoCarryOver
  BY Invariance, PTL DEF IInv

(* cURL is not paused while a call waits to send.                          *)
THEOREM SenderAwake == Spec => []NoLostWakeup
  BY Invariance, PTL DEF IInv

(* A successful abort has ended the transfer it was called for.            *)
THEOREM AbortHitsItsTransfer == Spec => []AbortEndsItsTransfer
  BY Invariance, PTL DEF IInv

-----------------------------------------------------------------------------
(***************************************************************************)
(* Sums.  MapThenSumSet is a recursive function chosen out of all values,  *)
(* so that it exists, is unique and adds up are theorems, by induction on  *)
(* the size of the set.  There is no smallest size for which one of them   *)
(* fails, and a set of naturals without a least element is empty.          *)
(***************************************************************************)

(* A nonempty set of numbers has a least one: where induction starts from. *)
LEMMA HasLeast ==
  ASSUME NEW Bad, Bad \subseteq Nat, Bad # {}
  PROVE  \E n \in Bad : \A m \in Bad : n <= m
<1>1. PICK n \in Bad : \A m \in Bad : <<m, n>> \notin OpToRel(<, Nat)
  BY WFMin, NatLessThanWellFounded, Zenon
<1>2. \A m \in Bad : ~(m < n)
  BY <1>1, Zenon DEF OpToRel
<1> QED
  BY <1>2

Pick(s) == CHOOSE x \in s : TRUE

(* What the recursive function behind MapThenSumSet satisfies.             *)
Sums(g, S, sum) ==
  sum = [s \in SUBSET S |->
           IF s = {} THEN 0 ELSE g[Pick(s)] + sum[s \ {Pick(s)}]]

LEMMA TotalIsSum ==
  ASSUME NEW g, NEW S
  PROVE  Total(g, S) = (CHOOSE sum : Sums(g, S, sum))[S]
  BY DEF Total, MapThenSumSet, MapThenFoldSet, Pick, Sums

LEMMA WithoutPick ==
  ASSUME NEW S, IsFiniteSet(S), NEW s \in SUBSET S, s # {}
  PROVE  /\ Pick(s) \in s
         /\ s \ {Pick(s)} \in SUBSET S
         /\ IsFiniteSet(s) /\ IsFiniteSet(s \ {Pick(s)})
         /\ Cardinality(s) \in Nat /\ Cardinality(s \ {Pick(s)}) \in Nat
         /\ Cardinality(s \ {Pick(s)}) = Cardinality(s) - 1
         /\ Cardinality(s) <= Cardinality(S)
<1>1. Pick(s) \in s
  BY DEF Pick
<1>2. IsFiniteSet(s) /\ Cardinality(s) <= Cardinality(S)
  BY FS_Subset
<1>3. /\ IsFiniteSet(s \ {Pick(s)})
      /\ Cardinality(s \ {Pick(s)}) = Cardinality(s) - 1
  BY <1>1, <1>2, FS_RemoveElement
<1> QED
  BY <1>1, <1>2, <1>3, FS_CardinalityType

LEMMA SumsAt ==
  ASSUME NEW g, NEW S, NEW sum, Sums(g, S, sum), NEW s \in SUBSET S
  PROVE  sum[s] = IF s = {} THEN 0 ELSE g[Pick(s)] + sum[s \ {Pick(s)}]
<1> DEFINE F(t) == IF t = {} THEN 0 ELSE g[Pick(t)] + sum[t \ {Pick(t)}]
<1>1. sum = [t \in SUBSET S |-> F(t)]
  BY DEF Sums
<1> HIDE DEF F
<1>2. sum[s] = F(s)
  BY <1>1
<1> QED
  BY <1>2 DEF F

(* It exists: it can be built for the subsets of any size.                 *)
LEMMA SumsExist ==
  ASSUME NEW g, NEW S, IsFiniteSet(S)
  PROVE  \E sum : Sums(g, S, sum)
<1> DEFINE Upto(n)    == {s \in SUBSET S : Cardinality(s) <= n}
           Is(h, n)   == h = [s \in Upto(n) |->
                               IF s = {} THEN 0
                               ELSE g[Pick(s)] + h[s \ {Pick(s)}]]
           Bad        == {n \in Nat : ~ \E h : Is(h, n)}
<1>1. ASSUME Bad # {} PROVE FALSE
  <2>1. PICK n \in Bad : \A m \in Bad : n <= m
    BY <1>1, HasLeast
  <2>2. CASE n = 0
    <3>1. ASSUME NEW s \in Upto(0) PROVE s = {}
      <4>1. s \in SUBSET S /\ IsFiniteSet(s) /\ Cardinality(s) <= 0
        BY FS_Subset
      <4>2. Cardinality(s) = 0
        BY <4>1, FS_CardinalityType
      <4> QED
        BY <4>1, <4>2, FS_EmptySet
    <3> DEFINE h == [s \in Upto(0) |-> 0]
    <3>2. h = [s \in Upto(0) |-> IF s = {} THEN 0
                                 ELSE g[Pick(s)] + h[s \ {Pick(s)}]]
      BY <3>1
    <3> QED
      BY <2>1, <2>2, <3>2
  <2>3. CASE n # 0
    <3>1. n - 1 \in Nat /\ n - 1 \notin Bad
      <4>1. n \in Nat
        OBVIOUS
      <4> HIDE DEF Bad
      <4> QED
        BY <2>1, <2>3, <4>1
    <3>2. PICK h : Is(h, n - 1)
      BY <3>1
    <3> DEFINE k == [s \in Upto(n) |-> IF s = {} THEN 0
                                       ELSE g[Pick(s)] + h[s \ {Pick(s)}]]
    <3>3. ASSUME NEW t \in Upto(n - 1) PROVE t \in Upto(n) /\ k[t] = h[t]
      <4>1. t \in SUBSET S /\ Cardinality(t) <= n - 1
        OBVIOUS
      <4>2. Cardinality(t) \in Nat
        BY <4>1, FS_Subset, FS_CardinalityType
      <4>3. t \in Upto(n)
        BY <4>1, <4>2
      <4> DEFINE F(s) == IF s = {} THEN 0 ELSE g[Pick(s)] + h[s \ {Pick(s)}]
      <4>4. h = [s \in Upto(n - 1) |-> F(s)]
        BY <3>2
      <4>5. k = [s \in Upto(n) |-> F(s)]
        OBVIOUS
      <4> HIDE DEF F, k, Upto
      <4>6. h[t] = F(t)
        BY <4>4
      <4>7. k[t] = F(t)
        BY <4>3, <4>5
      <4> QED
        BY <4>3, <4>6, <4>7
    <3>4. ASSUME NEW s \in Upto(n), s # {}
          PROVE  s \ {Pick(s)} \in Upto(n - 1)
      <4>1. s \in SUBSET S /\ Cardinality(s) <= n
        OBVIOUS
      <4>2. /\ s \ {Pick(s)} \in SUBSET S
            /\ Cardinality(s) \in Nat
            /\ Cardinality(s \ {Pick(s)}) = Cardinality(s) - 1
        BY <3>4, <4>1, WithoutPick
      <4>3. n \in Nat
        OBVIOUS
      <4> QED
        BY <4>1, <4>2, <4>3
    <3>5. Is(k, n)
      BY <3>3, <3>4
    <3> QED
      BY <2>1, <3>5
  <2> QED
    BY <2>2, <2>3
<1>2. Cardinality(S) \in Nat
  BY FS_CardinalityType
<1>3. PICK h : Is(h, Cardinality(S))
  BY <1>1, <1>2
<1>4. Upto(Cardinality(S)) = SUBSET S
  BY FS_Subset
<1> QED
  BY <1>3, <1>4 DEF Sums

(* It is unique, also on the subsets of a subset.                          *)
LEMMA SumsAgree ==
  ASSUME NEW g, NEW S, IsFiniteSet(S), NEW T \in SUBSET S,
         NEW f, Sums(g, S, f), NEW h, Sums(g, T, h)
  PROVE  f[T] = h[T]
<1> DEFINE Bad == {n \in Nat : \E s \in SUBSET T :
                                 Cardinality(s) = n /\ f[s] # h[s]}
<1>1. ASSUME Bad # {} PROVE FALSE
  <2>1. PICK n \in Bad : \A m \in Bad : n <= m
    BY <1>1, HasLeast
  <2>2. PICK s \in SUBSET T : Cardinality(s) = n /\ f[s] # h[s]
    BY <2>1
  <2>3. s \in SUBSET S
    BY <2>2
  <2>4. CASE s = {}
    BY <2>2, <2>3, <2>4, SumsAt
  <2>5. CASE s # {}
    <3> DEFINE t == s \ {Pick(s)}
    <3>1. /\ t \in SUBSET T
          /\ Cardinality(t) \in Nat /\ Cardinality(s) \in Nat
          /\ Cardinality(t) = Cardinality(s) - 1
      <4>1. IsFiniteSet(T)
        BY FS_Subset
      <4> QED
        BY <2>5, <4>1, WithoutPick
    <3>2. Cardinality(t) \notin Bad
      <4>1. Cardinality(t) < n
        BY <2>2, <3>1
      <4>2. n \in Nat
        OBVIOUS
      <4> HIDE DEF Bad, t
      <4> QED
        BY <2>1, <3>1, <4>1, <4>2
    <3>3. f[t] = h[t]
      BY <3>1, <3>2
    <3> HIDE DEF t, Bad
    <3>4. f[s] = g[Pick(s)] + f[t]
      BY <2>3, <2>5, SumsAt DEF t
    <3>5. h[s] = g[Pick(s)] + h[t]
      BY <2>2, <2>5, SumsAt DEF t
    <3> QED
      BY <2>2, <3>3, <3>4, <3>5
  <2> QED
    BY <2>4, <2>5
<1>2. Cardinality(T) \in Nat
  BY FS_Subset, FS_CardinalityType
<1> QED
  BY <1>1, <1>2

(* So MapThenSumSet adds up its elements as one expects.                   *)
LEMMA TotalStep ==
  ASSUME NEW g, NEW S, IsFiniteSet(S)
  PROVE  Total(g, S) = IF S = {} THEN 0
                       ELSE g[Pick(S)] + Total(g, S \ {Pick(S)})
<1> DEFINE f == CHOOSE sum : Sums(g, S, sum)
<1>1. Sums(g, S, f)
  BY SumsExist
<1>2. f[S] = IF S = {} THEN 0 ELSE g[Pick(S)] + f[S \ {Pick(S)}]
  BY <1>1, SumsAt
<1>3. ASSUME S # {}
      PROVE  f[S \ {Pick(S)}] = Total(g, S \ {Pick(S)})
  <2> DEFINE T == S \ {Pick(S)}
             h == CHOOSE sum : Sums(g, T, sum)
  <2>1. T \in SUBSET S /\ IsFiniteSet(T)
    BY <1>3, WithoutPick
  <2>2. Sums(g, T, h)
    BY <2>1, SumsExist
  <2>3. f[T] = h[T]
    BY <1>1, <2>1, <2>2, SumsAgree
  <2> QED
    BY <2>3, TotalIsSum
<1> QED
  BY <1>2, <1>3, TotalIsSum

LEMMA TotalEmpty == ASSUME NEW g PROVE Total(g, {}) = 0
  BY TotalStep, FS_EmptySet

LEMMA TotalNat ==
  ASSUME NEW g, NEW S, IsFiniteSet(S), \A c \in S : g[c] \in Nat
  PROVE  Total(g, S) \in Nat
<1> DEFINE Bad == {n \in Nat : \E s \in SUBSET S :
                                 Cardinality(s) = n /\ Total(g, s) \notin Nat}
<1>1. ASSUME Bad # {} PROVE FALSE
  <2>1. PICK n \in Bad : \A m \in Bad : n <= m
    BY <1>1, HasLeast
  <2>2. PICK s \in SUBSET S : Cardinality(s) = n /\ Total(g, s) \notin Nat
    BY <2>1
  <2>3. s # {}
    BY <2>2, TotalEmpty
  <2> DEFINE t == s \ {Pick(s)}
  <2>4. /\ Pick(s) \in S /\ t \in SUBSET S
        /\ IsFiniteSet(s)
        /\ Cardinality(t) \in Nat /\ Cardinality(t) < n
    <3>1. /\ Pick(s) \in s /\ t \in SUBSET S
          /\ IsFiniteSet(s)
          /\ Cardinality(s) \in Nat /\ Cardinality(t) \in Nat
          /\ Cardinality(t) = Cardinality(s) - 1
      BY <2>3, WithoutPick
    <3> QED
      BY <2>2, <3>1
  <2>5. Cardinality(t) \notin Bad
    <3>1. n \in Nat
      OBVIOUS
    <3> HIDE DEF Bad, t
    <3> QED
      BY <2>1, <2>4, <3>1
  <2>6. Total(g, t) \in Nat
    BY <2>4, <2>5
  <2>7. Total(g, s) = g[Pick(s)] + Total(g, t)
    BY <2>3, <2>4, TotalStep
  <2> QED
    BY <2>2, <2>4, <2>6, <2>7
<1> QED
  BY <1>1, FS_CardinalityType

(* ... whichever of them is taken first.                                   *)
LEMMA TotalWithout ==
  ASSUME NEW g, NEW S, IsFiniteSet(S), \A c \in S : g[c] \in Nat,
         NEW x \in S
  PROVE  Total(g, S) = g[x] + Total(g, S \ {x})
<1> DEFINE Bad == {n \in Nat : \E s \in SUBSET S : \E y \in s :
                     /\ Cardinality(s) = n
                     /\ Total(g, s) # g[y] + Total(g, s \ {y})}
<1>1. ASSUME Bad # {} PROVE FALSE
  <2>1. PICK n \in Bad : \A m \in Bad : n <= m
    BY <1>1, HasLeast
  <2>2. PICK s \in SUBSET S, y \in S :
          /\ y \in s
          /\ Cardinality(s) = n
          /\ Total(g, s) # g[y] + Total(g, s \ {y})
    BY <2>1
  <2> DEFINE p == Pick(s)
             t == s \ {p}
             u == s \ {y}
  <2>3. /\ p \in s /\ IsFiniteSet(s) /\ IsFiniteSet(t)
        /\ Cardinality(s) \in Nat /\ Cardinality(t) \in Nat
        /\ Cardinality(t) = Cardinality(s) - 1
    BY <2>2, WithoutPick
  <2>4. Total(g, s) = g[p] + Total(g, t)
    BY <2>2, <2>3, TotalStep
  <2>5. y # p
    BY <2>2, <2>4
  <2>6. IsFiniteSet(u) /\ Cardinality(u) = Cardinality(s) - 1
    BY <2>2, <2>3, FS_RemoveElement
  <2>7. n \in Nat /\ n - 1 \in Nat /\ n - 1 \notin Bad
    <3>1. n \in Nat
      OBVIOUS
    <3>2. n - 1 \in Nat
      BY <2>2, <2>3, <3>1
    <3> HIDE DEF Bad
    <3> QED
      BY <2>1, <3>1, <3>2
  <2>8. Total(g, t) = g[y] + Total(g, t \ {y})
    <3>1. t \in SUBSET S /\ y \in t /\ Cardinality(t) = n - 1
      BY <2>2, <2>3, <2>5
    <3> QED
      BY <2>7, <3>1
  <2>9. Total(g, u) = g[p] + Total(g, u \ {p})
    <3>1. u \in SUBSET S /\ p \in u /\ Cardinality(u) = n - 1
      BY <2>2, <2>3, <2>5, <2>6
    <3> QED
      BY <2>7, <3>1
  <2>10. t \ {y} = u \ {p}
    OBVIOUS
  <2>11. Total(g, t \ {y}) \in Nat
    <3>1. IsFiniteSet(t \ {y}) /\ \A c \in t \ {y} : g[c] \in Nat
      BY <2>2, <2>3, FS_Subset
    <3> QED
      BY <3>1, TotalNat
  <2>12. g[p] \in Nat /\ g[y] \in Nat
    BY <2>2, <2>3
  <2>13. Total(g, s) # g[y] + Total(g, u)
    BY <2>2
  <2> HIDE DEF t, u, p
  <2> QED
    BY <2>4, <2>8, <2>9, <2>10, <2>11, <2>12, <2>13
<1> QED
  BY <1>1, FS_CardinalityType

(* It depends on the values in the set only.                               *)
LEMMA TotalSame ==
  ASSUME NEW g, NEW h, NEW S, IsFiniteSet(S), \A c \in S : g[c] = h[c]
  PROVE  Total(g, S) = Total(h, S)
<1> DEFINE Bad == {n \in Nat : \E s \in SUBSET S :
                                 Cardinality(s) = n /\ Total(g, s) # Total(h, s)}
<1>1. ASSUME Bad # {} PROVE FALSE
  <2>1. PICK n \in Bad : \A m \in Bad : n <= m
    BY <1>1, HasLeast
  <2>2. PICK s \in SUBSET S : Cardinality(s) = n /\ Total(g, s) # Total(h, s)
    BY <2>1
  <2>3. s # {}
    BY <2>2, TotalEmpty
  <2> DEFINE t == s \ {Pick(s)}
  <2>4. /\ Pick(s) \in S /\ t \in SUBSET S
        /\ IsFiniteSet(s)
        /\ Cardinality(t) \in Nat /\ Cardinality(t) < n
    <3>1. /\ Pick(s) \in s /\ t \in SUBSET S
          /\ IsFiniteSet(s)
          /\ Cardinality(s) \in Nat /\ Cardinality(t) \in Nat
          /\ Cardinality(t) = Cardinality(s) - 1
      BY <2>3, WithoutPick
    <3> QED
      BY <2>2, <3>1
  <2>5. Cardinality(t) \notin Bad
    <3>1. n \in Nat
      OBVIOUS
    <3> HIDE DEF Bad, t
    <3> QED
      BY <2>1, <2>4, <3>1
  <2>6. Total(g, t) = Total(h, t)
    BY <2>4, <2>5
  <2>7. /\ Total(g, s) = g[Pick(s)] + Total(g, t)
        /\ Total(h, s) = h[Pick(s)] + Total(h, t)
    BY <2>3, <2>4, TotalStep
  <2> QED
    BY <2>2, <2>4, <2>6, <2>7
<1> QED
  BY <1>1, FS_CardinalityType

(* If one value changes, so does the sum.                                  *)
LEMMA TotalChanged ==
  ASSUME NEW g, NEW h, NEW S, IsFiniteSet(S), NEW x \in S,
         \A c \in S : g[c] \in Nat /\ h[c] \in Nat,
         \A c \in S : c # x => h[c] = g[c]
  PROVE  Total(h, S) + g[x] = Total(g, S) + h[x]
<1> DEFINE rest == S \ {x}
<1>1. IsFiniteSet(rest) /\ \A c \in rest : h[c] = g[c] /\ g[c] \in Nat
  BY FS_RemoveElement
<1>2. Total(g, S) = g[x] + Total(g, rest) /\ Total(h, S) = h[x] + Total(h, rest)
  BY TotalWithout
<1>3. Total(h, rest) = Total(g, rest) /\ Total(g, rest) \in Nat
  BY <1>1, TotalSame, TotalNat
<1> HIDE DEF rest
<1> QED
  BY <1>2, <1>3

(* Nothing but zeros add up to nothing.                                    *)
LEMMA TotalNothing ==
  ASSUME NEW g, NEW S, IsFiniteSet(S), \A c \in S : g[c] = 0
  PROVE  Total(g, S) = 0
<1> DEFINE Bad == {n \in Nat : \E s \in SUBSET S :
                                 Cardinality(s) = n /\ Total(g, s) # 0}
<1>1. ASSUME Bad # {} PROVE FALSE
  <2>1. PICK n \in Bad : \A m \in Bad : n <= m
    BY <1>1, HasLeast
  <2>2. PICK s \in SUBSET S : Cardinality(s) = n /\ Total(g, s) # 0
    BY <2>1
  <2>3. s # {}
    BY <2>2, TotalEmpty
  <2> DEFINE t == s \ {Pick(s)}
  <2>4. /\ Pick(s) \in S /\ t \in SUBSET S
        /\ IsFiniteSet(s)
        /\ Cardinality(t) \in Nat /\ Cardinality(t) < n
    <3>1. /\ Pick(s) \in s /\ t \in SUBSET S
          /\ IsFiniteSet(s)
          /\ Cardinality(s) \in Nat /\ Cardinality(t) \in Nat
          /\ Cardinality(t) = Cardinality(s) - 1
      BY <2>3, WithoutPick
    <3> QED
      BY <2>2, <3>1
  <2>5. Cardinality(t) \notin Bad
    <3>1. n \in Nat
      OBVIOUS
    <3> HIDE DEF Bad, t
    <3> QED
      BY <2>1, <2>4, <3>1
  <2>6. Total(g, t) = 0 /\ g[Pick(s)] = 0
    BY <2>4, <2>5
  <2>7. Total(g, s) = g[Pick(s)] + Total(g, t)
    BY <2>3, <2>4, TotalStep
  <2> QED
    BY <2>2, <2>6, <2>7
<1> QED
  BY <1>1, FS_CardinalityType

-----------------------------------------------------------------------------
(***************************************************************************)
(* The bytes of a transfer.  The sum changes with the call that is read    *)
(* from only: a call that is made has moved nothing yet (MovedIsReported), *)
(* and a new transfer has no calls at all (DuringIsPast).                  *)
(***************************************************************************)
MovedIsReported == \A c \in Calls : moved[c] # 0 => status[c] = "success"
DuringIsPast    == \A c \in Calls : during[c] <= transfer

BytesInv == MovedIsReported /\ DuringIsPast /\ BytesAccounted

(* A call without bytes adds nothing.                                      *)
LEMMA TotalWith ==
  ASSUME NEW g, NEW S, IsFiniteSet(S), \A c \in S : g[c] \in Nat,
         NEW x, g[x] = 0
  PROVE  Total(g, S \cup {x}) = Total(g, S)
<1>1. CASE x \in S
  <2>1. S \cup {x} = S
    BY <1>1
  <2> QED
    BY <2>1
<1>2. CASE x \notin S
  <2> DEFINE T == S \cup {x}
  <2>1. IsFiniteSet(T) /\ (\A c \in T : g[c] \in Nat) /\ T \ {x} = S
    BY <1>2, FS_AddElement
  <2>2. Total(g, S) \in Nat
    BY TotalNat
  <2>3. Total(g, T) = g[x] + Total(g, T \ {x})
    BY <2>1, TotalWithout
  <2> QED
    BY <2>1, <2>2, <2>3
<1> QED
  BY <1>1, <1>2

LEMMA BytesStep == IInv /\ BytesInv /\ [Next]_vars => BytesInv'
<1> SUFFICES ASSUME IInv, BytesInv, [Next]_vars PROVE BytesInv'
  OBVIOUS
<1> USE DEF IInv, BytesInv
<1>0. /\ IsFiniteSet(OfTransfer)
      /\ \A c \in Calls : moved[c] \in Nat
      /\ \A c \in OfTransfer : moved[c] \in Nat
  BY RequestAssumption, SucceededIsFinite DEF OfTransfer, Shape
<1>1. ASSUME NEW room \in 1 .. MaxChunk, ReadTakes(room) PROVE BytesInv'
  <2>1. /\ send \in OfTransfer /\ status[send] = "waiting"
        /\ moved' = [moved EXCEPT ![send] = Copied(room)]
        /\ taken' = taken + Copied(room)
        /\ status' = [status EXCEPT ![send] = "success"]
        /\ UNCHANGED <<during, transfer>>
    BY <1>1, NoneIsNoCall
    DEF ReadTakes, Returned, Invoked, WaitingIsStored, NoCarryOver, Shape,
      OfTransfer
  <2>2. moved[send] = 0 /\ Copied(room) \in Nat
    BY <2>1, RequestAssumption
    DEF MovedIsReported, OfTransfer, Copied, Shape
  <2>3. MovedIsReported' /\ DuringIsPast'
    BY <2>1 DEF MovedIsReported, DuringIsPast, OfTransfer, Shape
  <2>4. /\ moved'[send] = Copied(room)
        /\ \A c \in OfTransfer : c # send => moved'[c] = moved[c]
        /\ \A c \in OfTransfer : moved'[c] \in Nat
    BY <1>0, <2>1, <2>2 DEF OfTransfer, Shape
  <2>5. Total(moved', OfTransfer) + moved[send]
          = Total(moved, OfTransfer) + moved'[send]
    <3>1. ASSUME NEW h, \A c \in OfTransfer : h[c] \in Nat,
                 \A c \in OfTransfer : c # send => h[c] = moved[c]
          PROVE  Total(h, OfTransfer) + moved[send]
                   = Total(moved, OfTransfer) + h[send]
      BY <1>0, <2>1, <3>1, TotalChanged
    <3> QED
      BY <2>4, <3>1
  <2>6. Total(moved, OfTransfer) \in Nat /\ Total(moved', OfTransfer) \in Nat
    BY <1>0, <2>4, TotalNat
  <2>7. OfTransfer' = OfTransfer
    BY <2>1 DEF OfTransfer
  <2>8. taken' = Total(moved', OfTransfer')
    BY <2>1, <2>2, <2>4, <2>5, <2>6, <2>7 DEF BytesAccounted
  <2> QED
    BY <2>3, <2>8 DEF BytesAccounted
<1>2. CASE Start
  <2>1. /\ transfer' = transfer + 1 /\ taken' = 0
        /\ UNCHANGED <<status, moved, during>>
    BY <1>2 DEF Start, calls
  <2>2. MovedIsReported' /\ DuringIsPast' /\ OfTransfer' = {}
    BY <2>1 DEF MovedIsReported, DuringIsPast, OfTransfer, Shape
  <2> QED
    BY <2>1, <2>2, TotalEmpty DEF BytesAccounted
<1>3. ASSUME NEW c \in Calls,
             \/ WriteRefused(c)
             \/ \E size \in Lengths : WriteWaits(c, size)
             \/ WriteNotConnected(c)
             \/ AbortWaits(c)
             \/ AbortNotConnected(c)
      PROVE  BytesInv'
  <2>1. /\ status[c] = "idle"
        /\ during' = [during EXCEPT ![c] = transfer]
        /\ UNCHANGED <<moved, transfer, taken>>
    BY <1>3 DEF WriteRefused, WriteWaits, WriteNotConnected, AbortWaits,
      AbortNotConnected, New, curl
  <2>2. \A d \in Calls : status[d] = "success" => status'[d] = "success"
    BY <1>3, NoneIsNoCall DEF WriteRefused, WriteWaits, WriteNotConnected,
      AbortWaits, AbortNotConnected, New, Invoked, WaitingIsStored, Shape
  <2>3. MovedIsReported' /\ DuringIsPast'
    BY <2>1, <2>2 DEF MovedIsReported, DuringIsPast, Shape
  <2>4. moved[c] = 0 /\ OfTransfer' = OfTransfer \cup {c}
    BY <2>1 DEF MovedIsReported, OfTransfer, Shape
  <2>5. Total(moved, OfTransfer \cup {c}) = Total(moved, OfTransfer)
    BY <1>0, <2>4, TotalWith
  <2> QED
    BY <2>1, <2>3, <2>4, <2>5 DEF BytesAccounted
<1>4. ASSUME \/ \E c \in Calls : Cancel(c)
             \/ Connect \/ Redirect \/ Finish \/ ReadPauses \/ ReadAborts
             \/ ResumedByReader \/ UNCHANGED vars
      PROVE  BytesInv'
  <2>1. UNCHANGED <<moved, during, transfer, taken>>
    BY <1>4 DEF Cancel, Connect, Redirect, Finish, ReadPauses, ReadAborts,
      Leave, ResumedByReader, vars, calls, curl
  <2>2. \A d \in Calls : status[d] = "success" => status'[d] = "success"
    <3>1. status' \in {status, Invoked("aborted"), Invoked("eof"),
                       Invoked("success")}
      BY <1>4 DEF Cancel, Connect, Redirect, Finish, ReadPauses, ReadAborts,
        ResumedByReader, vars, calls
    <3> QED
      BY <3>1, NoneIsNoCall DEF Invoked, WaitingIsStored, Shape
  <2>3. MovedIsReported' /\ DuringIsPast'
    BY <2>1, <2>2 DEF MovedIsReported, DuringIsPast
  <2>4. BytesAccounted'
    BY <2>1 DEF BytesAccounted, OfTransfer
  <2> QED
    BY <2>3, <2>4
<1> QED
  BY <1>1, <1>2, <1>3, <1>4 DEF Next

(* The bytes cURL read in a transfer are those its writes have reported:   *)
(* none is counted twice, none for the transfer before or after.           *)
THEOREM BytesAgree == Spec => []BytesAccounted
<1>1. Init => BytesInv
  <2> SUFFICES ASSUME Init PROVE BytesInv
    OBVIOUS
  <2>1. MovedIsReported /\ DuringIsPast
    BY DEF Init, MovedIsReported, DuringIsPast
  <2>2. IsFiniteSet(OfTransfer) /\ \A c \in OfTransfer : moved[c] = 0
    BY SucceededIsFinite DEF Init, OfTransfer
  <2>3. Total(moved, OfTransfer) = 0
    BY <2>2, TotalNothing
  <2> QED
    BY <2>1, <2>3, TotalNothing DEF Init, BytesInv, BytesAccounted
<1>2. BytesInv => BytesAccounted
  BY DEF BytesInv
<1> QED
  BY <1>1, <1>2, BytesStep, Invariance, PTL DEF Spec

-----------------------------------------------------------------------------
(***************************************************************************)
(* BasicRequest implements Upload.  Being connected, paused or uploading   *)
(* is cURL's business and disappears; what it decides (whether a call      *)
(* waits or fails, when it is served) is a choice of the sink.  That a     *)
(* sink starts with no one waiting, and serves and is aborted only while   *)
(* it is open, is what the inductive invariant is needed for.              *)
(***************************************************************************)

(* Who waits is whom _send_handler belongs to.                             *)
LEMMA WhoWaits ==
  ASSUME IInv
  PROVE  /\ \A c \in Calls : Sink!Waits(c) <=> send = c
         /\ Sink!Nobody <=> send = None
  BY NoneIsNoCall
  DEF IInv, Shape, WaitingIsStored, Sink!Waits, Sink!Nobody

LEMMA WhoIsCompleted ==
  ASSUME IInv, NEW result \in Results
  PROVE  Invoked(result) = Sink!Completed(result)
<1>1. Invoked(result) = [c \in Calls |-> IF send = c THEN result ELSE status[c]]
  BY NoneIsNoCall DEF Invoked, IInv, Shape
<1> QED
  BY <1>1, WhoWaits DEF Sink!Completed

(* The program's calls.                                                    *)
LEMMA CallRefines ==
  ASSUME IInv, NEW c \in Calls,
         \/ WriteRefused(c)
         \/ \E s \in Lengths : WriteWaits(c, s)
         \/ WriteNotConnected(c)
         \/ AbortWaits(c)
         \/ AbortNotConnected(c)
         \/ Cancel(c)
  PROVE  Sink!Next
<1>0. /\ Invoked("aborted") = Sink!Completed("aborted")
      /\ Sink!Nobody <=> send = None
      /\ connected => running
  BY WhoWaits, WhoIsCompleted DEF Results, IInv, ConnectedIsRunning
<1>1. CASE WriteRefused(c)
  <2>1. Sink!RefuseWrite(c)
    BY <1>0, <1>1 DEF WriteRefused, New, handler, curl, Sink!RefuseWrite,
      Sink!New
  <2> QED
    BY <2>1 DEF Sink!Next
<1>2. ASSUME NEW s \in Lengths, WriteWaits(c, s) PROVE Sink!Next
  <2>1. Sink!Write(c)
    BY <1>0, <1>2 DEF WriteWaits, New, Store, Sink!Write, Sink!New
  <2> QED
    BY <2>1 DEF Sink!Next
<1>3. CASE WriteNotConnected(c)
  <2>1. Sink!FailWrite(c)
    BY <1>0, <1>3 DEF WriteNotConnected, New, handler, curl, Sink!FailWrite,
      Sink!New
  <2> QED
    BY <2>1 DEF Sink!Next
<1>4. CASE AbortWaits(c)
  <2>1. Sink!Abort(c)
    BY <1>0, <1>4 DEF AbortWaits, New, Store, Sink!Abort, Sink!New
  <2> QED
    BY <2>1 DEF Sink!Next
<1>5. CASE AbortNotConnected(c)
  <2>1. Sink!FailAbort(c)
    BY <1>0, <1>5 DEF AbortNotConnected, New, Reset, curl, Sink!FailAbort,
      Sink!New
  <2> QED
    BY <2>1 DEF Sink!Next
<1>6. CASE Cancel(c)
  <2>1. Sink!Cancel(c)
    BY <1>0, <1>6, WhoWaits DEF Cancel, Reset, curl, Sink!Cancel
  <2> QED
    BY <2>1 DEF Sink!Next
<1> QED
  BY <1>1, <1>2, <1>3, <1>4, <1>5, <1>6

LEMMA StepRefines == IInv /\ [Next]_vars => [Sink!Next]_Sink!vars
<1> SUFFICES ASSUME IInv, [Next]_vars
             PROVE  Sink!Next \/ UNCHANGED Sink!vars
  OBVIOUS
<1>0. /\ \A c \in Calls : Sink!Waits(c) <=> send = c
      /\ Sink!Nobody <=> send = None
      /\ \A result \in Results : Invoked(result) = Sink!Completed(result)
      /\ connected => running
      /\ send \in Calls \cup {None}
  BY WhoWaits, WhoIsCompleted DEF IInv, ConnectedIsRunning, Shape
<1>1. CASE Start
  <2>1. send = None
    BY <1>1 DEF Start, IInv, NoCarryOver
  <2>2. Sink!Begin
    BY <1>0, <1>1, <2>1 DEF Start, calls, handler, Sink!Begin
  <2> QED
    BY <2>2 DEF Sink!Next
<1>2. CASE Finish
  <2>1. Sink!End
    BY <1>0, <1>2 DEF Finish, Leave, Reset, Results, Sink!End
  <2> QED
    BY <2>1 DEF Sink!Next
<1>3. ASSUME NEW room \in 1 .. MaxChunk, ReadTakes(room) PROVE Sink!Next
  <2>1. /\ send \in Calls /\ kind[send] = "write" /\ running
        /\ status' = Sink!Completed("success")
        /\ moved' = [moved EXCEPT ![send] = Copied(room)]
        /\ taken' = taken + Copied(room)
        /\ length' = 0
        /\ UNCHANGED <<kind, running>>
    BY <1>0, <1>3 DEF ReadTakes, Reading, Returned, Reset, Results
  <2>2. Copied(room) \in 0 .. length
    BY RequestAssumption DEF Copied, IInv, Shape
  <2>3. Sink!Take(send)
    BY <1>0, <2>1, <2>2 DEF Sink!Take
  <2> QED
    BY <2>1, <2>3 DEF Sink!Next
<1>4. CASE ReadAborts
  <2>1. send \in Calls /\ Sink!EndByAbort(send)
    BY <1>0, <1>4 DEF ReadAborts, Reading, Leave, Reset, Results,
      Sink!EndByAbort
  <2> QED
    BY <2>1 DEF Sink!Next
<1>5. CASE Connect \/ Redirect \/ ReadPauses \/ ResumedByReader \/ UNCHANGED vars
  BY <1>5 DEF Connect, Redirect, ReadPauses, ResumedByReader, vars, calls,
    handler, curl, Sink!vars
<1> QED
  BY <1>1, <1>2, <1>3, <1>4, <1>5, CallRefines DEF Next

(* What the program sees of async_write_some and async_abort is an Upload: *)
(* every step of the request is one of the sink or none at all.            *)
THEOREM ImplementsUpload == Spec => Contract
<1>1. Init => Sink!Init
  BY DEF Init, Sink!Init
<1>2. IInv /\ [Next]_vars => [Sink!Next]_Sink!vars
  BY StepRefines
<1> QED
  BY <1>1, <1>2, Invariance, PTL DEF Spec, Contract, Sink!Spec
=============================================================================
