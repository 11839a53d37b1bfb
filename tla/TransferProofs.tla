--------------------------- MODULE TransferProofs ---------------------------
(***************************************************************************)
(* Theorems about Transfer.  The proofs about the parts are instantiated:  *)
(* every step of the composition is a step of each part or leaves it       *)
(* alone, so what was proved of Response, HeaderCollector and Request      *)
(* holds of the composition, and what the parts owe each other follows.    *)
(***************************************************************************)
EXTENDS Transfer, TLAPS

RP == INSTANCE ResponseProofs WITH
        status <- reads, paused <- recv_paused,
        signalled <- {}, late <- {}, crashed <- ~TRUE

HP == INSTANCE HeaderProofs WITH
        status <- waits, handler <- waiting, torn <- {}

QP == INSTANCE RequestProofs WITH
        status <- sends, paused <- send_paused,
        MaxChunk <- UploadChunk, MaxTransfers <- 1

-----------------------------------------------------------------------------
(* The instances name the same formulas twice.                             *)

(* Response.                                                               *)
LEMMA SameResponse ==
  /\ R!Init <=> RP!Init
  /\ R!Next <=> RP!Next
  /\ R!vars = RP!vars
<1>1. R!Init <=> RP!Init
  BY DEF R!Init, R!Reads, R!None, RP!Init, RP!Reads, RP!None
<1>2. R!Next <=> RP!Next
  BY DEF R!Next, R!Connect, R!Redirect, R!Receive, R!Pause,
    R!ResumedByWriter, R!TransferDone, R!TransferFails, R!Reads,
    R!AsyncReadSome, R!Cancel, R!SlotCleared, R!Running, R!calls, R!slots,
    R!Copied, R!Arriving, R!None, R!Complete, R!Rest, R!ResetReceive,
    R!Resume, R!Stop, R!ReadBuffered, R!ReadWaits, R!ReadAtEnd,
    R!ReadRefused, R!ReadNotConnected, R!curl, R!Results, R!New, R!MustWait,
    RP!Next, RP!Connect, RP!Redirect, RP!Receive, RP!Pause,
    RP!ResumedByWriter, RP!TransferDone, RP!TransferFails, RP!Reads,
    RP!AsyncReadSome, RP!Cancel, RP!SlotCleared, RP!Running, RP!calls,
    RP!slots, RP!Copied, RP!Arriving, RP!None, RP!Complete, RP!Rest,
    RP!ResetReceive, RP!Resume, RP!Stop, RP!ReadBuffered, RP!ReadWaits,
    RP!ReadAtEnd, RP!ReadRefused, RP!ReadNotConnected, RP!curl, RP!Results,
    RP!New, RP!MustWait
<1>3. R!vars = RP!vars
  BY DEF R!vars, R!calls, R!curl, R!slots, RP!vars, RP!calls, RP!curl,
    RP!slots
<1> QED
  BY <1>1, <1>2, <1>3

(* HeaderCollector.                                                        *)
LEMMA SameHeaders ==
  /\ H!Init <=> HP!Init
  /\ H!Next <=> HP!Next
  /\ H!vars = HP!vars
<1>1. H!Init <=> HP!Init
  BY DEF H!Init, H!NoFields, H!None, H!Waits, H!Sections, HP!Init,
    HP!NoFields, HP!None, HP!Waits, HP!Sections
<1>2. H!Next <=> HP!Next
  BY DEF H!Next, H!Line, H!EndUnawaited, H!EndAwaited, H!StopUnawaited,
    H!StopAwaited, H!Waits, H!WaitAtEnd, H!WaitReady, H!WaitRefused,
    H!WaitWaits, H!Cancel, H!Cleared, H!None, H!StillReady, H!Sections,
    H!answers, H!Taken, H!Answer, H!NoFields, H!peer, H!New, H!MustWait,
    H!NewSection, HP!Next, HP!Line, HP!EndUnawaited, HP!EndAwaited,
    HP!StopUnawaited, HP!StopAwaited, HP!Waits, HP!WaitAtEnd, HP!WaitReady,
    HP!WaitRefused, HP!WaitWaits, HP!Cancel, HP!Cleared, HP!None,
    HP!StillReady, HP!Sections, HP!answers, HP!Taken, HP!Answer, HP!NoFields,
    HP!peer, HP!New, HP!MustWait, HP!NewSection
<1>3. H!vars = HP!vars
  BY DEF H!vars, H!answers, H!peer, HP!vars, HP!answers, HP!peer
<1> QED
  BY <1>1, <1>2, <1>3

(* Request.                                                                *)
LEMMA SameRequest ==
  /\ Q!Init <=> QP!Init
  /\ Q!Next <=> QP!Next
  /\ Q!vars = QP!vars
<1>1. Q!Init <=> QP!Init
  BY DEF Q!Init, Q!Calls, Q!None, QP!Init, QP!Calls, QP!None
<1>2. Q!Next <=> QP!Next
  BY DEF Q!Next, Q!Start, Q!Connect, Q!Redirect, Q!Finish, Q!ReadPauses,
    Q!ReadTakes, Q!ReadAborts, Q!ResumedByReader, Q!Calls, Q!WriteRefused,
    Q!WriteWaits, Q!WriteNotConnected, Q!AbortWaits, Q!AbortNotConnected,
    Q!Cancel, Q!calls, Q!handler, Q!Leave, Q!Invoked, Q!Reset, Q!Reading,
    Q!None, Q!Copied, Q!Returned, Q!New, Q!curl, Q!Store, QP!Next, QP!Start,
    QP!Connect, QP!Redirect, QP!Finish, QP!ReadPauses, QP!ReadTakes,
    QP!ReadAborts, QP!ResumedByReader, QP!Calls, QP!WriteRefused,
    QP!WriteWaits, QP!WriteNotConnected, QP!AbortWaits, QP!AbortNotConnected,
    QP!Cancel, QP!calls, QP!handler, QP!Leave, QP!Invoked, QP!Reset,
    QP!Reading, QP!None, QP!Copied, QP!Returned, QP!New, QP!curl, QP!Store
<1>3. Q!vars = QP!vars
  BY DEF Q!vars, Q!calls, Q!handler, Q!curl, QP!vars, QP!calls, QP!handler,
    QP!curl
<1> QED
  BY <1>1, <1>2, <1>3

-----------------------------------------------------------------------------
(***************************************************************************)
(* Each step is one of the response, or leaves it alone.                   *)
(***************************************************************************)
LEMMA ResponseSteps == [Next]_vars => [R!Next]_R!vars
<1> SUFFICES ASSUME [Next]_vars PROVE R!Next \/ UNCHANGED R!vars
  OBVIOUS
<1> DEFINE Alone == UNCHANGED <<response, finished, connected>>
<1>1. Alone => UNCHANGED R!vars
  BY DEF response, R!vars, R!calls, R!curl, R!slots
<1>2. CASE Connect
  BY <1>2 DEF Connect, R!Next
<1>3. CASE Redirect
  BY <1>3 DEF Redirect, R!Next
<1>4. CASE Arrive \/ Pause
  BY <1>4 DEF Arrive, Pause, R!Next
<1>5. CASE Done \/ Fail \/ Abort
  BY <1>5 DEF Done, Fail, Abort, R!TransferFails, R!Next
<1>6. ASSUME NEW op \in R!Reads, Read(op) PROVE R!Next
  BY <1>6 DEF Read, R!AsyncReadSome, R!Next
<1>7. ASSUME NEW c \in Q!Calls, Send(c) PROVE R!Next \/ Alone
  <2>1. CASE WakeReceiving
    BY <2>1 DEF WakeReceiving, R!Next
  <2>2. CASE ~WakeReceiving
    BY <1>7, <2>2 DEF Send, Q!WriteNotConnected, Q!AbortNotConnected, Q!curl
  <2> QED
    BY <2>1, <2>2
<1>8. CASE Start \/ Take \/ PauseUpload
  <2>1. Alone
    BY <1>8 DEF Start, Take, PauseUpload, Q!Start, Q!ReadTakes, Q!ReadPauses
  <2> QED
    BY <1>1, <2>1
<1>9. CASE HeaderLine \/ EndOfSection \/ Trailer
  <2>1. Alone
    BY <1>9 DEF HeaderLine, EndOfSection, Trailer, H!Line, H!EndUnawaited,
                H!EndAwaited
  <2> QED
    BY <1>1, <2>1
<1>10. CASE BeginBody \/ EndLast \/ UNCHANGED vars
  <2>1. Alone
    BY <1>10 DEF BeginBody, EndLast, vars
  <2> QED
    BY <1>1, <2>1
<1>11. ASSUME NEW op \in H!Waits, Wait(op) PROVE Alone
  BY <1>11 DEF Wait, H!WaitAtEnd, H!WaitReady, H!WaitWaits
<1> QED
  <2> HIDE DEF Alone
  <2> QED
    BY <1>1, <1>2, <1>3, <1>4, <1>5, <1>6, <1>7, <1>8, <1>9, <1>10, <1>11
    DEF Next, Headers, GoOn, WaitHeaders, BeginLast, WaitAgain

(***************************************************************************)
(* Each step is one of the header collector, or leaves it alone.           *)
(***************************************************************************)
LEMMA HeaderSteps == [Next]_vars => [H!Next]_H!vars
<1> SUFFICES ASSUME [Next]_vars PROVE H!Next \/ UNCHANGED H!vars
  OBVIOUS
<1> DEFINE Alone == UNCHANGED <<headers, finished>>
<1>1. Alone => UNCHANGED H!vars
  BY DEF headers, H!vars, H!answers, H!peer
<1>2. ASSUME NEW keys \in Lines, H!Line(keys) PROVE H!Next
  BY <1>2 DEF Lines, H!Next
<1>3. CASE HeaderLine \/ Trailer
  BY <1>2, <1>3 DEF HeaderLine, Trailer
<1>4. CASE EndOfSection
  BY <1>4 DEF EndOfSection, H!Next
<1>5. CASE StopHeaders
  BY <1>5 DEF StopHeaders, H!Next
<1>6. CASE Done \/ Fail \/ Abort
  BY <1>5, <1>6 DEF Done, Fail, Abort
<1>7. ASSUME NEW op \in H!Waits, Wait(op) PROVE H!Next
  BY <1>7 DEF Wait, H!Next
<1>8. CASE Start \/ Connect \/ Redirect \/ BeginBody \/ Arrive \/ Pause
  <2>1. Alone
    BY <1>8 DEF Start, Connect, Redirect, BeginBody, Arrive, Pause,
      R!Connect, R!Redirect, R!Receive, R!Pause
  <2> QED
    BY <1>1, <2>1
<1>9. CASE Take \/ PauseUpload \/ EndLast \/ UNCHANGED vars
  <2>1. Alone
    BY <1>9 DEF Take, PauseUpload, EndLast, vars
  <2> QED
    BY <1>1, <2>1
<1>10. ASSUME NEW op \in R!Reads, Read(op) PROVE Alone
  BY <1>10 DEF Read, R!ReadWaits, R!ReadBuffered, R!ReadAtEnd,
    R!ReadNotConnected
<1>11. ASSUME NEW c \in Q!Calls, Send(c) PROVE Alone
  BY <1>11 DEF Send, WakeReceiving, R!ResumedByWriter
<1> QED
  <2> HIDE DEF Alone
  <2> QED
    BY <1>1, <1>3, <1>4, <1>6, <1>7, <1>8, <1>9, <1>10, <1>11
    DEF Next, Headers, GoOn, WaitHeaders, BeginLast, WaitAgain

(***************************************************************************)
(* Each step is one of the request, or leaves it alone.                    *)
(***************************************************************************)
LEMMA RequestSteps == [Next]_vars => [Q!Next]_Q!vars
<1> SUFFICES ASSUME [Next]_vars PROVE Q!Next \/ UNCHANGED Q!vars
  OBVIOUS
<1> DEFINE Alone == UNCHANGED <<request, connected>>
<1>1. Alone => UNCHANGED Q!vars
  BY DEF request, Q!vars, Q!calls, Q!handler, Q!curl
<1>2. CASE Start \/ Connect \/ Redirect
  BY <1>2 DEF Start, Connect, Redirect, Q!Next
<1>3. CASE Take \/ PauseUpload
  BY <1>3 DEF Take, PauseUpload, Q!Next
<1>4. CASE Done \/ Fail \/ Abort
  BY <1>4 DEF Done, Fail, Abort, Q!Next
<1>5. ASSUME NEW c \in Q!Calls, Send(c) PROVE Q!Next
  BY <1>5 DEF Send, Q!Next
<1>6. ASSUME NEW op \in R!Reads, Read(op) PROVE Q!Next \/ Alone
  <2>1. UNCHANGED connected
    BY <1>6 DEF Read, R!ReadWaits, R!ReadBuffered, R!ReadAtEnd,
      R!ReadNotConnected, R!curl
  <2>2. CASE UNCHANGED request
    BY <2>1, <2>2
  <2>3. CASE Q!ResumedByReader
    BY <2>3 DEF Q!Next
  <2> QED
    BY <1>6, <2>2, <2>3 DEF Read, WakeSending
<1>7. CASE HeaderLine \/ EndOfSection \/ Trailer \/ BeginBody \/ EndLast
  BY <1>1, <1>7 DEF HeaderLine, EndOfSection, Trailer, BeginBody, EndLast
<1>8. CASE Arrive \/ Pause
  <2>1. Alone
    BY <1>8 DEF Arrive, Pause, R!Receive, R!Pause
  <2> QED
    BY <1>1, <2>1
<1>9. CASE UNCHANGED vars
  BY <1>1, <1>9 DEF vars
<1>10. ASSUME NEW op \in H!Waits, Wait(op) PROVE Alone
  BY <1>10 DEF Wait
<1> QED
  <2> HIDE DEF Alone
  <2> QED
    BY <1>1, <1>2, <1>3, <1>4, <1>5, <1>6, <1>7, <1>8, <1>9, <1>10
    DEF Next, Headers, GoOn, WaitHeaders, BeginLast, WaitAgain

-----------------------------------------------------------------------------
(* What was proved of the parts.                                           *)
PartsInv == RP!IInv /\ HP!IInv /\ QP!IInv

LEMMA InitParts == Init => PartsInv
<1>1. RP!Init => RP!IInv
  BY RP!InitIInv, TransferAssumption DEF R!ResponseAssumption
<1>2. HP!Init => HP!IInv
  BY HP!InitIInv, TransferAssumption DEF H!HeaderAssumption
<1>3. QP!Init => QP!IInv
  BY QP!InitIInv, TransferAssumption DEF Q!RequestAssumption
<1> QED
  BY <1>1, <1>2, <1>3, SameResponse, SameHeaders, SameRequest
  DEF Init, PartsInv

LEMMA NextParts == PartsInv /\ [Next]_vars => PartsInv'
<1>1. RP!IInv /\ [RP!Next]_RP!vars => RP!IInv'
  BY RP!NextIInv, TransferAssumption DEF R!ResponseAssumption
<1>2. HP!IInv /\ [HP!Next]_HP!vars => HP!IInv'
  BY HP!NextIInv, TransferAssumption DEF H!HeaderAssumption
<1>3. QP!IInv /\ [QP!Next]_QP!vars => QP!IInv'
  BY QP!NextIInv, TransferAssumption DEF Q!RequestAssumption
<1>4. UNCHANGED R!vars => UNCHANGED RP!vars
  BY DEF R!vars, R!calls, R!curl, R!slots, RP!vars, RP!calls, RP!curl,
    RP!slots
<1>5. UNCHANGED H!vars => UNCHANGED HP!vars
  BY DEF H!vars, H!answers, H!peer, HP!vars, HP!answers, HP!peer
<1>6. UNCHANGED Q!vars => UNCHANGED QP!vars
  BY DEF Q!vars, Q!calls, Q!handler, Q!curl, QP!vars, QP!calls, QP!handler,
    QP!curl
<1> QED
  BY <1>1, <1>2, <1>3, <1>4, <1>5, <1>6, ResponseSteps, HeaderSteps, RequestSteps,
     SameResponse, SameHeaders, SameRequest
  DEF PartsInv

(* What of it is about the composition, in the names of Transfer.          *)
LEMMA WaitersOfParts ==
  ASSUME PartsInv
  PROVE  /\ \A op \in R!Reads : reads[op] = "waiting" => ~finished
         /\ \A op \in H!Waits : waits[op] = "waiting" => ~finished
         /\ \A c \in Q!Calls : sends[c] = "waiting" => running
<1>1. ASSUME NEW op \in R!Reads, reads[op] = "waiting" PROVE ~finished
  BY <1>1, TransferAssumption DEF PartsInv, RP!IInv, RP!WaitingIsPending,
    RP!NoLostWakeup, RP!Reads, R!Reads, RP!None, R!ResponseAssumption
<1>2. ASSUME NEW op \in H!Waits, waits[op] = "waiting" PROVE ~finished
  BY <1>2, TransferAssumption DEF PartsInv, HP!IInv, HP!WaitingIsHandler,
    HP!NoLostWakeup, HP!Waits, H!Waits, HP!None, H!HeaderAssumption
<1>3. ASSUME NEW c \in Q!Calls, sends[c] = "waiting" PROVE running
  BY <1>3, TransferAssumption DEF PartsInv, QP!IInv, QP!WaitingIsStored,
    QP!NoCarryOver, QP!Calls, Q!Calls, QP!None, Q!RequestAssumption
<1> QED
  BY <1>1, <1>2, <1>3

LEMMA RequestOfParts ==
  ASSUME PartsInv
  PROVE  /\ transfer \in 0 .. 1 /\ running \in BOOLEAN
         /\ connected => running
         /\ running => Started
         /\ \A c \in Q!Calls : kind[c] = "abort" /\ sends[c] = "success" =>
              Started /\ ~running
<1>1. QP!Shape /\ QP!ConnectedIsRunning /\ QP!RunningIsCounted
      /\ QP!KilledIsOver /\ QP!AbortEndsItsTransfer
  BY DEF PartsInv, QP!IInv
<1>2. transfer \in 0 .. 1 /\ running \in BOOLEAN
  BY <1>1 DEF QP!Shape
<1>3. (connected => running) /\ (running => Started)
  BY <1>1 DEF QP!ConnectedIsRunning, QP!RunningIsCounted, Started
<1>4. ASSUME NEW c \in Q!Calls, kind[c] = "abort", sends[c] = "success"
      PROVE  Started /\ ~running
  <2>1. during[c] \in killed /\ ~(running /\ transfer = during[c])
    BY <1>1, <1>4 DEF QP!AbortEndsItsTransfer, QP!Calls, Q!Calls
  <2>2. during[c] \in 1 .. 1 /\ during[c] <= transfer
    BY <1>1, <2>1 DEF QP!Shape, QP!KilledIsOver
  <2> QED
    BY <1>2, <2>1, <2>2 DEF Started
<1> QED
  BY <1>2, <1>3, <1>4

LEMMA HeadersOfParts ==
  ASSUME PartsInv
  PROVE  /\ headers_received \in 0 .. MaxSections
         /\ waiting \in H!Waits \cup {H!None}
         /\ waits \in [H!Waits -> {"idle", "waiting"} \cup H!Results]
         /\ given \in [H!Waits -> H!FieldMap]
         /\ lines \in [H!Sections -> SUBSET Keys]
         /\ \A op \in H!Waits : waits[op] = "waiting" <=> waiting = op
         /\ \A op \in H!Waits : waits[op] = "success" =>
              of[op] \in H!Sections /\ given[op] = H!Section(of[op])
  BY DEF PartsInv, HP!IInv, HP!TypeOK, HP!WaitingIsHandler, HP!AnsweredIsOver,
    HP!SuccessIsSection, HP!Waits, H!Waits, HP!Sections, H!Sections,
    HP!Results, H!Results, HP!FieldMap, H!FieldMap, HP!Section, H!Section,
    HP!None, H!None

-----------------------------------------------------------------------------
(***************************************************************************)
(* The rest of the inductive invariant relates the parts: the response     *)
(* ends with its request; a section that cURL left is over and had a       *)
(* Location; and the answer that the loop stopped at stays what it was.    *)
(***************************************************************************)
OneEnd == finished <=> Started /\ ~running

LeftIsOver ==
  \A n \in left : n \in 1 .. headers_received /\ Location \in lines[n]

LoopIsCalled ==
  last # "idle" => lastWait \in H!Waits /\ waits[lastWait] # "idle"

StoppedAtLast ==
  last = "done" => waits[lastWait] # "waiting" /\ ~Again

IInv == PartsInv /\ OneEnd /\ LeftIsOver /\ LoopIsCalled /\ StoppedAtLast

LEMMA InitIInv == Init => IInv
<1> SUFFICES ASSUME Init PROVE IInv
  OBVIOUS
<1>1. PartsInv
  BY InitParts
<1>2. OneEnd
  BY DEF Init, R!Init, Q!Init, OneEnd, Started
<1>3. LeftIsOver /\ LoopIsCalled /\ StoppedAtLast
  BY DEF Init, LeftIsOver, LoopIsCalled, StoppedAtLast
<1> QED
  BY <1>1, <1>2, <1>3 DEF IInv

(* The end, step by step: who ends the response ends the request.          *)
LEMMA OneEndStep == IInv /\ [Next]_vars => OneEnd'
<1> SUFFICES ASSUME IInv, [Next]_vars PROVE OneEnd'
  OBVIOUS
<1>1. transfer \in 0 .. 1 /\ (connected => running) /\ (running => Started)
  BY RequestOfParts DEF IInv
<1> DEFINE Same == UNCHANGED <<finished, transfer, running>>
<1>2. CASE Start
  BY <1>1, <1>2 DEF Start, Q!Start, IInv, OneEnd, Started
<1>3. CASE Done \/ Fail
  BY <1>1, <1>3 DEF Done, Fail, R!TransferDone, R!TransferFails, R!Stop,
    Q!Finish, Q!Leave, OneEnd, Started
<1>4. CASE Abort
  BY <1>1, <1>4 DEF Abort, R!Stop, Q!ReadAborts, Q!Reading, Q!Leave, OneEnd,
    Started
<1>5. CASE Connect \/ Redirect \/ HeaderLine \/ EndOfSection \/ BeginBody
  <2>1. Same
    BY <1>5 DEF Connect, Redirect, HeaderLine, EndOfSection, BeginBody,
      R!Connect, R!Redirect, Q!Connect, Q!Redirect, H!Line, H!EndUnawaited,
      H!EndAwaited, request
  <2> QED
    BY <2>1 DEF IInv, OneEnd, Started
<1>6. CASE Arrive \/ Pause \/ Trailer \/ Take \/ PauseUpload \/ EndLast
  <2>1. Same
    BY <1>6 DEF Arrive, Pause, Trailer, Take, PauseUpload, EndLast,
      R!Receive, R!Pause, H!Line, Q!ReadTakes, Q!ReadPauses, request
  <2> QED
    BY <2>1 DEF IInv, OneEnd, Started
<1>7. CASE \/ \E op \in R!Reads : Read(op)
           \/ \E c \in Q!Calls : Send(c)
  <2>1. Same
    BY <1>7 DEF Read, Send, WakeSending, WakeReceiving, R!ReadWaits,
      R!ReadBuffered, R!ReadAtEnd, R!ReadNotConnected, R!ResumedByWriter,
      Q!WriteWaits, Q!AbortWaits, Q!WriteNotConnected, Q!AbortNotConnected,
      Q!ResumedByReader, Q!curl, request
  <2> QED
    BY <2>1 DEF IInv, OneEnd, Started
<1>8. CASE \E op \in H!Waits : Wait(op)
  <2>1. Same
    BY <1>8 DEF Wait, H!WaitAtEnd, H!WaitReady, H!WaitWaits, request
  <2> QED
    BY <2>1 DEF IInv, OneEnd, Started
<1>9. CASE UNCHANGED vars
  BY <1>9 DEF vars, request, IInv, OneEnd, Started
<1> QED
  BY <1>2, <1>3, <1>4, <1>5, <1>6, <1>7, <1>8, <1>9
  DEF Next, Headers, GoOn, WaitHeaders, BeginLast, WaitAgain

(* The header collector gives no call a second answer, and the sections    *)
(* only grow.                                                              *)
LEMMA AnswersStay ==
  ASSUME PartsInv, [H!Next]_H!vars
  PROVE  /\ headers_received <= headers_received'
         /\ \A n \in H!Sections : lines[n] \subseteq lines'[n]
         /\ \A op \in H!Waits : waits[op] # "idle" => waits'[op] # "idle"
         /\ \A op \in H!Waits : waits[op] \notin {"idle", "waiting"} =>
              waits'[op] = waits[op] /\ given'[op] = given[op]
<1> USE HeadersOfParts
<1> DEFINE Stays ==
  \A op \in H!Waits :
    /\ waits[op] # "idle" => waits'[op] # "idle"
    /\ waits[op] \notin {"idle", "waiting"} =>
         waits'[op] = waits[op] /\ given'[op] = given[op]
<1>1. CASE (\E k \in Keys : H!Line({k})) \/ H!Line({})
  BY <1>1, TransferAssumption DEF H!Line, H!answers, H!HeaderAssumption
<1>2. CASE H!EndUnawaited \/ H!StopUnawaited
  BY <1>2, TransferAssumption DEF H!EndUnawaited, H!StopUnawaited, H!answers,
    H!peer, H!HeaderAssumption
<1>3. CASE H!EndAwaited \/ H!StopAwaited
  BY <1>3, TransferAssumption DEF H!EndAwaited, H!StopAwaited, H!Answer,
    H!peer, H!HeaderAssumption
<1>4. ASSUME NEW op \in H!Waits, NEW result \in H!Results, NEW map,
             NEW section, H!Answer(op, result, map, section),
             waits[op] \in {"idle", "waiting"}
      PROVE  Stays
  BY <1>4 DEF H!Answer, H!Results
<1>5. ASSUME NEW op \in H!Waits,
             \/ H!WaitAtEnd(op) \/ H!WaitReady(op) \/ H!WaitRefused(op)
             \/ H!Cancel(op)
      PROVE  Stays /\ UNCHANGED <<headers_received, lines>>
  <2>1. UNCHANGED <<headers_received, lines>>
    BY <1>5 DEF H!WaitAtEnd, H!WaitReady, H!WaitRefused, H!Cancel, H!peer
  <2>2. waits[op] \in {"idle", "waiting"}
    BY <1>5 DEF H!WaitAtEnd, H!WaitReady, H!WaitRefused, H!Cancel, H!New
  <2>3. \E result \in H!Results :
          \E map, section : H!Answer(op, result, map, section)
    BY <1>5 DEF H!WaitAtEnd, H!WaitReady, H!WaitRefused, H!Cancel, H!Results
  <2> HIDE DEF Stays
  <2> QED
    BY <1>4, <2>1, <2>2, <2>3
<1>6. ASSUME NEW op \in H!Waits, H!WaitWaits(op)
      PROVE  Stays /\ UNCHANGED <<headers_received, lines>>
  <2>1. waits[op] = "idle" /\ waits' = [waits EXCEPT ![op] = "waiting"]
    BY <1>6 DEF H!WaitWaits, H!MustWait, H!New
  <2>2. UNCHANGED <<headers_received, lines, given>>
    BY <1>6 DEF H!WaitWaits, H!peer
  <2> QED
    BY <2>1, <2>2
<1>7. CASE UNCHANGED H!vars
  BY <1>7 DEF H!vars, H!answers, H!peer
<1>8. Stays /\ UNCHANGED <<headers_received, lines>> =>
        /\ Stays
        /\ headers_received <= headers_received'
        /\ \A n \in H!Sections : lines[n] \subseteq lines'[n]
  OBVIOUS
<1> QED
  BY <1>1, <1>2, <1>3, <1>5, <1>6, <1>7, <1>8 DEF H!Next

(* A section cURL leaves is over, and it had a Location.                   *)
LEMMA LeftStep == IInv /\ [Next]_vars => LeftIsOver'
<1> SUFFICES ASSUME IInv, [Next]_vars PROVE LeftIsOver'
  OBVIOUS
<1>1. /\ headers_received \in 0 .. MaxSections
      /\ headers_received' \in 0 .. MaxSections
  BY NextParts, HeadersOfParts DEF IInv, PartsInv, HP!IInv, HP!TypeOK
<1>2. /\ headers_received <= headers_received'
      /\ \A n \in 1 .. MaxSections : lines[n] \subseteq lines'[n]
  BY AnswersStay, HeaderSteps DEF IInv, H!Sections
<1>3. ASSUME NEW n \in left
      PROVE  n \in 1 .. headers_received' /\ Location \in lines'[n]
  <2>1. n \in 1 .. headers_received /\ Location \in lines[n]
    BY <1>3 DEF IInv, LeftIsOver
  <2>2. n \in 1 .. MaxSections /\ n \in 1 .. headers_received'
    BY ONLY <1>1, <1>2, <2>1, TransferAssumption DEF H!HeaderAssumption
  <2> QED
    BY <1>2, <2>1, <2>2
<1>4. ASSUME NEW n \in left', n \notin left
      PROVE  n \in 1 .. headers_received' /\ Location \in lines'[n]
  <2>1. left' = left \/ Redirect
    BY DEF Next, Headers, GoOn, Start, Connect, HeaderLine, EndOfSection,
      BeginBody, Arrive, Pause, Trailer, Take, PauseUpload, Done, Fail, Abort,
      Read, Send, WaitHeaders, BeginLast, WaitAgain, Wait, EndLast, vars
  <2>2. /\ Redirect /\ n = headers_received
        /\ headers_received # 0 /\ Location \in lines[headers_received]
    BY <1>4, <2>1 DEF Redirect, AtSection
  <2>3. UNCHANGED <<headers_received, lines>>
    BY <2>2 DEF Redirect, headers
  <2> QED
    BY <1>1, <2>2, <2>3
<1> QED
  BY <1>3, <1>4 DEF LeftIsOver

(* The loop goes from one call that was made to the next.                  *)
LEMMA LoopStep == IInv /\ [Next]_vars => LoopIsCalled' /\ StoppedAtLast'
<1> SUFFICES ASSUME IInv, [Next]_vars PROVE LoopIsCalled' /\ StoppedAtLast'
  OBVIOUS
<1>1. \A op \in H!Waits :
        /\ waits[op] # "idle" => waits'[op] # "idle"
        /\ waits[op] \notin {"idle", "waiting"} =>
             waits'[op] = waits[op] /\ given'[op] = given[op]
  BY AnswersStay, HeaderSteps DEF IInv
<1>2. CASE UNCHANGED loop
  BY <1>1, <1>2 DEF loop, IInv, LoopIsCalled, StoppedAtLast, Again
<1>3. ASSUME NEW op \in H!Waits, BeginLast(op) \/ WaitAgain(op)
      PROVE  LoopIsCalled' /\ StoppedAtLast'
  <2>1. last' = "looping" /\ lastWait' = op
    BY <1>3 DEF BeginLast, WaitAgain, Returned
  <2>2. waits \in [H!Waits -> {"idle", "waiting"} \cup H!Results]
    BY HeadersOfParts DEF IInv
  <2>3. waits'[op] # "idle"
    BY <1>3, <2>2 DEF BeginLast, WaitAgain, Wait, H!WaitAtEnd, H!WaitReady,
      H!WaitWaits, H!Answer
  <2> QED
    BY <2>1, <2>3 DEF LoopIsCalled, StoppedAtLast
<1>4. CASE EndLast
  <2>1. last' = "done" /\ UNCHANGED <<lastWait, waits, given>>
    BY <1>4 DEF EndLast, headers
  <2>2. last # "idle" /\ waits[lastWait] # "waiting" /\ ~Again
    BY <1>4 DEF EndLast, Returned
  <2> QED
    BY <2>1, <2>2 DEF IInv, LoopIsCalled, StoppedAtLast, Again
<1> QED
  BY <1>2, <1>3, <1>4
  DEF Next, Headers, GoOn, Start, Connect, HeaderLine, EndOfSection, Redirect,
    BeginBody, Arrive, Pause, Trailer, Take, PauseUpload, Done, Fail, Abort,
    Read, Send, WaitHeaders, vars

THEOREM Invariance == Spec => []IInv
<1>1. IInv /\ [Next]_vars => IInv'
  BY NextParts, OneEndStep, LeftStep, LoopStep DEF IInv
<1> QED
  BY <1>1, InitIInv, PTL DEF Spec

-----------------------------------------------------------------------------
(* When a transfer has ended, in whatever way, no read, no wait for        *)
(* headers and no write or abort is left without its answer.               *)
THEOREM NothingWaitsAtTheEnd == Spec => []EndAnswersAll
<1>1. IInv => EndAnswersAll
  BY WaitersOfParts DEF IInv, OneEnd, EndAnswersAll
<1> QED
  BY <1>1, Invariance, PTL

(* An abort that was answered with success has ended the response.         *)
THEOREM AbortsEnd == Spec => []AbortEndsResponse
<1>1. IInv => AbortEndsResponse
  BY RequestOfParts DEF IInv, OneEnd, AbortEndsResponse
<1> QED
  BY <1>1, Invariance, PTL

(* async_wait_last_headers succeeds with a whole section, and with one     *)
(* that cURL did not leave for another by its Location.  (An interim       *)
(* section without a Location ends the loop as well.)                      *)
THEOREM LastHeadersAreFinal == Spec => []LastIsFinal
<1>1. ASSUME IInv, last = "done", waits[lastWait] = "success"
      PROVE  of[lastWait] \notin left
             /\ given[lastWait] = H!Section(of[lastWait])
  <2>1. lastWait \in H!Waits /\ given[lastWait][Location] = H!None
    BY <1>1 DEF IInv, LoopIsCalled, StoppedAtLast, Again
  <2>2. /\ of[lastWait] \in H!Sections
        /\ given[lastWait] = H!Section(of[lastWait])
    BY <1>1, <2>1, HeadersOfParts DEF IInv
  <2>3. Location \notin lines[of[lastWait]]
    BY <2>1, <2>2, TransferAssumption
    DEF H!Section, H!Sections, H!None, H!HeaderAssumption
  <2> QED
    BY <1>1, <2>2, <2>3 DEF IInv, LeftIsOver
<1> QED
  BY <1>1, Invariance, PTL DEF LastIsFinal

(* The parts keep in the composition what they promise alone: the body     *)
(* arrives whole and in order, a call gets one whole section, no waiting   *)
(* call loses its place, and cURL never sleeps on a direction in which     *)
(* somebody waits, whichever call it was woken by.                         *)
THEOREM PartsKeepTheirPromises ==
  Spec => [](/\ R!NothingLostOrReordered /\ R!NoLostWakeup
             /\ H!SuccessIsSection /\ H!DeliveredOnceInOrder
             /\ Q!WaitingIsStored /\ Q!NoLostWakeup)
<1>1. IInv => R!NothingLostOrReordered /\ R!NoLostWakeup
  BY DEF IInv, PartsInv, RP!IInv, RP!NothingLostOrReordered,
    R!NothingLostOrReordered, RP!NoLostWakeup, R!NoLostWakeup, RP!None, R!None
<1>2. IInv => H!SuccessIsSection /\ H!DeliveredOnceInOrder
  BY DEF IInv, PartsInv, HP!IInv, HP!SuccessIsSection, H!SuccessIsSection,
    HP!DeliveredOnceInOrder, H!DeliveredOnceInOrder, HP!Waits, H!Waits,
    HP!Section, H!Section, HP!None, H!None
<1>3. IInv => Q!WaitingIsStored /\ Q!NoLostWakeup
  BY DEF IInv, PartsInv, QP!IInv, QP!WaitingIsStored, Q!WaitingIsStored,
    QP!Calls, Q!Calls, QP!NoLostWakeup, Q!NoLostWakeup, QP!None, Q!None
<1> QED
  BY <1>1, <1>2, <1>3, Invariance, PTL

-----------------------------------------------------------------------------
(***************************************************************************)
(* The contracts of the parts are kept by the composition, though it lets  *)
(* the two directions resume, and end, one another: a reader sees a        *)
(* ByteStream, a writer an Upload, and who waits for headers a HeaderFeed. *)
(***************************************************************************)
(* async_read_some: the body once, in order, to one reader at a time.      *)
THEOREM ReaderSeesStream == Spec => RP!Stream!Safety
<1>1. RP!Init => RP!Stream!Init
  BY DEF RP!Init, RP!Stream!Init
<1>2. RP!IInv /\ RP!IInv' /\ [RP!Next]_RP!vars
        => [RP!Stream!Next]_RP!Stream!vars
  BY RP!StepRefines, TransferAssumption DEF R!ResponseAssumption
<1>3. [Next]_vars => [RP!Next]_RP!vars
  BY ResponseSteps, SameResponse
  DEF R!vars, R!calls, R!curl, R!slots, RP!vars, RP!calls, RP!curl, RP!slots
<1>4. Init => RP!Init
  BY SameResponse DEF Init
<1>5. IInv => RP!IInv
  BY DEF IInv, PartsInv
<1> QED
  BY <1>1, <1>2, <1>3, <1>4, <1>5, Invariance, PTL
  DEF Spec, RP!Stream!Safety

(* async_write_some and async_abort: one writer at a time, no byte twice,  *)
(* and an abort ends its transfer.                                         *)
THEOREM WriterSeesUpload == Spec => QP!Contract
<1>1. QP!Init => QP!Sink!Init
  BY DEF QP!Init, QP!Sink!Init
<1>2. QP!IInv /\ [QP!Next]_QP!vars => [QP!Sink!Next]_QP!Sink!vars
  BY QP!StepRefines, TransferAssumption DEF Q!RequestAssumption
<1>3. [Next]_vars => [QP!Next]_QP!vars
  BY RequestSteps, SameRequest
  DEF Q!vars, Q!calls, Q!handler, Q!curl, QP!vars, QP!calls, QP!handler,
    QP!curl
<1>4. Init => QP!Init
  BY SameRequest DEF Init
<1>5. IInv => QP!IInv
  BY DEF IInv, PartsInv
<1> QED
  BY <1>1, <1>2, <1>3, <1>4, <1>5, Invariance, PTL
  DEF Spec, QP!Contract, QP!Sink!Spec

(* async_wait_headers: each section whole, to one call, and only while it  *)
(* is the newest.                                                          *)
THEOREM WaiterSeesFeed == Spec => HP!Contract
<1>1. HP!Init => HP!Feed!Init
  BY HP!InitRefines, TransferAssumption DEF H!HeaderAssumption
<1>2. HP!Init => HP!FieldsWereSent
  BY DEF HP!Init, HP!FieldsWereSent, HP!NoFields
<1>3. HP!IInv /\ HP!FieldsWereSent /\ [HP!Next]_HP!vars
        => HP!FieldsWereSent' /\ [HP!Feed!Next]_HP!Feed!vars
  BY HP!StepRefines, HP!FieldsWereSentStep, TransferAssumption
  DEF H!HeaderAssumption
<1>4. [Next]_vars => [HP!Next]_HP!vars
  BY HeaderSteps, SameHeaders
  DEF H!vars, H!answers, H!peer, HP!vars, HP!answers, HP!peer
<1>5. Init => HP!Init
  BY SameHeaders DEF Init
<1>6. IInv => HP!IInv
  BY DEF IInv, PartsInv
<1> QED
  BY <1>1, <1>2, <1>3, <1>4, <1>5, <1>6, Invariance, PTL
  DEF Spec, HP!Contract, HP!Feed!Spec
=============================================================================
