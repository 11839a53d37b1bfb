----------------------------- MODULE HeaderProofs -----------------------------
(* Theorems about HeaderCollector, for any keys, sections and waits.       *)
EXTENDS HeaderCollector, TLAPS

(***************************************************************************)
(* The inductive invariant.                                                *)
(*                                                                         *)
(* Calls: the calls that were not made yet are the last ones, who waits is *)
(* whom the handler belongs to, and no later call has overtaken it.        *)
(***************************************************************************)
IdleAreLast ==
  \A op1, op2 \in Waits :
    op1 < op2 /\ status[op1] = "idle" => status[op2] = "idle"

WaitingIsHandler == \A op \in Waits : status[op] = "waiting" <=> handler = op

NotOvertaken ==
  \A op \in Waits : op > handler /\ handler # None => status[op] # "success"

(* Sections: Current is the one the next line belongs to.  While one has   *)
(* not begun, _fields is what is left of the last, and NewSection tells.   *)
Current == headers_received + 1

ToCome ==
  \A n \in Sections : n > Current \/ (n = Current /\ ~inside) => lines[n] = {}

InsideIsBegun == inside => ~NewSection

OneBehind == NewSection => last_clear + 1 = headers_received

ReadyIsBehind ==
  ready => last_clear + 1 = headers_received /\ ~inside

TornIsBegun ==
  \A n \in torn : n <= headers_received \/ (n = Current /\ inside)

(* What is in _fields: the section that arrives, or the one that is ready, *)
(* unless a cancelled call took fields of it away.                         *)
Collecting ==
  ~finished /\ ~NewSection /\ Current \in Sections \ torn =>
    fields = Section(Current)

ReadySection ==
  ~finished /\ ready /\ headers_received \notin torn =>
    fields = Section(headers_received)

(* What was handed out is over: no line of it is still to come.            *)
AnsweredIsOver ==
  \A op \in Waits : status[op] = "success" =>
    of[op] \in Sections /\ of[op] <= headers_received

ReadyIsNew ==
  ready => \A op \in Waits : status[op] = "success" => of[op] < headers_received

(* Whatever a call is given, with success or with an error, stems from one *)
(* section.                                                                *)
NoMixing ==
  \A op \in Waits : \A k1, k2 \in Keys :
    {given[op][k1], given[op][k2]} \subseteq Sections
      => given[op][k1] = given[op][k2]

IInv ==
  /\ TypeOK
  /\ fields \in FieldMap
  /\ IdleAreLast /\ WaitingIsHandler /\ NotOvertaken
  /\ ToCome /\ InsideIsBegun /\ OneBehind /\ ReadyIsBehind /\ TornIsBegun
  /\ Collecting /\ ReadySection
  /\ AnsweredIsOver /\ ReadyIsNew
  /\ SuccessIsSection
  /\ DeliveredOnceInOrder
  /\ NoMixing
  /\ NoLostWakeup

(* No number of a call or of a section is None.                            *)
LEMMA NoneIsOutside ==
  /\ None \notin Waits /\ None \notin Sections
  /\ Waits \subseteq Nat /\ Sections \subseteq Nat
  /\ MaxSections \in Nat
  BY HeaderAssumption DEF None, Waits, Sections

LEMMA InitIInv == Init => IInv
<1> SUFFICES ASSUME Init PROVE IInv
  OBVIOUS
<1> USE NoneIsOutside DEF Init
<1>1. NoFields \in FieldMap /\ NoFields \in [Keys -> {None, 0 + 1}]
  BY DEF NoFields, FieldMap
<1>2. TypeOK /\ fields \in FieldMap
  <2>1. /\ fields \in [Keys -> {None, last_clear + 1}] /\ fields \in FieldMap
        /\ given \in [Waits -> FieldMap]
    BY <1>1
  <2>2. /\ last_clear \in 0 .. headers_received
        /\ headers_received \in 0 .. MaxSections
    OBVIOUS
  <2>3. /\ status \in [Waits -> {"idle", "waiting"} \cup Results]
        /\ of \in [Waits -> Sections \cup {None}]
        /\ lines \in [Sections -> SUBSET Keys]
        /\ handler \in Waits \cup {None} /\ torn \subseteq Sections
        /\ ready \in BOOLEAN /\ finished \in BOOLEAN /\ inside \in BOOLEAN
    OBVIOUS
  <2> QED
    BY <2>1, <2>2, <2>3 DEF TypeOK
<1>3. IdleAreLast /\ WaitingIsHandler /\ NotOvertaken
  BY DEF IdleAreLast, WaitingIsHandler, NotOvertaken
<1>4. ToCome /\ InsideIsBegun /\ OneBehind /\ ReadyIsBehind /\ TornIsBegun
  BY DEF ToCome, InsideIsBegun, OneBehind, ReadyIsBehind, TornIsBegun,
    NewSection
<1>5. Collecting /\ ReadySection
  BY DEF Collecting, ReadySection, Section, NoFields, Current
<1>6. AnsweredIsOver /\ ReadyIsNew /\ SuccessIsSection /\ DeliveredOnceInOrder
  BY DEF AnsweredIsOver, ReadyIsNew, SuccessIsSection, DeliveredOnceInOrder
<1>7. NoMixing /\ NoLostWakeup
  BY DEF NoMixing, NoLostWakeup, NoFields
<1> QED
  BY <1>2, <1>3, <1>4, <1>5, <1>6, <1>7 DEF IInv

-----------------------------------------------------------------------------
(* Fields of one section do not mix.                                       *)
LEMMA OneSection ==
  ASSUME NEW n, NEW map \in [Keys -> {None, n}], NEW k1 \in Keys,
         NEW k2 \in Keys, {map[k1], map[k2]} \subseteq Sections
  PROVE  map[k1] = map[k2]
  BY NoneIsOutside

(* _fields once the first line of a section has emptied it.                *)
LEMMA ClearedFields ==
  ASSUME IInv
  PROVE  /\ Cleared \in FieldMap
         /\ Cleared \in [Keys -> {None, headers_received + 1}]
         /\ NewSection => Cleared = NoFields
         /\ ~NewSection => Cleared = fields /\ last_clear = headers_received
         /\ headers_received \in Nat /\ last_clear \in Nat
<1>1. /\ last_clear \in Nat /\ headers_received \in Nat
      /\ last_clear <= headers_received
  BY NoneIsOutside DEF IInv, TypeOK
<1>2. ~NewSection => last_clear = headers_received
  BY <1>1 DEF NewSection
<1>3. NoFields \in FieldMap /\ NoFields \in [Keys -> {None, headers_received + 1}]
  BY DEF NoFields, FieldMap
<1> QED
  BY <1>1, <1>2, <1>3 DEF Cleared, IInv, TypeOK

(* A call gets a result: what that means for the calls.                    *)
LEMMA AnswerTypes ==
  ASSUME TypeOK, NEW op \in Waits, NEW result \in Results,
         NEW map \in FieldMap, NEW section \in Sections \cup {None},
         Answer(op, result, map, section)
  PROVE  /\ status' \in [Waits -> {"idle", "waiting"} \cup Results]
         /\ given' \in [Waits -> FieldMap]
         /\ of' \in [Waits -> Sections \cup {None}]
         /\ \A c \in Waits : status'[c] = IF c = op THEN result ELSE status[c]
         /\ \A c \in Waits : given'[c] = IF c = op THEN map ELSE given[c]
         /\ \A c \in Waits : of'[c] = IF c = op THEN section ELSE of[c]
  BY DEF TypeOK, Answer

(* What a failed call does to what was handed out: nothing.               *)
LEMMA HistoryOfFailure ==
  ASSUME IInv, NEW op \in Waits,
         NEW result \in {"eof", "aborted", "multiple_headers_awaitings"},
         NEW map \in FieldMap, NEW n, map \in [Keys -> {None, n}],
         Answer(op, result, map, None),
         UNCHANGED <<lines, headers_received>>,
         torn \subseteq torn', ready' => ready
  PROVE  /\ AnsweredIsOver' /\ ReadyIsNew'
         /\ SuccessIsSection' /\ DeliveredOnceInOrder' /\ NoMixing'
<1> USE DEF IInv
<1>1. /\ \A c \in Waits : status'[c] = IF c = op THEN result ELSE status[c]
      /\ \A c \in Waits : given'[c] = IF c = op THEN map ELSE given[c]
      /\ \A c \in Waits : of'[c] = IF c = op THEN None ELSE of[c]
  <2>1. result \in Results
    BY DEF Results
  <2> QED
    BY <2>1, AnswerTypes
<1>2. \A c \in Waits : status'[c] = "success" =>
        /\ status[c] = "success" /\ of'[c] = of[c] /\ given'[c] = given[c]
  BY <1>1
<1>3. AnsweredIsOver' /\ ReadyIsNew'
  BY <1>2 DEF AnsweredIsOver, ReadyIsNew
<1>4. SuccessIsSection'
  BY <1>2 DEF SuccessIsSection, Section
<1>5. DeliveredOnceInOrder'
  BY <1>2 DEF DeliveredOnceInOrder
<1>6. NoMixing'
  <2> SUFFICES ASSUME NEW c \in Waits, NEW k1 \in Keys, NEW k2 \in Keys,
                      {given'[c][k1], given'[c][k2]} \subseteq Sections
               PROVE  given'[c][k1] = given'[c][k2]
    BY DEF NoMixing
  <2>1. CASE c = op
    BY <1>1, <2>1, OneSection
  <2>2. CASE c # op
    BY <1>1, <2>2 DEF NoMixing
  <2> QED
    BY <2>1, <2>2
<1> QED
  BY <1>3, <1>4, <1>5, <1>6

(* What a successful call does to it, if its section is newer than all     *)
(* that were handed out and no later call has got one.                     *)
LEMMA HistoryOfSuccess ==
  ASSUME IInv, NEW op \in Waits, NEW section \in Sections,
         NEW map \in FieldMap, NEW n, map \in [Keys -> {None, n}],
         Answer(op, "success", map, section),
         UNCHANGED <<lines, torn>>, ready' = FALSE,
         headers_received \in Nat, headers_received' \in Nat,
         headers_received <= headers_received', section <= headers_received',
         section \notin torn => map = Section(section),
         status[op] # "success",
         \A c \in Waits : status[c] = "success" => c < op /\ of[c] < section
  PROVE  /\ AnsweredIsOver' /\ ReadyIsNew'
         /\ SuccessIsSection' /\ DeliveredOnceInOrder' /\ NoMixing'
<1> USE NoneIsOutside DEF IInv
<1>1. /\ \A c \in Waits : status'[c] = IF c = op THEN "success" ELSE status[c]
      /\ \A c \in Waits : given'[c] = IF c = op THEN map ELSE given[c]
      /\ \A c \in Waits : of'[c] = IF c = op THEN section ELSE of[c]
  <2>1. "success" \in Results
    BY DEF Results
  <2> QED
    BY <2>1, AnswerTypes
<1>2. AnsweredIsOver' /\ ReadyIsNew'
  <2> SUFFICES ASSUME NEW c \in Waits, status'[c] = "success"
               PROVE  of'[c] \in Sections /\ of'[c] <= headers_received'
    BY DEF AnsweredIsOver, ReadyIsNew
  <2>1. CASE c = op
    BY <1>1, <2>1
  <2>2. CASE c # op
    <3>1. /\ of[c] \in Sections /\ of[c] <= headers_received /\ of'[c] = of[c]
          /\ of[c] \in Nat
      BY <1>1, <2>2 DEF AnsweredIsOver
    <3> QED
      BY <3>1
  <2> QED
    BY <2>1, <2>2
<1>3. SuccessIsSection'
  BY <1>1 DEF SuccessIsSection, Section
<1>4. DeliveredOnceInOrder'
  <2> SUFFICES ASSUME NEW c1 \in Waits, NEW c2 \in Waits, c1 < c2,
                      status'[c1] = "success", status'[c2] = "success"
               PROVE  of'[c1] < of'[c2]
    BY DEF DeliveredOnceInOrder
  <2>1. CASE c2 = op
    BY <1>1, <2>1
  <2>2. CASE c1 = op
    BY <1>1, <2>2
  <2>3. CASE c1 # op /\ c2 # op
    BY <1>1, <2>3 DEF DeliveredOnceInOrder
  <2> QED
    BY <2>1, <2>2, <2>3
<1>5. NoMixing'
  <2> SUFFICES ASSUME NEW c \in Waits, NEW k1 \in Keys, NEW k2 \in Keys,
                      {given'[c][k1], given'[c][k2]} \subseteq Sections
               PROVE  given'[c][k1] = given'[c][k2]
    BY DEF NoMixing
  <2>1. CASE c = op
    BY <1>1, <2>1, OneSection
  <2>2. CASE c # op
    BY <1>1, <2>2 DEF NoMixing
  <2> QED
    BY <2>1, <2>2
<1> QED
  BY <1>2, <1>3, <1>4, <1>5

(* Who waits gets its result and leaves the handler.                       *)
LEMMA HandlerAnswered ==
  ASSUME IInv, handler # None, NEW result \in Results, NEW map \in FieldMap,
         NEW section \in Sections \cup {None},
         Answer(handler, result, map, section), handler' = None
  PROVE  IdleAreLast' /\ WaitingIsHandler' /\ NotOvertaken' /\ NoLostWakeup'
<1> USE NoneIsOutside DEF IInv
<1>1. handler \in Waits /\ status[handler] = "waiting"
  BY DEF TypeOK, WaitingIsHandler
<1>2. \A c \in Waits :
        status'[c] = IF c = handler THEN result ELSE status[c]
  BY <1>1, AnswerTypes
<1>3. result \notin {"idle", "waiting"}
  BY DEF Results
<1> QED
  BY <1>1, <1>2, <1>3
  DEF IdleAreLast, WaitingIsHandler, NotOvertaken, NoLostWakeup

(* A new call gets its result at once.                                     *)
LEMMA NewAnswered ==
  ASSUME IInv, NEW op \in Waits, New(op), NEW result \in Results,
         NEW map \in FieldMap, NEW section \in Sections \cup {None},
         Answer(op, result, map, section),
         handler' = handler, handler = None \/ result # "success",
         ready' => ready, finished' = finished
  PROVE  IdleAreLast' /\ WaitingIsHandler' /\ NotOvertaken' /\ NoLostWakeup'
<1> USE NoneIsOutside DEF IInv
<1>1. \A c \in Waits : status'[c] = IF c = op THEN result ELSE status[c]
  BY AnswerTypes
<1>2. result \notin {"idle", "waiting"}
  BY DEF Results
<1>3. IdleAreLast'
  BY <1>1, <1>2 DEF New, IdleAreLast
<1>4. WaitingIsHandler'
  BY <1>1, <1>2 DEF New, WaitingIsHandler
<1> QED
  BY <1>1, <1>3, <1>4 DEF NotOvertaken, NoLostWakeup

-----------------------------------------------------------------------------
LEMMA RefusedIInv ==
  ASSUME IInv, NEW op \in Waits, WaitRefused(op)
  PROVE  IInv'
<1> USE NoneIsOutside DEF IInv
<1>1. /\ New(op)
      /\ Answer(op, "multiple_headers_awaitings", NoFields, None)
      /\ UNCHANGED <<fields, last_clear, headers_received, ready, finished,
                     handler, lines, inside, torn>>
  BY DEF WaitRefused, peer
<1>2. /\ NoFields \in FieldMap /\ NoFields \in [Keys -> {None, 0}]
      /\ "multiple_headers_awaitings" \in Results
  BY DEF NoFields, FieldMap, Results
<1>3. TypeOK' /\ fields' \in FieldMap
  BY <1>1, <1>2, AnswerTypes DEF TypeOK
<1>4. IdleAreLast' /\ WaitingIsHandler' /\ NotOvertaken' /\ NoLostWakeup'
  BY <1>1, <1>2, NewAnswered
<1>5. /\ ToCome' /\ InsideIsBegun' /\ OneBehind' /\ ReadyIsBehind'
      /\ TornIsBegun' /\ Collecting' /\ ReadySection'
  BY <1>1 DEF ToCome, InsideIsBegun, OneBehind, ReadyIsBehind, TornIsBegun,
    Collecting, ReadySection, NewSection, Current, Section
<1>6. /\ AnsweredIsOver' /\ ReadyIsNew'
      /\ SuccessIsSection' /\ DeliveredOnceInOrder' /\ NoMixing'
  BY <1>1, <1>2, HistoryOfFailure
<1> QED
  BY <1>3, <1>4, <1>5, <1>6

LEMMA WaitsIInv ==
  ASSUME IInv, NEW op \in Waits, WaitWaits(op)
  PROVE  IInv'
<1> USE NoneIsOutside DEF IInv
<1>1. /\ New(op) /\ handler = None /\ ~ready /\ ~finished
      /\ handler' = op
      /\ status' = [status EXCEPT ![op] = "waiting"]
      /\ UNCHANGED <<fields, last_clear, headers_received, ready, finished,
                     given, of, lines, inside, torn>>
  BY DEF WaitWaits, MustWait, peer
<1>2. TypeOK' /\ fields' \in FieldMap
  BY <1>1 DEF TypeOK
<1>3. IdleAreLast' /\ WaitingIsHandler'
  BY <1>1 DEF TypeOK, New, IdleAreLast, WaitingIsHandler
<1>4. NotOvertaken' /\ NoLostWakeup'
  BY <1>1 DEF TypeOK, New, IdleAreLast, NotOvertaken, NoLostWakeup
<1>5. /\ ToCome' /\ InsideIsBegun' /\ OneBehind' /\ ReadyIsBehind'
      /\ TornIsBegun' /\ Collecting' /\ ReadySection'
  BY <1>1 DEF ToCome, InsideIsBegun, OneBehind, ReadyIsBehind, TornIsBegun,
    Collecting, ReadySection, NewSection, Current, Section
<1>6. /\ AnsweredIsOver' /\ ReadyIsNew' /\ SuccessIsSection'
      /\ DeliveredOnceInOrder' /\ NoMixing'
  BY <1>1 DEF TypeOK, AnsweredIsOver, ReadyIsNew, SuccessIsSection,
    DeliveredOnceInOrder, NoMixing, Section
<1> QED
  BY <1>2, <1>3, <1>4, <1>5, <1>6

(* The end of the transfer, and the calls after it.                        *)
LEMMA AtEndIInv ==
  ASSUME IInv, NEW op \in Waits, WaitAtEnd(op)
  PROVE  IInv'
<1> USE NoneIsOutside DEF IInv
<1>1. /\ New(op) /\ finished
      /\ Answer(op, "eof", fields, None)
      /\ fields' = NoFields
      /\ UNCHANGED <<last_clear, headers_received, ready, finished, handler,
                     lines, inside, torn>>
  BY DEF WaitAtEnd, peer
<1>2. /\ NoFields \in FieldMap /\ NoFields \in [Keys -> {None, last_clear + 1}]
      /\ fields \in FieldMap /\ fields \in [Keys -> {None, last_clear + 1}]
      /\ "eof" \in Results
  BY DEF NoFields, FieldMap, Results, TypeOK
<1>3. TypeOK' /\ fields' \in FieldMap
  BY <1>1, <1>2, AnswerTypes DEF TypeOK
<1>4. IdleAreLast' /\ WaitingIsHandler' /\ NotOvertaken' /\ NoLostWakeup'
  BY <1>1, <1>2, NewAnswered
<1>5. /\ ToCome' /\ InsideIsBegun' /\ OneBehind' /\ ReadyIsBehind'
      /\ TornIsBegun' /\ Collecting' /\ ReadySection'
  BY <1>1 DEF ToCome, InsideIsBegun, OneBehind, ReadyIsBehind, TornIsBegun,
    Collecting, ReadySection, NewSection, Current
<1>6. /\ AnsweredIsOver' /\ ReadyIsNew'
      /\ SuccessIsSection' /\ DeliveredOnceInOrder' /\ NoMixing'
  BY <1>1, <1>2, HistoryOfFailure
<1> QED
  BY <1>3, <1>4, <1>5, <1>6

LEMMA StopIInv ==
  ASSUME IInv, StopUnawaited \/ StopAwaited
  PROVE  IInv'
<1> USE NoneIsOutside DEF IInv
<1>1. CASE StopUnawaited
  BY <1>1 DEF StopUnawaited, answers, peer, TypeOK, IdleAreLast,
    WaitingIsHandler, NotOvertaken, NoLostWakeup, ToCome, InsideIsBegun,
    OneBehind, ReadyIsBehind, TornIsBegun, Collecting, ReadySection,
    NewSection, Current, Section, AnsweredIsOver, ReadyIsNew,
    SuccessIsSection, DeliveredOnceInOrder, NoMixing
<1>2. CASE StopAwaited
  <2>1. /\ handler # None /\ finished'
        /\ Answer(handler, "eof", fields, None)
        /\ fields' = NoFields /\ handler' = None /\ finished' = TRUE
        /\ UNCHANGED <<last_clear, headers_received, ready, lines, inside, torn>>
    BY <1>2 DEF StopAwaited, peer
  <2>2. /\ NoFields \in FieldMap
        /\ NoFields \in [Keys -> {None, last_clear + 1}]
        /\ fields \in FieldMap /\ fields \in [Keys -> {None, last_clear + 1}]
        /\ "eof" \in Results /\ handler \in Waits
    BY <2>1 DEF NoFields, FieldMap, Results, TypeOK
  <2>3. TypeOK' /\ fields' \in FieldMap
    BY <2>1, <2>2, AnswerTypes DEF TypeOK
  <2>4. IdleAreLast' /\ WaitingIsHandler' /\ NotOvertaken' /\ NoLostWakeup'
    BY <2>1, <2>2, HandlerAnswered
  <2>5. /\ ToCome' /\ InsideIsBegun' /\ OneBehind' /\ ReadyIsBehind'
        /\ TornIsBegun' /\ Collecting' /\ ReadySection'
    BY <2>1 DEF ToCome, InsideIsBegun, OneBehind, ReadyIsBehind, TornIsBegun,
      Collecting, ReadySection, NewSection, Current
  <2>6. /\ AnsweredIsOver' /\ ReadyIsNew'
        /\ SuccessIsSection' /\ DeliveredOnceInOrder' /\ NoMixing'
    BY <2>1, <2>2, HistoryOfFailure
  <2> QED
    BY <2>3, <2>4, <2>5, <2>6
<1> QED
  BY <1>1, <1>2

(* A section that is ready is handed out: it is newer than those before.   *)
LEMMA ReadyIInv ==
  ASSUME IInv, NEW op \in Waits, WaitReady(op)
  PROVE  IInv'
<1> USE NoneIsOutside DEF IInv
<1>1. /\ New(op) /\ ~finished /\ ready /\ ready' = FALSE
      /\ Answer(op, "success", fields, headers_received)
      /\ fields' = NoFields
      /\ UNCHANGED <<last_clear, headers_received, finished, handler,
                     lines, inside, torn>>
  BY DEF WaitReady, Taken, peer
<1>2. /\ NoFields \in FieldMap /\ NoFields \in [Keys -> {None, last_clear + 1}]
      /\ fields \in FieldMap /\ fields \in [Keys -> {None, last_clear + 1}]
      /\ "success" \in Results /\ handler = None
  BY <1>1 DEF NoFields, FieldMap, Results, TypeOK, NoLostWakeup
<1>3. /\ headers_received \in Sections /\ headers_received \in Nat
      /\ last_clear \in Nat /\ NewSection
  BY <1>1 DEF TypeOK, ReadyIsBehind, NewSection, Sections
<1>4. TypeOK' /\ fields' \in FieldMap
  BY <1>1, <1>2, <1>3, AnswerTypes DEF TypeOK
<1>5. IdleAreLast' /\ WaitingIsHandler' /\ NotOvertaken' /\ NoLostWakeup'
  BY <1>1, <1>2, <1>3, NewAnswered
<1>6. /\ ToCome' /\ InsideIsBegun' /\ OneBehind' /\ ReadyIsBehind'
      /\ TornIsBegun' /\ Collecting' /\ ReadySection'
  BY <1>1, <1>3 DEF ToCome, InsideIsBegun, OneBehind, ReadyIsBehind,
    TornIsBegun, Collecting, ReadySection, NewSection, Current
<1>7. \A c \in Waits : status[c] = "success" =>
        c < op /\ of[c] < headers_received
  <2> SUFFICES ASSUME NEW c \in Waits, status[c] = "success"
               PROVE  c < op /\ of[c] < headers_received
    OBVIOUS
  <2>1. status[op] = "idle" /\ c # op
    BY <1>1 DEF New
  <2>2. ~(op < c)
    BY <2>1 DEF IdleAreLast
  <2>3. c \in Nat /\ op \in Nat
    OBVIOUS
  <2> QED
    BY <1>1, <2>1, <2>2, <2>3 DEF ReadyIsNew
<1>8. /\ headers_received \notin torn => fields = Section(headers_received)
      /\ status[op] # "success" /\ headers_received' \in Nat
      /\ headers_received <= headers_received'
  BY <1>1, <1>3 DEF ReadySection, New
<1>9. /\ AnsweredIsOver' /\ ReadyIsNew'
      /\ SuccessIsSection' /\ DeliveredOnceInOrder' /\ NoMixing'
  BY <1>1, <1>2, <1>3, <1>7, <1>8, HistoryOfSuccess
<1> QED
  BY <1>4, <1>5, <1>6, <1>9

(* A cancelled call takes what was collected, and torn tells of it.        *)
LEMMA CancelIInv ==
  ASSUME IInv, NEW op \in Waits, Cancel(op)
  PROVE  IInv'
<1> USE NoneIsOutside DEF IInv
<1>1. /\ handler = op /\ handler # None
      /\ Answer(handler, "aborted", fields, None)
      /\ fields' = NoFields /\ handler' = None
      /\ torn' = IF inside /\ headers_received < MaxSections
                 THEN torn \cup {headers_received + 1} ELSE torn
      /\ UNCHANGED <<last_clear, headers_received, ready, finished, lines,
                     inside>>
  BY DEF Cancel, peer
<1>2. /\ NoFields \in FieldMap /\ NoFields \in [Keys -> {None, last_clear + 1}]
      /\ fields \in FieldMap /\ fields \in [Keys -> {None, last_clear + 1}]
      /\ "aborted" \in Results /\ handler \in Waits
      /\ ~ready
  BY <1>1 DEF NoFields, FieldMap, Results, TypeOK, NoLostWakeup
<1>3. /\ headers_received \in Nat /\ headers_received <= MaxSections
      /\ headers_received < MaxSections => headers_received + 1 \in Sections
      /\ torn \subseteq torn' /\ torn' \subseteq Sections
  BY <1>1 DEF TypeOK, Sections
<1>4. TypeOK' /\ fields' \in FieldMap
  BY <1>1, <1>2, <1>3, AnswerTypes DEF TypeOK
<1>5. IdleAreLast' /\ WaitingIsHandler' /\ NotOvertaken' /\ NoLostWakeup'
  BY <1>1, <1>2, HandlerAnswered
<1>6. ToCome' /\ InsideIsBegun' /\ OneBehind' /\ ReadyIsBehind' /\ ReadySection'
  BY <1>1, <1>2 DEF ToCome, InsideIsBegun, OneBehind, ReadyIsBehind,
    ReadySection, NewSection, Current
<1>7. TornIsBegun'
  BY <1>1 DEF TornIsBegun, Current
<1>8. Collecting'
  <2> SUFFICES ASSUME Current \in Sections \ torn'
               PROVE  NoFields = Section(Current)
    BY <1>1 DEF Collecting, NewSection, Current, Section
  <2>1. ~inside
    BY <1>1, <1>3 DEF Current, Sections
  <2>2. lines[Current] = {}
    BY <2>1 DEF ToCome
  <2> QED
    BY <2>2 DEF NoFields, Section
<1>9. /\ AnsweredIsOver' /\ ReadyIsNew'
      /\ SuccessIsSection' /\ DeliveredOnceInOrder' /\ NoMixing'
  BY <1>1, <1>2, <1>3, HistoryOfFailure
<1> QED
  BY <1>4, <1>5, <1>6, <1>7, <1>8, <1>9

-----------------------------------------------------------------------------
(* Lines.  A line of a new section finds nothing of an old one.            *)
LEMMA LineIInv ==
  ASSUME IInv, NEW keys \in SUBSET Keys, Line(keys)
  PROVE  IInv'
<1> USE NoneIsOutside DEF IInv
<1>1. /\ headers_received < MaxSections \/ keys = {}
      /\ fields' = [k \in Keys |->
                      IF k \in keys /\ Cleared[k] = None
                      THEN Current ELSE Cleared[k]]
      /\ last_clear' = headers_received
      /\ ready' = (ready /\ ~NewSection)
      /\ lines' = [n \in Sections |->
                     IF n = Current THEN lines[n] \cup keys ELSE lines[n]]
      /\ inside' = TRUE
      /\ UNCHANGED <<headers_received, finished, handler, status, given, of,
                     torn>>
  BY DEF Line, StillReady, Current, answers
<1>2. /\ headers_received \in Nat /\ last_clear \in Nat
      /\ headers_received <= MaxSections
      /\ headers_received < MaxSections => Current \in Sections
      /\ ~(ready')
  BY <1>1 DEF TypeOK, Sections, Current, ReadyIsBehind, NewSection
<1>3. /\ Cleared \in FieldMap /\ Cleared \in [Keys -> {None, Current}]
      /\ NewSection => Cleared = NoFields
      /\ ~NewSection => Cleared = fields
  BY ClearedFields DEF Current
<1>4. TypeOK' /\ fields' \in FieldMap
  <2>1. fields' \in [Keys -> {None, Current}] /\ fields' \in FieldMap
    BY <1>1, <1>2, <1>3 DEF FieldMap
  <2>2. lines' \in [Sections -> SUBSET Keys] /\ ready' \in BOOLEAN
    BY <1>1 DEF TypeOK
  <2>3. last_clear' \in 0 .. headers_received' /\ Current = last_clear' + 1
    BY <1>1, <1>2 DEF Current
  <2> QED
    BY <1>1, <2>1, <2>2, <2>3 DEF TypeOK
<1>5. IdleAreLast' /\ WaitingIsHandler' /\ NotOvertaken' /\ NoLostWakeup'
  BY <1>1, <1>2 DEF IdleAreLast, WaitingIsHandler, NotOvertaken, NoLostWakeup
<1>6. /\ InsideIsBegun' /\ OneBehind' /\ ReadyIsBehind' /\ ReadySection'
      /\ ReadyIsNew'
  BY <1>1, <1>2 DEF InsideIsBegun, OneBehind, ReadyIsBehind, ReadySection,
    ReadyIsNew, NewSection
<1>7. ToCome' /\ TornIsBegun'
  BY <1>1, <1>2 DEF ToCome, TornIsBegun, Current
<1>8. Collecting'
  <2> SUFFICES ASSUME ~finished, Current \in Sections \ torn
               PROVE  fields' = Section(Current)'
    BY <1>1 DEF Collecting, Current, Section
  <2>1. lines'[Current] = lines[Current] \cup keys
    BY <1>1
  <2>2. Cleared = [k \in Keys |-> IF k \in lines[Current] THEN Current ELSE None]
    <3>1. CASE NewSection
      <4>1. lines[Current] = {}
        BY <3>1 DEF InsideIsBegun, ToCome
      <4> QED
        BY <3>1, <4>1, <1>3 DEF NoFields
    <3>2. CASE ~NewSection
      BY <3>2, <1>3 DEF Collecting, Section
    <3> QED
      BY <3>1, <3>2
  <2>3. \A k \in Keys : fields'[k] =
          IF k \in lines[Current] \cup keys THEN Current ELSE None
    BY <1>1, <2>2
  <2>4. Section(Current)' =
          [k \in Keys |-> IF k \in lines'[Current] THEN Current ELSE None]
    BY <1>1 DEF Section, Current
  <2> QED
    BY <1>1, <2>1, <2>3, <2>4
<1>9. SuccessIsSection'
  <2> SUFFICES ASSUME NEW c \in Waits, status[c] = "success"
               PROVE  /\ of[c] # None
                      /\ of[c] \notin torn => given[c] = Section(of[c])'
    BY <1>1 DEF SuccessIsSection, Section
  <2>1. of[c] \in Sections /\ of[c] <= headers_received
    BY DEF AnsweredIsOver
  <2>2. lines'[of[c]] = lines[of[c]]
    BY <1>1, <1>2, <2>1 DEF Current
  <2> QED
    BY <1>1, <2>1, <2>2 DEF SuccessIsSection, Section
<1>10. AnsweredIsOver' /\ DeliveredOnceInOrder' /\ NoMixing'
  BY <1>1 DEF AnsweredIsOver, DeliveredOnceInOrder, NoMixing
<1> QED
  BY <1>4, <1>5, <1>6, <1>7, <1>8, <1>9, <1>10

(* The line that ends a section, for both of its actions.                  *)
LEMMA EndOfSection ==
  ASSUME IInv, ~finished, inside, headers_received < MaxSections
  PROVE  /\ headers_received \in Nat /\ headers_received + 1 \in Sections
         /\ Cleared = fields /\ last_clear = headers_received
         /\ fields \in [Keys -> {None, headers_received + 1}]
         /\ headers_received + 1 \notin torn =>
              fields = Section(headers_received + 1)
<1> USE NoneIsOutside DEF IInv
<1>1. ~NewSection
  BY DEF InsideIsBegun
<1>2. headers_received \in Nat /\ headers_received + 1 \in Sections
  BY DEF TypeOK, Sections
<1>3. Cleared = fields /\ last_clear = headers_received
  BY <1>1, ClearedFields
<1> QED
  BY <1>1, <1>2, <1>3 DEF Collecting, Current, TypeOK

LEMMA SectionEnds ==
  ASSUME IInv, headers_received \in Nat,
         headers_received' = headers_received + 1, inside' = FALSE,
         UNCHANGED <<lines, torn>>
  PROVE  ToCome' /\ TornIsBegun'
<1> USE NoneIsOutside DEF IInv
<1>1. ToCome'
  BY DEF ToCome, Current
<1>2. TornIsBegun'
  BY DEF TypeOK, TornIsBegun, Current
<1> QED
  BY <1>1, <1>2

LEMMA EndUnawaitedIInv ==
  ASSUME IInv, EndUnawaited
  PROVE  IInv'
<1> USE NoneIsOutside DEF IInv
<1>1. /\ ~finished /\ inside /\ headers_received < MaxSections
      /\ handler = None
      /\ fields' = Cleared /\ last_clear' = headers_received
      /\ headers_received' = headers_received + 1
      /\ ready' = TRUE /\ inside' = FALSE
      /\ UNCHANGED <<finished, handler, status, given, of, lines, torn>>
  BY DEF EndUnawaited, answers
<1>2. /\ headers_received \in Nat /\ headers_received + 1 \in Sections
      /\ fields' = fields /\ last_clear = headers_received
      /\ fields \in [Keys -> {None, headers_received + 1}]
      /\ headers_received + 1 \notin torn =>
           fields = Section(headers_received + 1)
  BY <1>1, EndOfSection
<1>3. TypeOK' /\ fields' \in FieldMap
  <2>1. /\ fields' \in [Keys -> {None, last_clear' + 1}]
        /\ fields' \in FieldMap
    BY <1>1, <1>2
  <2>2. /\ headers_received' \in 0 .. MaxSections
        /\ last_clear' \in 0 .. headers_received'
    BY <1>1, <1>2
  <2> QED
    BY <1>1, <2>1, <2>2 DEF TypeOK
<1>4. IdleAreLast' /\ WaitingIsHandler' /\ NotOvertaken' /\ NoLostWakeup'
  BY <1>1 DEF IdleAreLast, WaitingIsHandler, NotOvertaken, NoLostWakeup
<1>5. ToCome' /\ TornIsBegun'
  BY <1>1, <1>2, SectionEnds
<1>6. InsideIsBegun' /\ OneBehind' /\ ReadyIsBehind' /\ Collecting'
  BY <1>1, <1>2 DEF InsideIsBegun, OneBehind, ReadyIsBehind, Collecting,
    NewSection
<1>7. ReadySection'
  <2>1. Section(headers_received)' = Section(headers_received + 1)
    BY <1>1 DEF Section
  <2>2. headers_received' \notin torn' => fields' = Section(headers_received)'
    BY <1>1, <1>2, <2>1
  <2> QED
    BY <2>2 DEF ReadySection
<1>8. AnsweredIsOver' /\ ReadyIsNew'
  <2> SUFFICES ASSUME NEW op \in Waits, status[op] = "success"
               PROVE  /\ of[op] \in Sections
                      /\ of[op] < headers_received + 1
                      /\ of[op] <= headers_received + 1
    BY <1>1 DEF AnsweredIsOver, ReadyIsNew
  <2>1. of[op] \in Sections /\ of[op] \in Nat /\ of[op] <= headers_received
    BY DEF AnsweredIsOver
  <2> QED
    BY <1>2, <2>1
<1>9. SuccessIsSection' /\ DeliveredOnceInOrder' /\ NoMixing'
  BY <1>1 DEF SuccessIsSection, Section, DeliveredOnceInOrder, NoMixing
<1> QED
  BY <1>3, <1>4, <1>5, <1>6, <1>7, <1>8, <1>9

LEMMA EndAwaitedIInv ==
  ASSUME IInv, EndAwaited
  PROVE  IInv'
<1> USE NoneIsOutside DEF IInv
<1>1. /\ ~finished /\ inside /\ headers_received < MaxSections
      /\ handler # None
      /\ last_clear' = headers_received
      /\ headers_received' = headers_received + 1
      /\ ready' = FALSE
      /\ Answer(handler, "success", Cleared, headers_received + 1)
      /\ fields' = NoFields /\ handler' = None /\ inside' = FALSE
      /\ UNCHANGED <<finished, lines, torn>>
  BY DEF EndAwaited, Taken
<1>2. /\ headers_received \in Nat /\ headers_received + 1 \in Sections
      /\ Cleared = fields /\ last_clear = headers_received
      /\ fields \in [Keys -> {None, headers_received + 1}]
      /\ headers_received + 1 \notin torn =>
           fields = Section(headers_received + 1)
  BY <1>1, EndOfSection
<1>3. /\ NoFields \in FieldMap
      /\ NoFields \in [Keys -> {None, headers_received + 1}]
      /\ fields \in FieldMap /\ "success" \in Results
      /\ handler \in Waits /\ status[handler] = "waiting"
      /\ Answer(handler, "success", fields, headers_received + 1)
  BY <1>1, <1>2 DEF NoFields, FieldMap, Results, TypeOK, WaitingIsHandler
<1>4. TypeOK' /\ fields' \in FieldMap
  <2>1. /\ fields' \in [Keys -> {None, last_clear' + 1}]
        /\ fields' \in FieldMap
    BY <1>1, <1>3
  <2>2. /\ headers_received' \in 0 .. MaxSections
        /\ last_clear' \in 0 .. headers_received'
    BY <1>1, <1>2
  <2>3. /\ status' \in [Waits -> {"idle", "waiting"} \cup Results]
        /\ given' \in [Waits -> FieldMap]
        /\ of' \in [Waits -> Sections \cup {None}]
    BY <1>2, <1>3, AnswerTypes
  <2> QED
    BY <1>1, <2>1, <2>2, <2>3 DEF TypeOK
<1>5. IdleAreLast' /\ WaitingIsHandler' /\ NotOvertaken' /\ NoLostWakeup'
  BY <1>1, <1>2, <1>3, HandlerAnswered
<1>6. ToCome' /\ TornIsBegun' /\ InsideIsBegun' /\ OneBehind'
      /\ ReadyIsBehind' /\ Collecting' /\ ReadySection'
  <2>1. ToCome' /\ TornIsBegun'
    BY <1>1, <1>2, SectionEnds
  <2> QED
    BY <1>1, <1>2, <2>1 DEF InsideIsBegun, OneBehind, ReadyIsBehind,
      Collecting, ReadySection, NewSection
<1>7. \A c \in Waits : status[c] = "success" =>
        c < handler /\ of[c] < headers_received + 1
  <2> SUFFICES ASSUME NEW c \in Waits, status[c] = "success"
               PROVE  c < handler /\ of[c] < headers_received + 1
    OBVIOUS
  <2>1. c # handler /\ ~(c > handler)
    BY <1>1, <1>3 DEF NotOvertaken
  <2>2. c \in Nat /\ handler \in Nat
    BY <1>3
  <2>3. of[c] \in Nat /\ of[c] <= headers_received
    BY DEF AnsweredIsOver
  <2> QED
    BY <1>2, <2>1, <2>2, <2>3
<1>8. /\ headers_received' \in Nat /\ headers_received <= headers_received'
      /\ headers_received + 1 <= headers_received'
      /\ status[handler] # "success"
  BY <1>1, <1>2, <1>3
<1>9. /\ AnsweredIsOver' /\ ReadyIsNew'
      /\ SuccessIsSection' /\ DeliveredOnceInOrder' /\ NoMixing'
  BY <1>1, <1>2, <1>3, <1>7, <1>8, HistoryOfSuccess
<1> QED
  BY <1>4, <1>5, <1>6, <1>9

-----------------------------------------------------------------------------
LEMMA NextIInv == IInv /\ [Next]_vars => IInv'
<1> SUFFICES ASSUME IInv, [Next]_vars PROVE IInv'
  OBVIOUS
<1>1. ASSUME NEW k \in Keys, Line({k}) PROVE IInv'
  <2>1. {k} \in SUBSET Keys
    OBVIOUS
  <2> QED
    BY <1>1, <2>1, LineIInv
<1>2. CASE Line({})
  <2>1. {} \in SUBSET Keys
    OBVIOUS
  <2> QED
    BY <1>2, <2>1, LineIInv
<1>3. CASE EndUnawaited \/ EndAwaited
  BY <1>3, EndUnawaitedIInv, EndAwaitedIInv
<1>4. CASE StopUnawaited \/ StopAwaited
  BY <1>4, StopIInv
<1>5. ASSUME NEW op \in Waits,
             \/ WaitAtEnd(op) \/ WaitReady(op) \/ WaitRefused(op)
             \/ WaitWaits(op) \/ Cancel(op)
      PROVE  IInv'
  BY <1>5, AtEndIInv, ReadyIInv, RefusedIInv, WaitsIInv, CancelIInv
<1>6. CASE UNCHANGED vars
  BY <1>6 DEF vars, answers, peer, IInv, TypeOK, IdleAreLast,
    WaitingIsHandler, NotOvertaken, NoLostWakeup, ToCome, InsideIsBegun,
    OneBehind, ReadyIsBehind, TornIsBegun, Collecting, ReadySection,
    NewSection, Current, Section, AnsweredIsOver, ReadyIsNew,
    SuccessIsSection, DeliveredOnceInOrder, NoMixing
<1> QED
  BY <1>1, <1>2, <1>3, <1>4, <1>5, <1>6 DEF Next

(* The strengthened invariant holds in every reachable state.              *)
THEOREM Invariance == Spec => []IInv
  BY InitIInv, NextIInv, PTL DEF Spec

(* All state has its type; in particular _fields never holds fields of two *)
(* sections.                                                               *)
THEOREM TypeCorrect == Spec => []TypeOK
<1>1. IInv => TypeOK
  BY DEF IInv
<1> QED
  BY <1>1, Invariance, PTL

(* A wait that succeeds is given exactly one complete section, however the *)
(* calls fall between the lines, unless a cancelled call took part of it.  *)
THEOREM WholeSections == Spec => []SuccessIsSection
<1>1. IInv => SuccessIsSection
  BY DEF IInv
<1> QED
  BY <1>1, Invariance, PTL

(* No section is handed out twice, and none after a later one.             *)
THEOREM OnceInOrder == Spec => []DeliveredOnceInOrder
<1>1. IInv => DeliveredOnceInOrder
  BY DEF IInv
<1> QED
  BY <1>1, Invariance, PTL

(* No call, failed or not, is given fields of two sections.                *)
THEOREM NotMixed == Spec => []NoMixing
<1>1. IInv => NoMixing
  BY DEF IInv
<1> QED
  BY <1>1, Invariance, PTL

(* No call waits while a section is ready or after the transfer's end.     *)
THEOREM WaiterAwake == Spec => []NoLostWakeup
<1>1. IInv => NoLostWakeup
  BY DEF IInv
<1> QED
  BY <1>1, Invariance, PTL

-----------------------------------------------------------------------------
(***************************************************************************)
(* HeaderCollector implements HeaderFeed.  _fields, filled and emptied     *)
(* line by line, is always a part of one section, the last complete one or *)
(* the next; what is handed out with success is all of it.                 *)
(***************************************************************************)
FieldsWereSent == \A k \in Keys : fields[k] # None => k \in lines[fields[k]]

LEMMA FieldsWereSentStep ==
  IInv /\ FieldsWereSent /\ [Next]_vars => FieldsWereSent'
<1> SUFFICES ASSUME IInv, FieldsWereSent, [Next]_vars PROVE FieldsWereSent'
  OBVIOUS
<1>0. /\ fields \in FieldMap /\ headers_received \in 0 .. MaxSections
      /\ lines \in [Sections -> SUBSET Keys]
      /\ NoFields \in FieldMap
  BY DEF IInv, TypeOK, NoFields, FieldMap
<1>1. ASSUME NEW keys \in SUBSET Keys, Line(keys) PROVE FieldsWereSent'
  <2>1. /\ headers_received < MaxSections \/ keys = {}
        /\ \A k \in Keys : fields'[k] = IF k \in keys /\ Cleared[k] = None
                                        THEN headers_received + 1 ELSE Cleared[k]
        /\ \A n \in Sections :
             lines'[n] = IF n = headers_received + 1 THEN lines[n] \cup keys
                         ELSE lines[n]
    BY <1>1 DEF Line
  <2>2. Cleared \in {fields, NoFields}
    BY DEF Cleared
  <2>3. ASSUME NEW k \in Keys, k \in keys, Cleared[k] = None
        PROVE  k \in lines'[fields'[k]]
    <3>1. headers_received + 1 \in Sections
      BY <1>0, <2>1, <2>3, NoneIsOutside DEF Sections
    <3> QED
      BY <2>1, <2>3, <3>1
  <2>4. ASSUME NEW k \in Keys, Cleared[k] # None PROVE k \in lines'[Cleared[k]]
    <3>1. Cleared[k] = fields[k]
      BY <2>2, <2>4 DEF NoFields
    <3>2. k \in lines[fields[k]] /\ fields[k] \in Sections
      BY <1>0, <2>4, <3>1 DEF FieldsWereSent, FieldMap
    <3> QED
      BY <2>1, <3>1, <3>2
  <2> QED
    BY <2>1, <2>3, <2>4 DEF FieldsWereSent
<1>2. ASSUME fields' \in {fields, NoFields}, lines' = lines
      PROVE  FieldsWereSent'
  BY <1>2 DEF FieldsWereSent, NoFields
<1>3. CASE EndUnawaited \/ EndAwaited
  BY <1>2, <1>3 DEF EndUnawaited, EndAwaited, Cleared
<1>4. CASE StopUnawaited \/ StopAwaited \/ UNCHANGED vars
  BY <1>2, <1>4 DEF StopUnawaited, StopAwaited, vars, peer
<1>5. ASSUME NEW op \in Waits,
             \/ WaitAtEnd(op) \/ WaitReady(op) \/ WaitRefused(op)
             \/ WaitWaits(op) \/ Cancel(op)
      PROVE  FieldsWereSent'
  BY <1>2, <1>5 DEF WaitAtEnd, WaitReady, WaitRefused, WaitWaits, Cancel, peer
<1> QED
  <2>1. \A k \in Keys : {k} \in SUBSET Keys
    OBVIOUS
  <2> QED
    BY <1>1, <1>3, <1>4, <1>5, <2>1 DEF Next

(* Who waits is whom the handler belongs to.                               *)
LEMMA WhoWaits ==
  ASSUME IInv
  PROVE  /\ \A op \in Waits : Feed!Waits(op) <=> handler = op
         /\ Feed!Nobody <=> handler = None
  BY NoneIsOutside
  DEF IInv, TypeOK, WaitingIsHandler, Feed!Waits, Feed!Nobody

(* An answer, seen as a set of fields.                                     *)
LEMMA AnswerGives ==
  ASSUME IInv, NEW op \in Waits, NEW result, NEW map, NEW section,
         Answer(op, result, map, section)
  PROVE  Feed!Give(op, result, FieldsOf(map))
<1>1. /\ status' = [status EXCEPT ![op] = result]
      /\ \A c \in Waits : given'[c] = IF c = op THEN map ELSE given[c]
  BY DEF Answer, IInv, TypeOK
<1>2. [c \in Waits |-> FieldsOf(given'[c])]
        = [[c \in Waits |-> FieldsOf(given[c])] EXCEPT ![op] = FieldsOf(map)]
  BY <1>1
<1> QED
  BY <1>1, <1>2 DEF Feed!Give

(* _fields is part of a section, and all of one that is not spoiled.       *)
LEMMA PartOfSection ==
  ASSUME IInv, FieldsWereSent
  PROVE  FieldsOf(fields) \in SUBSET Feed!Section(last_clear + 1)
<1>1. ASSUME NEW n \in Sections, NEW k \in Keys, fields[k] = n
      PROVE  n = last_clear + 1 /\ k \in lines[n]
  BY <1>1, NoneIsOutside DEF IInv, TypeOK, FieldsWereSent
<1> QED
  BY <1>1 DEF FieldsOf, Feed!Section

LEMMA PartOfSome ==
  ASSUME IInv, FieldsWereSent
  PROVE  \E n \in {headers_received, headers_received + 1} :
           FieldsOf(fields) \in SUBSET Feed!Section(n)
<1>1. last_clear + 1 \in {headers_received, headers_received + 1}
  BY NoneIsOutside DEF IInv, TypeOK, OneBehind, NewSection
<1> QED
  BY <1>1, PartOfSection

LEMMA WholeSection ==
  ASSUME NEW n \in Sections
  PROVE  FieldsOf(Section(n)) = Feed!Section(n)
<1>1. \A k \in Keys, m \in Sections :
        Section(n)[k] = m <=> m = n /\ k \in lines[n]
  BY NoneIsOutside DEF Section
<1> QED
  BY <1>1 DEF FieldsOf, Feed!Section

LEMMA StepRefines ==
  IInv /\ FieldsWereSent /\ [Next]_vars => [Feed!Next]_Feed!vars
<1> SUFFICES ASSUME IInv, FieldsWereSent, [Next]_vars
             PROVE  Feed!Next \/ UNCHANGED Feed!vars
  OBVIOUS
<1> DEFINE fs == FieldsOf(fields)
<1>0. /\ \A op \in Waits : Feed!Waits(op) <=> handler = op
      /\ Feed!Nobody <=> handler = None
      /\ handler \in Waits \cup {None}
  BY WhoWaits DEF IInv, TypeOK
<1>1. ASSUME NEW keys \in SUBSET Keys, Line(keys),
             keys = {} \/ \E k \in Keys : keys = {k}
      PROVE  Feed!Next
  <2> DEFINE sent == {f \in Sections \X Keys : f[2] \in lines[f[1]]}
  <2>1. /\ ~finished /\ inside' = TRUE
        /\ UNCHANGED <<headers_received, finished, status, given, of, torn>>
        /\ \A n \in Sections :
             lines'[n] = IF n = headers_received + 1 THEN lines[n] \cup keys
                         ELSE lines[n]
    BY <1>1 DEF Line, answers
  <2>2. ready' = FALSE
    BY <1>1, NoneIsOutside
    DEF Line, StillReady, NewSection, IInv, TypeOK, ReadyIsBehind
  <2>3. CASE keys = {}
    <3>1. sent' = sent
      BY <2>1, <2>3
    <3> QED
      BY <2>1, <2>2, <3>1
      DEF Feed!Next, Feed!Line, Feed!calls
  <2>4. ASSUME NEW k \in Keys, keys = {k} PROVE Feed!Next
    <3>1. headers_received + 1 \in Sections
      BY <1>1, <2>4, NoneIsOutside DEF Line, IInv, TypeOK, Sections
    <3>2. sent' = sent \cup {<<headers_received + 1, k>>}
      <4>1. ASSUME NEW n \in Sections, NEW j \in Keys
            PROVE  j \in lines'[n]
                     <=> j \in lines[n] \/ (n = headers_received + 1 /\ j = k)
        BY <2>1, <2>4
      <4>2. <<headers_received + 1, k>> \in Sections \X Keys
        BY <3>1
      <4>3. \A f \in Sections \X Keys :
              /\ f[1] \in Sections /\ f[2] \in Keys
              /\ f = <<headers_received + 1, k>>
                   <=> f[1] = headers_received + 1 /\ f[2] = k
        OBVIOUS
      <4>4. \A f \in Sections \X Keys :
              f[2] \in lines'[f[1]]
                <=> f[2] \in lines[f[1]] \/ f = <<headers_received + 1, k>>
        BY <4>1, <4>3
      <4> QED
        BY <4>2, <4>4
    <3> QED
      BY <2>1, <2>2, <3>2
      DEF Feed!Next, Feed!Line, Feed!calls
  <2> QED
    BY <1>1, <2>3, <2>4
<1>2. CASE EndUnawaited
  <2>1. Feed!EndOfSection
    BY <1>0, <1>2 DEF EndUnawaited, answers, Feed!EndOfSection, Feed!calls
  <2> QED
    BY <2>1 DEF Feed!Next
<1>3. CASE EndAwaited
  <2>1. /\ handler \in Waits /\ ~finished /\ inside
        /\ Answer(handler, "success", Cleared, headers_received + 1)
        /\ ready' = FALSE /\ inside' = FALSE
        /\ headers_received' = headers_received + 1
        /\ headers_received + 1 \in Sections
        /\ UNCHANGED <<finished, lines, torn>>
    BY <1>0, <1>3, NoneIsOutside
    DEF EndAwaited, Taken, IInv, TypeOK, Sections
  <2>2. Cleared = fields /\ last_clear = headers_received
    BY <2>1, ClearedFields DEF IInv, InsideIsBegun
  <2>3. fs \in SUBSET Feed!Section(headers_received + 1)
    BY <2>2, PartOfSection
  <2>4. headers_received + 1 \notin torn =>
          fs = Feed!Section(headers_received + 1)
    <3>1. ASSUME headers_received + 1 \notin torn
          PROVE  fields = Section(headers_received + 1)
      BY <2>1, <3>1 DEF IInv, Collecting, Current, InsideIsBegun
    <3> QED
      BY <2>1, <3>1, WholeSection
  <2>5. Feed!Succeed(handler, headers_received + 1)
    BY <2>1, <2>2, <2>3, <2>4, AnswerGives DEF Feed!Succeed
  <2>6. Feed!EndOfSection
    BY <1>0, <2>1, <2>5 DEF Feed!EndOfSection
  <2> QED
    BY <2>6 DEF Feed!Next
<1>4. CASE StopUnawaited
  <2>1. Feed!End
    BY <1>0, <1>4 DEF StopUnawaited, answers, peer, Feed!End, Feed!calls,
      Feed!peer
  <2> QED
    BY <2>1 DEF Feed!Next
<1>5. CASE StopAwaited
  <2>1. /\ handler \in Waits /\ ~finished /\ finished'
        /\ Answer(handler, "eof", fields, None)
        /\ UNCHANGED <<headers_received, lines, inside, torn>>
    BY <1>0, <1>5 DEF StopAwaited, peer
  <2>2. Feed!Fail(handler, "eof")
    BY <2>1, PartOfSome, AnswerGives DEF Feed!Fail
  <2>3. Feed!End
    BY <1>0, <2>1, <2>2 DEF Feed!End, Feed!peer
  <2> QED
    BY <2>3 DEF Feed!Next
<1>6. ASSUME NEW op \in Waits, WaitAtEnd(op) PROVE Feed!Next
  <2>1. Feed!Fail(op, "eof")
    BY <1>6, PartOfSome, AnswerGives DEF WaitAtEnd, Feed!Fail
  <2>2. Feed!Eof(op)
    BY <1>6, <2>1 DEF WaitAtEnd, New, peer, Feed!Eof, Feed!peer
  <2> QED
    BY <2>2 DEF Feed!Next
<1>7. ASSUME NEW op \in Waits, WaitReady(op) PROVE Feed!Next
  <2>1. /\ status[op] = "idle" /\ ready /\ ~finished /\ ready' = FALSE
        /\ Answer(op, "success", fields, headers_received)
        /\ UNCHANGED <<headers_received, finished, lines, inside, torn>>
    BY <1>7 DEF WaitReady, New, Taken, peer
  <2>2. /\ last_clear + 1 = headers_received
        /\ headers_received \in Sections
    BY <2>1, NoneIsOutside DEF IInv, TypeOK, ReadyIsBehind, Sections
  <2>3. fs \in SUBSET Feed!Section(headers_received)
    BY <2>2, PartOfSection
  <2>4. headers_received \notin torn => fs = Feed!Section(headers_received)
    BY <2>1, <2>2, WholeSection DEF IInv, ReadySection
  <2>5. Feed!Succeed(op, headers_received)
    BY <2>1, <2>3, <2>4, AnswerGives DEF Feed!Succeed
  <2>6. Feed!Take(op)
    BY <2>1, <2>5 DEF Feed!Take, Feed!peer
  <2> QED
    BY <2>6 DEF Feed!Next
<1>8. ASSUME NEW op \in Waits, WaitRefused(op) PROVE Feed!Next
  <2>1. FieldsOf(NoFields) = {}
    BY NoneIsOutside DEF FieldsOf, NoFields
  <2>2. Feed!Give(op, "multiple_headers_awaitings", {})
    BY <1>8, <2>1, AnswerGives DEF WaitRefused
  <2>3. Feed!Refuse(op)
    BY <1>0, <1>8, <2>2 DEF WaitRefused, New, peer, Feed!Refuse, Feed!peer
  <2> QED
    BY <2>3 DEF Feed!Next
<1>9. ASSUME NEW op \in Waits, WaitWaits(op) PROVE Feed!Next
  <2>1. Feed!Wait(op)
    BY <1>0, <1>9 DEF WaitWaits, MustWait, New, peer, Feed!Wait, Feed!peer
  <2> QED
    BY <2>1 DEF Feed!Next
<1>10. ASSUME NEW op \in Waits, Cancel(op) PROVE Feed!Next
  <2>1. Feed!Fail(op, "aborted")
    BY <1>10, PartOfSome, AnswerGives DEF Cancel, Feed!Fail
  <2>2. Feed!Cancel(op)
    BY <1>0, <1>10, <2>1 DEF Cancel, peer, Feed!Cancel, Feed!peer
  <2> QED
    BY <2>2 DEF Feed!Next
<1>11. CASE UNCHANGED vars
  BY <1>11 DEF vars, answers, peer, Feed!vars, Feed!calls, Feed!peer
<1> QED
  <2>1. {} \in SUBSET Keys /\ \A k \in Keys : {k} \in SUBSET Keys
    OBVIOUS
  <2> QED
    BY <1>1, <1>2, <1>3, <1>4, <1>5, <1>6, <1>7, <1>8, <1>9, <1>10, <1>11,
       <2>1
    DEF Next

LEMMA InitRefines == Init => Feed!Init
<1> SUFFICES ASSUME Init PROVE Feed!Init
  OBVIOUS
<1>1. FieldsOf(NoFields) = {}
  BY NoneIsOutside DEF FieldsOf, NoFields
<1>2. [op \in Waits |-> FieldsOf(given[op])] = [op \in Waits |-> {}]
  BY <1>1 DEF Init
<1>3. {f \in Sections \X Keys : f[2] \in lines[f[1]]} = {}
  BY DEF Init
<1> QED
  BY <1>2, <1>3 DEF Init, Feed!Init

(* What the program sees of async_wait_headers is a HeaderFeed: every step *)
(* of the collector is one of the feed or none at all.                     *)
THEOREM ImplementsFeed == Spec => Contract
<1>1. Init => FieldsWereSent
  BY DEF Init, FieldsWereSent, NoFields
<1>2. IInv /\ FieldsWereSent /\ [Next]_vars => [Feed!Next]_Feed!vars
  BY StepRefines
<1> QED
  BY <1>1, <1>2, InitRefines, FieldsWereSentStep, Invariance, PTL
  DEF Spec, Contract, Feed!Spec
=============================================================================
