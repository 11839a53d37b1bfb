--------------------------- MODULE ResponseProofs ---------------------------
(* Theorems about Response, for any body, chunks, buffers and calls.       *)
EXTENDS Response, SequenceTheorems, TLAPS

-----------------------------------------------------------------------------
(* Sequences.                                                              *)

(* A sequence is its first n elements and the rest.                        *)
LEMMA SplitInTwo ==
  ASSUME NEW S, NEW s \in Seq(S), NEW n \in 0 .. Len(s)
  PROVE  /\ SubSeq(s, 1, n) \in Seq(S)
         /\ Rest(s, n) \in Seq(S)
         /\ Len(SubSeq(s, 1, n)) = n
         /\ Len(Rest(s, n)) = Len(s) - n
         /\ SubSeq(s, 1, n) \o Rest(s, n) = s
<1>1. \A i \in 1 .. Len(s) : s[i] \in S
  BY ElementOfSeq
<1>2. Len(s) \in Nat /\ n \in Nat /\ n <= Len(s)
  BY LenProperties
<1>3. /\ SubSeq(s, 1, n) \in Seq(S)
      /\ Len(SubSeq(s, 1, n)) = n
  BY <1>1, <1>2, SubSeqProperties
<1>4. /\ Rest(s, n) \in Seq(S)
      /\ Len(Rest(s, n)) = Len(s) - n
  <2>1. \A i \in (n + 1) .. Len(s) : s[i] \in S
    BY <1>1, <1>2
  <2>2. n + 1 \in Int /\ Len(s) \in Int
    BY <1>2
  <2>3. /\ SubSeq(s, n + 1, Len(s)) \in Seq(S)
        /\ Len(SubSeq(s, n + 1, Len(s))) =
             IF n + 1 <= Len(s) THEN Len(s) - (n + 1) + 1 ELSE 0
    BY <2>1, <2>2, SubSeqProperties
  <2> QED
    BY <1>2, <2>3 DEF Rest
<1>5. SubSeq(s, 1, n) \o SubSeq(s, n + 1, Len(s)) = SubSeq(s, 1, Len(s))
  <2>1. 1 \in 1 .. Len(s) + 1 /\ n \in 1 - 1 .. Len(s) /\ Len(s) \in n .. Len(s)
    BY <1>2
  <2> QED
    BY <2>1, ConcatAdjacentSubSeq
<1>6. SubSeq(s, 1, Len(s)) = s
  BY SubSeqFull
<1> QED
  BY <1>3, <1>4, <1>5, <1>6 DEF Rest

(* A sequence is what its concatenation with another one begins with.      *)
LEMMA PrefixOfConcat ==
  ASSUME NEW S, NEW s \in Seq(S), NEW t \in Seq(S)
  PROVE  SubSeq(s \o t, 1, Len(s)) = s
<1>1. /\ s \o t \in Seq(S)
      /\ Len(s \o t) = Len(s) + Len(t)
      /\ \A i \in 1 .. Len(s) + Len(t) :
           (s \o t)[i] = IF i <= Len(s) THEN s[i] ELSE t[i - Len(s)]
  BY ConcatProperties
<1>2. Len(s) \in Nat /\ Len(t) \in Nat
  BY LenProperties
<1>3. \A i \in 1 .. Len(s) : (s \o t)[i] \in S
  BY <1>1, <1>2, ElementOfSeq
<1>4. /\ SubSeq(s \o t, 1, Len(s)) \in Seq(S)
      /\ Len(SubSeq(s \o t, 1, Len(s))) = Len(s)
      /\ \A i \in 1 .. Len(s) : SubSeq(s \o t, 1, Len(s))[i] = (s \o t)[i]
  BY <1>2, <1>3, SubSeqProperties
<1> QED
  BY <1>1, <1>2, <1>4, SeqEqual

(* A beginning of a sequence, of a beginning of it.                        *)
LEMMA PrefixOfPrefix ==
  ASSUME NEW S, NEW s \in Seq(S), NEW m \in 0 .. Len(s), NEW n \in 0 .. m
  PROVE  SubSeq(SubSeq(s, 1, m), 1, n) = SubSeq(s, 1, n)
<1>1. Len(s) \in Nat /\ m \in Nat /\ n \in Nat /\ n <= m /\ m <= Len(s)
  BY LenProperties
<1>2. \A i \in 1 .. Len(s) : s[i] \in S
  BY ElementOfSeq
<1>3. /\ SubSeq(s, 1, m) \in Seq(S)
      /\ \A i \in 1 .. m : SubSeq(s, 1, m)[i] = s[i]
  BY <1>1, <1>2, SubSeqProperties
<1>4. /\ SubSeq(s, 1, n) \in Seq(S)
      /\ Len(SubSeq(s, 1, n)) = n
      /\ \A i \in 1 .. n : SubSeq(s, 1, n)[i] = s[i]
  BY <1>1, <1>2, SubSeqProperties
<1>5. \A i \in 1 .. n : SubSeq(s, 1, m)[i] \in S
  BY <1>1, <1>2, <1>3
<1>6. /\ SubSeq(SubSeq(s, 1, m), 1, n) \in Seq(S)
      /\ Len(SubSeq(SubSeq(s, 1, m), 1, n)) = n
      /\ \A i \in 1 .. n : SubSeq(SubSeq(s, 1, m), 1, n)[i] = SubSeq(s, 1, m)[i]
  BY <1>1, <1>5, SubSeqProperties
<1>7. \A i \in 1 .. n : SubSeq(SubSeq(s, 1, m), 1, n)[i] = SubSeq(s, 1, n)[i]
  BY <1>1, <1>3, <1>4, <1>6
<1> QED
  BY <1>4, <1>6, <1>7, SeqEqual

(* The chunk of n bytes that follows the first k bytes of the body.        *)
LEMMA NextChunk ==
  ASSUME NEW k \in 0 .. Len(Body), NEW n \in 0 .. Len(Body) - k
  PROVE  /\ SubSeq(Body, k + 1, k + n) \in Seq(Bytes)
         /\ Len(SubSeq(Body, k + 1, k + n)) = n
         /\ SubSeq(Body, 1, k) \o SubSeq(Body, k + 1, k + n)
              = SubSeq(Body, 1, k + n)
<1>1. Body \in Seq(Bytes) /\ Len(Body) \in Nat
  BY ResponseAssumption, LenProperties
<1>2. k \in Nat /\ n \in Nat /\ k + n \in Nat /\ k + n <= Len(Body)
  BY <1>1
<1>3. \A i \in (k + 1) .. (k + n) : Body[i] \in Bytes
  <2> SUFFICES ASSUME NEW i \in (k + 1) .. (k + n) PROVE Body[i] \in Bytes
    OBVIOUS
  <2>1. i \in 1 .. Len(Body)
    BY <1>1, <1>2
  <2> QED
    BY <1>1, <2>1, ElementOfSeq
<1>4. k + 1 \in Int /\ k + n \in Int
  BY <1>2
<1>5. /\ SubSeq(Body, k + 1, k + n) \in Seq(Bytes)
      /\ Len(SubSeq(Body, k + 1, k + n)) =
           IF k + 1 <= k + n THEN (k + n) - (k + 1) + 1 ELSE 0
  BY <1>3, <1>4, SubSeqProperties
<1>6. Len(SubSeq(Body, k + 1, k + n)) = n
  BY <1>2, <1>5
<1>7. 1 \in 1 .. Len(Body) + 1 /\ k \in 1 - 1 .. Len(Body) /\ k + n \in k .. Len(Body)
  BY <1>1, <1>2
<1>8. SubSeq(Body, 1, k) \o SubSeq(Body, k + 1, k + n) = SubSeq(Body, 1, k + n)
  BY <1>1, <1>7, ConcatAdjacentSubSeq
<1> QED
  BY <1>5, <1>6, <1>8

(* The concatenation of three sequences, grouped either way.               *)
LEMMA Regrouped ==
  ASSUME NEW S, NEW d \in Seq(S), NEW front \in Seq(S), NEW back \in Seq(S),
         NEW s, s = front \o back
  PROVE  /\ d \o front \in Seq(S)
         /\ (d \o front) \o back = d \o s
<1>1. (d \o front) \o back = d \o (front \o back)
  BY ONLY front \in Seq(S), back \in Seq(S), d \in Seq(S), ConcatAssociative
<1>2. d \o front \in Seq(S)
  BY ConcatProperties
<1> QED
  BY <1>1, <1>2

(* Giving away the first n elements of s keeps the order of everything.    *)
LEMMA Moved ==
  ASSUME NEW S, NEW s \in Seq(S), NEW d \in Seq(S), NEW n \in 0 .. Len(s)
  PROVE  /\ d \o SubSeq(s, 1, n) \in Seq(S)
         /\ (d \o SubSeq(s, 1, n)) \o Rest(s, n) = d \o s
<1> DEFINE front == SubSeq(s, 1, n)
           back  == Rest(s, n)
<1>1. front \in Seq(S) /\ back \in Seq(S) /\ s = front \o back
  BY SplitInTwo
<1> HIDE DEF front, back
<1>2. d \o front \in Seq(S) /\ (d \o front) \o back = d \o s
  BY <1>1, Regrouped
<1> QED
  BY <1>2 DEF front, back

(* buffer_copy moves no more than either side has.                         *)
LEMMA CopiedBounds ==
  ASSUME NEW size \in Nat, NEW n \in Nat
  PROVE  Copied(size, n) \in 0 .. n /\ Copied(size, n) <= size
  BY DEF Copied

-----------------------------------------------------------------------------
(***************************************************************************)
(* The inductive invariant.  The order of the bytes needs that the buffer  *)
(* is empty when a chunk arrives, which is why NoLostWakeup, a statement   *)
(* about waiting, is part of the proof that no byte is lost; and both need *)
(* that a waiting call is the one _receive_handler belongs to.             *)
(***************************************************************************)
WaitingIsPending == \A op \in Reads : status[op] = "waiting" <=> receive = op

IInv ==
  /\ TypeOK
  /\ WaitingIsPending
  /\ NothingLostOrReordered
  /\ NoLostWakeup
  /\ ReadAheadBound

(* No number of a call is the empty Function.                              *)
LEMMA NoneIsNoRead == None \notin Reads
  BY ResponseAssumption DEF None, Reads

LEMMA InitIInv == Init => IInv
<1> SUFFICES ASSUME Init PROVE IInv
  OBVIOUS
<1>1. Len(Body) \in Nat
  BY ResponseAssumption, LenProperties
<1>2. <<>> \in Seq(Bytes) /\ Len(<<>>) = 0
  BY EmptySeq
<1>3. <<>> \o <<>> = <<>>
  BY <1>2, ConcatEmptySeq
<1>4. SubSeq(Body, 1, 0) = <<>>
  BY ResponseAssumption, SubSeqEmpty
<1>5. TypeOK
  <2> USE DEF Init
  <2>1. status \in [Reads -> {"idle", "waiting"} \cup Results]
    OBVIOUS
  <2>2. input \in Seq(Bytes) /\ delivered \in Seq(Bytes)
    BY <1>2
  <2>3. /\ accepted \in 0 .. Len(Body) /\ room \in Nat
        /\ redirects \in 0 .. MaxRedirects
    BY <1>1, ResponseAssumption
  <2>4. /\ finished \in BOOLEAN /\ connected \in BOOLEAN
        /\ paused \in BOOLEAN /\ crashed \in BOOLEAN
        /\ receive \in Reads \cup {None}
        /\ armed \subseteq Reads /\ signalled \subseteq Reads
        /\ late \subseteq Reads
    OBVIOUS
  <2> QED
    BY <2>1, <2>2, <2>3, <2>4 DEF TypeOK
<1>6. NothingLostOrReordered
  BY <1>3, <1>4 DEF Init, NothingLostOrReordered
<1>7. WaitingIsPending /\ NoLostWakeup
  BY NoneIsNoRead DEF Init, WaitingIsPending, NoLostWakeup
<1>8. ReadAheadBound
  BY <1>2, ResponseAssumption DEF Init, ReadAheadBound
<1> QED
  BY <1>5, <1>6, <1>7, <1>8 DEF IInv

(* Taking n bytes out of _input_buffer.                                    *)
LEMMA TakeFromBuffer ==
  ASSUME TypeOK, NothingLostOrReordered, ReadAheadBound,
         NEW n \in 0 .. Len(input),
         delivered' = delivered \o SubSeq(input, 1, n),
         input' = Rest(input, n),
         accepted' = accepted
  PROVE  /\ delivered' \in Seq(Bytes)
         /\ input' \in Seq(Bytes)
         /\ NothingLostOrReordered'
         /\ ReadAheadBound'
<1>1. /\ SubSeq(input, 1, n) \in Seq(Bytes)
      /\ Rest(input, n) \in Seq(Bytes)
      /\ Len(Rest(input, n)) = Len(input) - n
      /\ SubSeq(input, 1, n) \o Rest(input, n) = input
  BY SplitInTwo DEF TypeOK
<1>2. delivered' \in Seq(Bytes) /\ delivered' \o input' = delivered \o input
  BY Moved DEF TypeOK
<1>3. Len(input) \in Nat
  BY LenProperties DEF TypeOK
<1>4. NothingLostOrReordered'
  BY <1>2 DEF NothingLostOrReordered
<1>5. ReadAheadBound'
  BY <1>1, <1>3, ResponseAssumption DEF ReadAheadBound
<1> QED
  BY <1>1, <1>2, <1>4, <1>5

(* Taking a chunk of n bytes over from cURL, k of them for the caller.     *)
LEMMA TakeFromChunk ==
  ASSUME TypeOK, NothingLostOrReordered, input = <<>>,
         NEW n \in 1 .. MaxChunk, n <= Len(Body) - accepted,
         NEW k \in 0 .. n,
         NEW chunk, chunk = SubSeq(Body, accepted + 1, accepted + n),
         delivered' = delivered \o SubSeq(chunk, 1, k),
         input' = input \o Rest(chunk, k),
         accepted' = accepted + k + Len(Rest(chunk, k))
  PROVE  /\ delivered' \in Seq(Bytes)
         /\ input' \in Seq(Bytes)
         /\ accepted' = accepted + n
         /\ accepted' \in 0 .. Len(Body)
         /\ NothingLostOrReordered'
         /\ ReadAheadBound'
<1>1. /\ Len(Body) \in Nat /\ accepted \in Nat /\ n \in Nat /\ k \in Nat
      /\ accepted \in 0 .. Len(Body) /\ n \in 0 .. Len(Body) - accepted
      /\ MaxChunk \in Nat
  BY ResponseAssumption, LenProperties DEF TypeOK
<1>2. /\ chunk \in Seq(Bytes)
      /\ Len(chunk) = n
      /\ SubSeq(Body, 1, accepted) \o chunk = SubSeq(Body, 1, accepted + n)
  BY <1>1, NextChunk
<1>3. /\ SubSeq(chunk, 1, k) \in Seq(Bytes)
      /\ Rest(chunk, k) \in Seq(Bytes)
      /\ Len(Rest(chunk, k)) = n - k
      /\ SubSeq(chunk, 1, k) \o Rest(chunk, k) = chunk
  <2>1. chunk \in Seq(Bytes) /\ k \in 0 .. Len(chunk) /\ Len(chunk) = n
    BY <1>2
  <2> QED
    BY <2>1, SplitInTwo
<1>4. input' = Rest(chunk, k)
  BY <1>3, ConcatEmptySeq
<1>5. accepted' = accepted + n
  <2>1. accepted' = accepted + k + (n - k)
    BY <1>3
  <2>2. accepted + k + (n - k) = accepted + n
    BY <1>1
  <2> QED
    BY <2>1, <2>2
<1>6. delivered = SubSeq(Body, 1, accepted)
  <2>1. delivered \o <<>> = delivered
    BY ConcatEmptySeq DEF TypeOK
  <2> QED
    BY <2>1 DEF NothingLostOrReordered
<1>7. k \in 0 .. Len(chunk)
  BY <1>2
<1>8. /\ delivered' \in Seq(Bytes)
      /\ delivered' \o Rest(chunk, k) = delivered \o chunk
  <2>1. chunk \in Seq(Bytes) /\ delivered \in Seq(Bytes)
    BY <1>2 DEF TypeOK
  <2>2. /\ delivered \o SubSeq(chunk, 1, k) \in Seq(Bytes)
        /\ (delivered \o SubSeq(chunk, 1, k)) \o Rest(chunk, k)
             = delivered \o chunk
    BY ONLY <1>7, <2>1, Moved
  <2>3. delivered' = delivered \o SubSeq(chunk, 1, k)
    OBVIOUS
  <2> QED
    BY ONLY <2>2, <2>3
<1>9. NothingLostOrReordered'
  BY <1>2, <1>4, <1>5, <1>6, <1>8 DEF NothingLostOrReordered
<1>10. ReadAheadBound'
  BY <1>1, <1>3, <1>4 DEF ReadAheadBound
<1>11. input' \in Seq(Bytes)
  BY <1>3, <1>4
<1>12. accepted' \in 0 .. Len(Body)
  BY <1>1, <1>5
<1> QED
  BY <1>5, <1>8, <1>9, <1>10, <1>11, <1>12

-----------------------------------------------------------------------------
LEMMA NextIInv == IInv /\ [Next]_vars => IInv'
<1> SUFFICES ASSUME IInv, [Next]_vars PROVE IInv'
  OBVIOUS
<1> USE NoneIsNoRead, ResponseAssumption
<1>0. Len(input) \in Nat /\ Len(Body) \in Nat
  BY LenProperties DEF IInv, TypeOK
<1>1. ASSUME NEW op \in Reads, NEW size \in Sizes, ReadBuffered(op, size)
      PROVE  IInv'
  <2> DEFINE n == Copied(size, Len(input))
  <2>1. n \in 0 .. Len(input)
    BY <1>0, CopiedBounds
  <2>2. /\ delivered' = delivered \o SubSeq(input, 1, n)
        /\ input' = Rest(input, n)
        /\ status' = [status EXCEPT ![op] = "success"]
        /\ status[op] = "idle"
        /\ input # <<>>
        /\ UNCHANGED <<receive, room, finished, curl, slots>>
    BY <1>1 DEF ReadBuffered, New, Complete
  <2>3. /\ delivered' \in Seq(Bytes)
        /\ input' \in Seq(Bytes)
        /\ NothingLostOrReordered'
        /\ ReadAheadBound'
    BY <2>1, <2>2, TakeFromBuffer DEF IInv, curl
  <2>4. TypeOK'
    BY <2>2, <2>3 DEF IInv, TypeOK, Results, curl, slots
  <2>5. WaitingIsPending' /\ NoLostWakeup'
    BY <2>2 DEF IInv, TypeOK, WaitingIsPending, NoLostWakeup
  <2> QED
    BY <2>3, <2>4, <2>5 DEF IInv
<1>2. ASSUME NEW n \in 1 .. MaxChunk, Receive(n) PROVE IInv'
  <2> DEFINE chunk == SubSeq(Body, accepted + 1, accepted + n)
             k     == Copied(room, n)
  <2>1. k \in 0 .. n
    <3>1. room \in Nat /\ n \in Nat
      BY DEF IInv, TypeOK
    <3> QED
      BY <3>1, CopiedBounds
  <2>2. /\ n <= Len(Body) - accepted
        /\ receive \in Reads
        /\ status' = [status EXCEPT ![receive] = "success"]
        /\ delivered' = delivered \o SubSeq(chunk, 1, k)
        /\ input' = input \o Rest(chunk, k)
        /\ accepted' = accepted + k + Len(Rest(chunk, k))
        /\ receive' = None /\ room' = 0
        /\ UNCHANGED <<finished, connected, paused, redirects, slots>>
    BY <1>2 DEF Receive, Complete, ResetReceive, IInv, TypeOK
  <2>3. input = <<>>
    BY <2>2 DEF IInv, NoLostWakeup
  <2>4. /\ delivered' \in Seq(Bytes)
        /\ input' \in Seq(Bytes)
        /\ accepted' \in 0 .. Len(Body)
        /\ NothingLostOrReordered'
        /\ ReadAheadBound'
    <3> HIDE DEF chunk, k
    <3>1. chunk = SubSeq(Body, accepted + 1, accepted + n)
      BY DEF chunk
    <3> QED
      BY <2>1, <2>2, <2>3, <3>1, TakeFromChunk DEF IInv
  <2>5. TypeOK'
    BY <2>2, <2>4 DEF IInv, TypeOK, Results, slots
  <2>6. WaitingIsPending' /\ NoLostWakeup'
    BY <2>2 DEF IInv, TypeOK, WaitingIsPending, NoLostWakeup
  <2> QED
    BY <2>4, <2>5, <2>6 DEF IInv
<1>3. ASSUME NEW op \in Reads,
             ReadAtEnd(op) \/ ReadRefused(op) \/ ReadNotConnected(op)
      PROVE  IInv'
  <2>1. /\ status[op] = "idle"
        /\ status' \in {[status EXCEPT ![op] = "eof"],
                        [status EXCEPT ![op] = "multiple_reads"],
                        [status EXCEPT ![op] = "error"]}
        /\ receive' = receive
        /\ room' \in {room, 0}
        /\ armed' \in {armed, armed \cup {op}}
        /\ UNCHANGED <<delivered, input, finished, curl, signalled, late,
                       crashed>>
    BY <1>3 DEF ReadAtEnd, ReadRefused, ReadNotConnected, MustWait, New,
                Complete, ResetReceive, slots
  <2>2. TypeOK'
    <3>1. status' \in [Reads -> {"idle", "waiting"} \cup Results]
      BY <2>1 DEF IInv, TypeOK, Results
    <3>2. armed' \subseteq Reads /\ room' \in Nat
      BY <2>1 DEF IInv, TypeOK
    <3> QED
      BY <2>1, <3>1, <3>2 DEF IInv, TypeOK, curl
  <2>3. WaitingIsPending'
    BY <2>1 DEF IInv, TypeOK, WaitingIsPending
  <2> QED
    BY <2>1, <2>2, <2>3
    DEF IInv, NothingLostOrReordered, NoLostWakeup, ReadAheadBound, curl
<1>4. ASSUME NEW op \in Reads, NEW size \in Sizes, ReadWaits(op, size)
      PROVE  IInv'
  BY <1>4 DEF ReadWaits, MustWait, New, Complete, Resume, IInv, TypeOK,
    Results, WaitingIsPending, NothingLostOrReordered, NoLostWakeup,
    ReadAheadBound
<1>5. CASE Connect \/ Redirect \/ Pause \/ ResumedByWriter
  <2>1. /\ connected' \in {TRUE, FALSE, connected}
        /\ \/ paused' \in {FALSE, paused}
           \/ paused' = TRUE /\ receive = None
        /\ UNCHANGED <<calls, receive, room, input, finished, accepted, slots>>
    BY <1>5 DEF Connect, Redirect, Pause, ResumedByWriter, Resume
  <2>2. redirects' \in 0 .. MaxRedirects
    <3>1. \/ redirects' = redirects
          \/ redirects < MaxRedirects /\ redirects' = redirects + 1
      BY <1>5 DEF Connect, Redirect, Pause, ResumedByWriter
    <3>2. redirects \in 0 .. MaxRedirects
      BY DEF IInv, TypeOK
    <3> QED
      BY <3>1, <3>2
  <2>3. TypeOK'
    BY <2>1, <2>2 DEF IInv, TypeOK, calls, slots
  <2>4. NoLostWakeup'
    BY <2>1 DEF IInv, NoLostWakeup
  <2> QED
    BY <2>1, <2>3, <2>4
    DEF IInv, WaitingIsPending, NothingLostOrReordered, ReadAheadBound, calls
<1>6. CASE TransferDone \/ TransferFails
  <2>1. /\ finished' = TRUE
        /\ status' = IF receive = None THEN status
                     ELSE [status EXCEPT ![receive] = "eof"]
        /\ receive' = None /\ room' = 0
        /\ connected' = FALSE /\ paused' = FALSE
        /\ UNCHANGED <<delivered, input, accepted, redirects, slots>>
    BY <1>6 DEF TransferDone, TransferFails, Stop, ResetReceive
  <2>2. TypeOK'
    BY <2>1 DEF IInv, TypeOK, Results, slots
  <2>3. WaitingIsPending'
    BY <2>1 DEF IInv, TypeOK, WaitingIsPending
  <2> QED
    BY <2>1, <2>2, <2>3
    DEF IInv, NothingLostOrReordered, NoLostWakeup, ReadAheadBound
<1>7. ASSUME NEW op \in Reads, Cancel(op) PROVE IInv'
  <2>1. /\ status' = IF receive = None THEN status
                     ELSE [status EXCEPT ![receive] = "aborted"]
        /\ receive' = None /\ room' = 0
        /\ signalled' = signalled \cup {op}
        /\ late' \in {late, late \cup {op}}
        /\ crashed' \in {crashed, TRUE}
        /\ UNCHANGED <<delivered, input, finished, curl, armed>>
    BY <1>7 DEF Cancel, Complete, ResetReceive
  <2> QED
    BY <2>1 DEF IInv, TypeOK, Results, WaitingIsPending,
      NothingLostOrReordered, NoLostWakeup, ReadAheadBound, curl
<1>8. ASSUME NEW op \in Reads, SlotCleared(op) PROVE IInv'
  BY <1>8 DEF SlotCleared, IInv, TypeOK, WaitingIsPending,
    NothingLostOrReordered, NoLostWakeup, ReadAheadBound, calls, curl
<1>9. CASE UNCHANGED vars
  BY <1>9 DEF vars, calls, curl, slots, IInv, TypeOK, WaitingIsPending,
    NothingLostOrReordered, NoLostWakeup, ReadAheadBound
<1> QED
  BY <1>1, <1>2, <1>3, <1>4, <1>5, <1>6, <1>7, <1>8, <1>9
  DEF Next, AsyncReadSome

(* Every behaviour keeps the inductive invariant.                          *)
THEOREM Invariance == Spec => []IInv
  BY InitIInv, NextIInv, PTL DEF Spec

(* The response's state always has the shape the code declares; cURL is    *)
(* told to have got no more bytes than it offered.                         *)
THEOREM TypeCorrect == Spec => []TypeOK
  BY Invariance, PTL DEF IInv

(* async_read_some loses, repeats and reorders no byte.                    *)
THEOREM StreamIntact == Spec => []NothingLostOrReordered
  BY Invariance, PTL DEF IInv

(* A call that waits has nothing to wait for but cURL, and cURL goes on.   *)
THEOREM WaitersAwake == Spec => []NoLostWakeup
  BY Invariance, PTL DEF IInv

(* _input_buffer never holds more than a chunk.                            *)
THEOREM BufferBounded == Spec => []ReadAheadBound
  BY Invariance, PTL DEF IInv

-----------------------------------------------------------------------------
(***************************************************************************)
(* Cancellation.  The lambda in the slot of a call that waits finds this   *)
(* very call in _receive_handler, since no other one can wait.  The slot   *)
(* of a call that has its result may still hold the lambda; it then finds  *)
(* a later call, because calls begin in order and only one waits.          *)
(***************************************************************************)
InOrder ==
  \A op \in Reads, other \in Reads :
    other < op /\ status[other] = "idle" => status[op] = "idle"

ArmedHasBegun == \A op \in armed : status[op] # "idle"

ArmedIsEarlier == \A op \in armed : receive # None => op <= receive

Signals ==
  /\ InOrder
  /\ ArmedHasBegun
  /\ ArmedIsEarlier
  /\ AbortIsSignalled
  /\ NullInvokeIsLate

LEMMA ReadsAreNat == Reads \subseteq Nat
  BY ResponseAssumption DEF Reads

LEMMA InitSignals == Init => Signals
  BY DEF Init, Signals, InOrder, ArmedHasBegun, ArmedIsEarlier,
    AbortIsSignalled, NullInvokeIsLate

(* A call begins: all before it have, none after it.                       *)
LEMMA BeginSignals ==
  ASSUME IInv, Signals, NEW op \in Reads, AsyncReadSome(op)
  PROVE  Signals'
<1> USE ReadsAreNat, NoneIsNoRead DEF Signals
<1>1. /\ status[op] = "idle"
      /\ \A other \in Reads : other < op => status[other] # "idle"
      /\ \E r \in {"success", "waiting", "eof", "multiple_reads", "error"} :
           status' = [status EXCEPT ![op] = r]
      /\ signalled' = signalled /\ late' = late /\ crashed' = crashed
      /\ \/ receive' = receive /\ armed' = armed
         \/ receive' \in {op, None} /\ armed' = armed \cup {op}
  BY DEF AsyncReadSome, ReadBuffered, ReadWaits, ReadAtEnd, ReadRefused,
    ReadNotConnected, MustWait, New, Complete, ResetReceive, slots
<1>2. /\ status'[op] # "idle" /\ status'[op] # "aborted"
      /\ \A other \in Reads : other # op => status'[other] = status[other]
  BY <1>1 DEF IInv, TypeOK
<1>3. InOrder'
  BY <1>1, <1>2 DEF InOrder
<1>4. armed \subseteq Reads /\ armed' \subseteq Reads
  BY <1>1 DEF IInv, TypeOK
<1>5. ArmedHasBegun'
  BY <1>1, <1>2, <1>4 DEF ArmedHasBegun
<1>6. ArmedIsEarlier'
  <2> SUFFICES ASSUME NEW other \in armed', receive' # None
               PROVE  other <= receive'
    BY DEF ArmedIsEarlier
  <2>1. CASE receive' = receive /\ armed' = armed
    BY <2>1 DEF ArmedIsEarlier
  <2>2. CASE receive' = op /\ armed' = armed \cup {op}
    <3>1. CASE other = op
      BY <2>2, <3>1
    <3>2. CASE other \in armed
      <4>1. other \in Reads /\ status[other] # "idle"
        BY <1>4, <3>2 DEF ArmedHasBegun
      <4>2. ~(op < other)
        BY <1>1, <4>1 DEF InOrder
      <4> QED
        BY <2>2, <4>1, <4>2
    <3> QED
      BY <2>2, <3>1, <3>2
  <2> QED
    BY <1>1, <2>1, <2>2
<1>7. AbortIsSignalled' /\ NullInvokeIsLate'
  BY <1>1, <1>2 DEF AbortIsSignalled, NullInvokeIsLate
<1> QED
  BY <1>3, <1>5, <1>6, <1>7

(* The waiting call is answered by cURL or by the end.                     *)
LEMMA AnswerSignals ==
  ASSUME IInv, Signals,
         (\E n \in 1 .. MaxChunk : Receive(n)) \/ TransferDone \/ TransferFails
  PROVE  Signals'
<1> USE NoneIsNoRead DEF Signals
<1>1. /\ \/ status' = status
         \/ /\ receive \in Reads
            /\ status' \in {[status EXCEPT ![receive] = "success"],
                           [status EXCEPT ![receive] = "eof"]}
      /\ receive' = None
      /\ UNCHANGED <<armed, signalled, late, crashed>>
  BY DEF Receive, TransferDone, TransferFails, Stop, Complete, ResetReceive,
    slots, IInv, TypeOK
<1>2. receive \in Reads => status[receive] = "waiting"
  BY DEF IInv, WaitingIsPending
<1>3. \A op \in Reads :
        /\ status'[op] = "idle" <=> status[op] = "idle"
        /\ status'[op] = "aborted" => status[op] = "aborted"
  BY <1>1, <1>2 DEF IInv, TypeOK
<1>4. armed \subseteq Reads
  BY DEF IInv, TypeOK
<1> QED
  BY <1>1, <1>3, <1>4
  DEF InOrder, ArmedHasBegun, ArmedIsEarlier, AbortIsSignalled, NullInvokeIsLate

(* The lambda: a signal that is not late meets the call it is for.         *)
LEMMA CancelSignals ==
  ASSUME IInv, Signals, NEW op \in Reads, Cancel(op)
  PROVE  Signals'
<1> USE ReadsAreNat, NoneIsNoRead DEF Signals
<1>1. /\ op \in armed
      /\ signalled' = signalled \cup {op}
      /\ late' = IF status[op] = "waiting" THEN late ELSE late \cup {op}
      /\ receive' = None /\ armed' = armed
  BY DEF Cancel, ResetReceive
<1>2. receive # None =>
        /\ receive \in Reads /\ status[receive] = "waiting"
        /\ status' = [status EXCEPT ![receive] = "aborted"]
        /\ crashed' = crashed
  BY DEF Cancel, Complete, IInv, TypeOK, WaitingIsPending
<1>3. receive = None => status' = status /\ op \in late'
  BY <1>1 DEF Cancel, IInv, WaitingIsPending
<1>4. \A other \in Reads :
        /\ status'[other] = "idle" <=> status[other] = "idle"
        /\ status'[other] = "aborted" =>
             status[other] = "aborted" \/ other = receive
  BY <1>2, <1>3 DEF IInv, TypeOK
<1>5. armed \subseteq Reads
  BY DEF IInv, TypeOK
<1>6. InOrder' /\ ArmedHasBegun' /\ ArmedIsEarlier'
  BY <1>1, <1>4, <1>5 DEF InOrder, ArmedHasBegun, ArmedIsEarlier
<1>7. AbortIsSignalled'
  <2> SUFFICES ASSUME NEW r \in Reads, status'[r] = "aborted"
               PROVE  r \in signalled' \/ \E other \in late' : other < r
    BY DEF AbortIsSignalled
  <2>1. CASE status[r] = "aborted"
    BY <1>1, <2>1 DEF AbortIsSignalled
  <2>2. CASE r = receive /\ op = r
    BY <1>1, <2>2
  <2>3. CASE r = receive /\ op # r
    <3>1. op \in late'
      BY <1>1, <2>3 DEF IInv, WaitingIsPending
    <3>2. op < r
      BY <1>1, <2>3 DEF ArmedIsEarlier
    <3> QED
      BY <3>1, <3>2
  <2> QED
    BY <1>4, <2>1, <2>2, <2>3
<1>8. NullInvokeIsLate'
  BY <1>1, <1>2, <1>3 DEF NullInvokeIsLate
<1> QED
  BY <1>6, <1>7, <1>8

LEMMA NextSignals == IInv /\ Signals /\ [Next]_vars => Signals'
<1> SUFFICES ASSUME IInv, Signals, [Next]_vars PROVE Signals'
  OBVIOUS
<1>1. ASSUME NEW op \in Reads, AsyncReadSome(op) PROVE Signals'
  BY <1>1, BeginSignals
<1>2. CASE (\E n \in 1 .. MaxChunk : Receive(n)) \/ TransferDone \/ TransferFails
  BY <1>2, AnswerSignals
<1>3. ASSUME NEW op \in Reads, Cancel(op) PROVE Signals'
  BY <1>3, CancelSignals
<1>4. CASE \/ Connect \/ Redirect \/ Pause \/ ResumedByWriter
           \/ UNCHANGED vars
           \/ \E op \in Reads : SlotCleared(op)
  <2>1. /\ UNCHANGED <<status, receive, signalled, late, crashed>>
        /\ armed' \subseteq armed
    BY <1>4 DEF Connect, Redirect, Pause, ResumedByWriter, SlotCleared, vars,
      calls, slots
  <2> QED
    BY <2>1 DEF Signals, InOrder, ArmedHasBegun, ArmedIsEarlier,
      AbortIsSignalled, NullInvokeIsLate
<1> QED
  BY <1>1, <1>2, <1>3, <1>4 DEF Next

LEMMA SignalsInvariant == Spec => []Signals
  BY InitSignals, NextSignals, Invariance, PTL DEF Spec

(* Cancellation in the order of the calls: who gets operation_aborted was  *)
(* cancelled, or a call before it was cancelled when it had its result.    *)
(* As long as no call is cancelled late, every call is aborted by its own  *)
(* signal; no assumption is made about the program.                        *)
THEOREM OnlyLateHitsOthers == Spec => []AbortIsSignalled
  BY SignalsInvariant, PTL DEF Signals

(* The cancellation lambda of async_read_some, which tests nothing, finds  *)
(* _receive_handler empty only if the call cancelled had its result.       *)
THEOREM OnlyLateFindsNone == Spec => []NullInvokeIsLate
  BY SignalsInvariant, PTL DEF Signals

-----------------------------------------------------------------------------
(***************************************************************************)
(* BasicResponse implements ByteStream: the buffered rest of a chunk and   *)
(* the pausing of cURL cannot be told from a plain stream.                 *)
(***************************************************************************)

(* A beginning of the body, cut in two: the first part is one as well.     *)
LEMMA FirstPart ==
  ASSUME NEW d \in Seq(Bytes), NEW i \in Seq(Bytes), NEW a \in 0 .. Len(Body),
         d \o i = SubSeq(Body, 1, a)
  PROVE  Len(d) \in 0 .. Len(Body) /\ d = SubSeq(Body, 1, Len(d))
<1>1. Body \in Seq(Bytes) /\ Len(Body) \in Nat /\ a \in Nat
  BY ResponseAssumption, LenProperties
<1>2. Len(d) \in Nat /\ Len(i) \in Nat
  BY LenProperties
<1>3. \A j \in 1 .. a : Body[j] \in Bytes
  BY <1>1, ElementOfSeq
<1>4. Len(SubSeq(Body, 1, a)) = a
  BY <1>1, <1>3, SubSeqProperties
<1>5. Len(d \o i) = Len(d) + Len(i)
  BY ConcatProperties
<1>6. Len(d) \in 0 .. a
  BY <1>2, <1>4, <1>5
<1>7. SubSeq(d \o i, 1, Len(d)) = d
  BY PrefixOfConcat
<1>8. SubSeq(SubSeq(Body, 1, a), 1, Len(d)) = SubSeq(Body, 1, Len(d))
  BY <1>1, <1>6, PrefixOfPrefix
<1> QED
  BY <1>1, <1>6, <1>7, <1>8

(* Bytes given to the program are the next ones of the body.               *)
LEMMA ServesNext ==
  ASSUME IInv, IInv', NEW s \in Seq(Bytes), delivered' = delivered \o s
  PROVE  \E to \in Len(delivered) .. Len(Body) : delivered' = SubSeq(Body, 1, to)
<1>1. /\ Len(delivered') \in 0 .. Len(Body)
      /\ delivered' = SubSeq(Body, 1, Len(delivered'))
  BY FirstPart DEF IInv, TypeOK, NothingLostOrReordered
<1>2. Len(delivered') = Len(delivered) + Len(s)
  BY ConcatProperties DEF IInv, TypeOK
<1>3. Len(delivered) \in Nat /\ Len(s) \in Nat /\ Len(Body) \in Nat
  BY ResponseAssumption, LenProperties DEF IInv, TypeOK
<1>4. Len(delivered') \in Len(delivered) .. Len(Body)
  BY <1>1, <1>2, <1>3
<1> QED
  BY <1>1, <1>4

(* Who waits is whom _receive_handler belongs to.                          *)
LEMMA WhoWaits ==
  ASSUME IInv
  PROVE  /\ \A op \in Reads : Stream!Waits(op) <=> receive = op
         /\ Stream!Nobody <=> receive = None
BY NoneIsNoRead
DEF IInv, TypeOK, WaitingIsPending, Stream!Waits, Stream!Nobody

LEMMA StepRefines == IInv /\ IInv' /\ [Next]_vars => [Stream!Next]_Stream!vars
<1> SUFFICES ASSUME IInv, IInv', [Next]_vars
             PROVE  Stream!Next \/ UNCHANGED Stream!vars
  OBVIOUS
<1> USE WhoWaits, NoneIsNoRead
<1>1. ASSUME NEW op \in Reads, NEW size \in Sizes, ReadBuffered(op, size)
      PROVE  Stream!Serve(op)
  <2>1. /\ status[op] = "idle" /\ input # <<>>
        /\ status' = [status EXCEPT ![op] = "success"]
        /\ delivered' = delivered \o SubSeq(input, 1, Copied(size, Len(input)))
        /\ finished' = finished
    BY <1>1 DEF ReadBuffered, New, Complete
  <2>2. Copied(size, Len(input)) \in 0 .. Len(input) /\ input \in Seq(Bytes)
    <3>1. size \in Nat /\ Len(input) \in Nat /\ input \in Seq(Bytes)
      BY ResponseAssumption, LenProperties DEF IInv, TypeOK
    <3> QED
      BY <3>1, CopiedBounds
  <2>3. SubSeq(input, 1, Copied(size, Len(input))) \in Seq(Bytes)
    BY <2>2, SplitInTwo
  <2>4. \E to \in Len(delivered) .. Len(Body) : delivered' = SubSeq(Body, 1, to)
    BY <2>1, <2>3, ServesNext
  <2>5. receive = None
    BY <2>1 DEF IInv, NoLostWakeup, TypeOK
  <2>6. (finished' /\ input' = <<>>) \in BOOLEAN
    OBVIOUS
  <2> QED
    BY <2>1, <2>4, <2>5, <2>6
    DEF Stream!Serve, Stream!Turn, Stream!Complete, IInv, TypeOK
<1>2. ASSUME NEW n \in 1 .. MaxChunk, Receive(n)
      PROVE  receive \in Reads /\ Stream!Serve(receive)
  <2> DEFINE chunk == SubSeq(Body, accepted + 1, accepted + n)
  <2>1. /\ receive \in Reads /\ ~finished /\ finished' = finished
        /\ status' = [status EXCEPT ![receive] = "success"]
        /\ delivered' = delivered \o SubSeq(chunk, 1, Copied(room, n))
        /\ n <= Len(Body) - accepted
    BY <1>2 DEF Receive, Complete, Arriving, Running, IInv, TypeOK
  <2>2. /\ n \in Nat /\ room \in Nat /\ Len(Body) \in Nat
        /\ accepted \in 0 .. Len(Body)
    BY ResponseAssumption, LenProperties DEF IInv, TypeOK
  <2>3. chunk \in Seq(Bytes) /\ Len(chunk) = n
    <3>1. n \in 0 .. Len(Body) - accepted
      BY <2>1, <2>2
    <3> QED
      BY <2>2, <3>1, NextChunk
  <2>4. Copied(room, n) \in 0 .. Len(chunk)
    BY <2>2, <2>3, CopiedBounds
  <2> HIDE DEF chunk
  <2>5. SubSeq(chunk, 1, Copied(room, n)) \in Seq(Bytes)
    BY <2>3, <2>4, SplitInTwo
  <2>6. \E to \in Len(delivered) .. Len(Body) : delivered' = SubSeq(Body, 1, to)
    BY <2>1, <2>5, ServesNext
  <2>7. (finished' /\ input' = <<>>) \in BOOLEAN
    OBVIOUS
  <2> QED
    BY <2>1, <2>6, <2>7
    DEF Stream!Serve, Stream!Turn, Stream!Complete, IInv, TypeOK
<1>3. ASSUME NEW op \in Reads, ReadAtEnd(op) PROVE Stream!Eof(op)
  BY <1>3 DEF ReadAtEnd, New, Complete, Stream!Eof, Stream!Complete
<1>4. ASSUME NEW op \in Reads, ReadRefused(op) PROVE Stream!Refuse(op)
  BY <1>4 DEF ReadRefused, New, Complete, Stream!Refuse, Stream!Complete
<1>5. ASSUME NEW op \in Reads, NEW size \in Sizes, ReadWaits(op, size)
      PROVE  Stream!Wait(op)
  BY <1>5 DEF ReadWaits, MustWait, New, Complete, Stream!Wait, Stream!Complete
<1>6. ASSUME NEW op \in Reads, ReadNotConnected(op) PROVE Stream!Fail(op)
  BY <1>6 DEF ReadNotConnected, MustWait, New, Complete, Stream!Fail,
    Stream!Complete
<1>7. ASSUME TransferDone \/ TransferFails
      PROVE  Stream!End \/ UNCHANGED Stream!vars
  <2>1. /\ ~finished /\ finished' /\ input' = input /\ delivered' = delivered
        /\ status' = IF receive = None THEN status
                     ELSE [status EXCEPT ![receive] = "eof"]
    BY <1>7 DEF TransferDone, TransferFails, Stop, Running
  <2>2. CASE input = <<>>
    <3>1. status' = [op \in Reads |-> IF receive = op THEN "eof" ELSE status[op]]
      BY <2>1 DEF IInv, TypeOK
    <3>2. status' = [op \in Reads |-> IF Stream!Waits(op) THEN "eof"
                                      ELSE status[op]]
      BY <3>1
    <3> QED
      BY <2>1, <2>2, <3>2 DEF Stream!End
  <2>3. CASE input # <<>>
    <3>1. receive = None
      BY <2>3 DEF IInv, NoLostWakeup
    <3> QED
      BY <2>1, <2>3, <3>1 DEF Stream!vars
  <2> QED
    BY <2>2, <2>3
<1>8. ASSUME NEW op \in Reads, Cancel(op)
      PROVE  (receive \in Reads /\ Stream!Abort(receive)) \/ UNCHANGED Stream!vars
  <2>1. /\ status' = IF receive = None THEN status
                     ELSE [status EXCEPT ![receive] = "aborted"]
        /\ delivered' = delivered /\ input' = input /\ finished' = finished
    BY <1>8 DEF Cancel, Complete
  <2> QED
    BY <2>1 DEF Stream!Abort, Stream!Complete, Stream!vars, IInv, TypeOK
<1>9. CASE \/ Connect \/ Redirect \/ Pause \/ ResumedByWriter \/ UNCHANGED vars
           \/ \E op \in Reads : SlotCleared(op)
  BY <1>9 DEF Connect, Redirect, Pause, ResumedByWriter, SlotCleared, vars,
    calls, Stream!vars
<1> QED
  BY <1>1, <1>2, <1>3, <1>4, <1>5, <1>6, <1>7, <1>8, <1>9
  DEF Next, AsyncReadSome, Stream!Next

(* What the program sees of async_read_some is a ByteStream: every step of *)
(* the response is one of the stream or none at all.                       *)
THEOREM ImplementsStream == Spec => Stream!Safety
<1>1. Init => Stream!Init
  BY DEF Init, Stream!Init
<1>2. IInv /\ IInv' /\ [Next]_vars => [Stream!Next]_Stream!vars
  BY StepRefines
<1> QED
  BY <1>1, <1>2, Invariance, PTL DEF Spec, Stream!Safety
=============================================================================
