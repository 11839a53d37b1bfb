--------------------------- MODULE HeaderListProofs ---------------------------
(* A theorem about HeaderList, for any requests, headers and bounds.       *)
EXTENDS HeaderList, TLAPS

(***************************************************************************)
(* The inductive invariant: as long as no list has lost its owner, every   *)
(* easy handle points to the list its request owns, no list is owned       *)
(* twice, and a list holds what its owner was given.                       *)
(***************************************************************************)
Shape ==
  /\ alive \subseteq Requests
  /\ additional \in [Requests -> Lists \cup {Null}]
  /\ option \in [Requests -> Lists \cup {Null}]
  /\ used \in Nat
  /\ shared \in BOOLEAN
  /\ DOMAIN content = Lists /\ DOMAIN headers = Requests

Made ==
  /\ \A r \in Requests : additional[r] <= used
  /\ \A l \in freed : l \in 1 .. used
  /\ \A l \in Lists : l > used => content[l] = <<>>

Owned ==
  \A r \in alive :
    /\ option[r] = additional[r]
    /\ additional[r] \notin freed
    /\ headers[r] = IF additional[r] = Null THEN <<>>
                    ELSE content[additional[r]]

OwnedOnce ==
  \A r, q \in alive :
    additional[r] = additional[q] /\ additional[r] # Null => r = q

IInv ==
  /\ Shape
  /\ Made
  /\ OwnedOnce
  /\ shared \/ (Owned /\ SendsItsHeaders)

-----------------------------------------------------------------------------
LEMMA InitIInv == Init => IInv
<1> SUFFICES ASSUME Init PROVE IInv
  OBVIOUS
<1>1. Shape
  BY DEF Init, Shape
<1>2. Made
  BY DEF Init, Made, Null
<1>3. OwnedOnce /\ Owned /\ SendsItsHeaders
  BY DEF Init, OwnedOnce, Owned, SendsItsHeaders
<1> QED
  BY <1>1, <1>2, <1>3 DEF IInv

LEMMA NextIInv == IInv /\ [Next]_vars => IInv'
<1> SUFFICES ASSUME IInv, [Next]_vars PROVE IInv'
  OBVIOUS
<1> USE DEF IInv, Shape, Null
<1>1. ASSUME NEW r \in Requests, Construct(r) PROVE IInv'
  <2>1. Shape'
    BY <1>1 DEF Construct
  <2>2. Made'
    BY <1>1 DEF Construct, Made
  <2>3. OwnedOnce'
    BY <1>1 DEF Construct, OwnedOnce
  <2>4. ASSUME ~shared' PROVE Owned' /\ SendsItsHeaders'
    <3>1. ~shared /\ 0 \notin freed
      BY <1>1, <2>4 DEF Construct, Made
    <3> QED
      BY <1>1, <3>1 DEF Construct, Owned, SendsItsHeaders
  <2> QED
    BY <2>1, <2>2, <2>3, <2>4
<1>2. ASSUME NEW r \in Requests, NEW copy \in Requests, Copy(r, copy)
      PROVE  IInv'
  <2>1. Shape' /\ Made' /\ OwnedOnce'
    BY <1>2 DEF Copy, Made, OwnedOnce
  <2>2. ASSUME ~shared' PROVE Owned' /\ SendsItsHeaders'
    <3>1. ~shared /\ option[r] = Null
      BY <1>2, <2>2 DEF Copy
    <3> QED
      BY <1>2, <3>1 DEF Copy, Owned, SendsItsHeaders
  <2> QED
    BY <2>1, <2>2
<1>3. ASSUME NEW r \in Requests, NEW header \in Headers,
             AppendHeader(r, header)
      PROVE  IInv'
  <2> DEFINE list == Appended(r)
  <2>1. /\ r \in alive /\ list \in Lists /\ list >= 1
        /\ list <= used'
        /\ used' \in Nat /\ used' >= used
        /\ content' = [content EXCEPT ![list] = Append(content[list], header)]
        /\ additional' = [additional EXCEPT ![r] = list]
        /\ option' = [option EXCEPT ![r] = list]
        /\ headers' = [headers EXCEPT ![r] = Append(headers[r], header)]
        /\ UNCHANGED <<alive, freed, shared, read, due>>
    BY <1>3 DEF AppendHeader, Appended, Made, Lists
  <2>2. additional[r] # Null => list = additional[r]
    BY DEF Appended
  <2>3. additional[r] = Null => list = used + 1
    BY DEF Appended
  <2>4. \A q \in alive : q # r => additional[q] # list
    BY <2>1, <2>2, <2>3 DEF Made, OwnedOnce
  <2> HIDE DEF list
  <2>5. Shape'
    BY <2>1
  <2>6. Made'
    <3>1. \A q \in Requests : additional'[q] <= used'
      BY <2>1 DEF Made, Lists
    <3>2. \A l \in freed : l \in 1 .. used'
      BY <2>1 DEF Made
    <3>3. \A l \in Lists : l > used' => content'[l] = <<>>
      BY <2>1 DEF Made, Lists
    <3> QED
      BY <2>1, <3>1, <3>2, <3>3 DEF Made
  <2>7. OwnedOnce'
    BY <2>1, <2>4 DEF OwnedOnce
  <2>8. ASSUME ~shared' PROVE Owned' /\ SendsItsHeaders'
    <3>1. Owned /\ SendsItsHeaders
      BY <2>1, <2>8
    <3>2. headers[r] = content[list] /\ list \notin freed
      <4>1. CASE additional[r] = Null
        <5>1. list > used
          BY <2>3, <4>1
        <5>2. content[list] = <<>> /\ list \notin freed
          BY <2>1, <5>1 DEF Made
        <5> QED
          BY <2>1, <3>1, <4>1, <5>2 DEF Owned
      <4>2. CASE additional[r] # Null
        BY <2>1, <2>2, <3>1, <4>2 DEF Owned
      <4> QED
        BY <4>1, <4>2
    <3>3. ASSUME NEW q \in alive
          PROVE  /\ option'[q] = additional'[q]
                 /\ additional'[q] \notin freed
                 /\ headers'[q] = IF additional'[q] = Null THEN <<>>
                                  ELSE content'[additional'[q]]
      <4>1. CASE q = r
        BY <2>1, <3>2, <4>1
      <4>2. CASE q # r
        BY <2>1, <2>4, <3>1, <4>2 DEF Owned
      <4> QED
        BY <4>1, <4>2
    <3> QED
      BY <2>1, <3>1, <3>3 DEF Owned, SendsItsHeaders
  <2> QED
    BY <2>1, <2>5, <2>6, <2>7, <2>8
<1>4. ASSUME NEW r \in Requests, FreeHeaders(r) PROVE IInv'
  <2>1. Shape' /\ Made' /\ OwnedOnce'
    BY <1>4 DEF FreeHeaders, Release, Made, OwnedOnce
  <2>2. ASSUME ~shared' PROVE Owned' /\ SendsItsHeaders'
    <3>1. ~shared /\ additional[r] = Null
      BY <1>4, <2>2 DEF FreeHeaders
    <3> QED
      BY <1>4, <3>1 DEF FreeHeaders, Release, Owned, SendsItsHeaders
  <2> QED
    BY <2>1, <2>2
<1>5. ASSUME NEW r \in Requests, Destroy(r) PROVE IInv'
  <2>1. Shape' /\ Made' /\ OwnedOnce'
    BY <1>5 DEF Destroy, Release, Made, OwnedOnce
  <2>2. ASSUME ~shared' PROVE Owned' /\ SendsItsHeaders'
    <3>1. Owned /\ SendsItsHeaders
      BY <1>5, <2>2 DEF Destroy
    <3>2. \A q \in alive' :
            /\ q \in alive /\ q # r
            /\ additional[q] # additional[r] \/ additional[q] = Null
      BY <1>5 DEF Destroy, OwnedOnce
    <3> QED
      BY <1>5, <3>1, <3>2 DEF Destroy, Release, Owned, OwnedOnce,
         SendsItsHeaders
  <2> QED
    BY <2>1, <2>2
<1>6. ASSUME NEW r \in Requests, Send(r) PROVE IInv'
  <2>1. Shape' /\ Made' /\ OwnedOnce'
    BY <1>6 DEF Send, Made, OwnedOnce
  <2>2. ASSUME ~shared' PROVE Owned' /\ SendsItsHeaders'
    <3>1. Owned /\ r \in alive
      BY <1>6, <2>2 DEF Send
    <3>2. Found(r) = {headers[r]}
      BY <3>1 DEF Owned, Found
    <3> QED
      BY <1>6, <3>1, <3>2 DEF Send, Owned, SendsItsHeaders
  <2> QED
    BY <2>1, <2>2
<1>7. CASE UNCHANGED vars
  BY <1>7 DEF vars, Made, Owned, OwnedOnce, SendsItsHeaders
<1> QED
  BY <1>1, <1>2, <1>3, <1>4, <1>5, <1>6, <1>7 DEF Next

(* A program that copies no request with headers and calls free_headers    *)
(* for none (but leaves that to the destructor) has cURL send exactly the  *)
(* headers it appended: append_header and the destructor are right in      *)
(* whatever order the requests are built, sent and destroyed.              *)
THEOREM OwnHeaders == Spec => []OwnHeadersAreSent
<1>1. IInv => OwnHeadersAreSent
  BY DEF IInv, OwnHeadersAreSent
<1> QED
  BY InitIInv, NextIInv, <1>1, PTL DEF Spec
=============================================================================
