--------------------------- MODULE HeaderTextProofs ---------------------------
(* Theorems about HeaderText, for any characters, names, values and lines. *)
EXTENDS HeaderText, SequenceTheorems, WellFoundedInduction, TLAPS

-----------------------------------------------------------------------------
(* The order of the keys.                                                  *)

(* A set of natural numbers has a smallest one.                            *)
LEMMA Smallest ==
  ASSUME NEW T, T \subseteq Nat, T # {}
  PROVE  \E n \in T : \A m \in T : n <= m
<1>1. PICK n \in T : \A m \in T : <<m, n>> \notin OpToRel(<, Nat)
  BY WFMin, NatLessThanWellFounded
<1>2. \A m \in T : ~(m < n)
  BY <1>1, Zenon DEF OpToRel
<1> QED
  BY <1>2

LEMMA SameInterval ==
  ASSUME NEW m \in Nat, NEW n \in Nat, 1 .. m = 1 .. n
  PROVE  m = n
<1>1. ASSUME m < n PROVE FALSE
  <2>1. n \in 1 .. n /\ n \notin 1 .. m
    BY <1>1
  <2> QED
    BY <2>1
<1>2. ASSUME n < m PROVE FALSE
  <2>1. m \in 1 .. m /\ m \notin 1 .. n
    BY <1>2
  <2> QED
    BY <2>1
<1> QED
  BY <1>1, <1>2

(* Two keys are equal up to case, or there is a first place where they     *)
(* differ.                                                                 *)
LEMMA FirstDifference ==
  ASSUME NEW lhs \in Seq(Chars), NEW rhs \in Seq(Chars),
         Len(lhs) = Len(rhs), ~Same(lhs, rhs)
  PROVE  \E i \in DOMAIN lhs :
           /\ Upper[lhs[i]] # Upper[rhs[i]]
           /\ \A j \in 1 .. i - 1 : Upper[lhs[j]] = Upper[rhs[j]]
<1> DEFINE T == {i \in 1 .. Len(lhs) : Upper[lhs[i]] # Upper[rhs[i]]}
<1>1. Len(lhs) \in Nat /\ DOMAIN lhs = 1 .. Len(lhs)
      /\ DOMAIN rhs = 1 .. Len(lhs)
  BY LenProperties
<1>2. T \subseteq Nat
  BY <1>1
<1>3. T # {}
  BY <1>1 DEF Same, Canonical
<1>4. PICK i \in T : \A m \in T : i <= m
  BY <1>2, <1>3, Smallest
<1>5. \A j \in 1 .. i - 1 : j \notin T /\ j \in 1 .. Len(lhs)
  BY <1>1, <1>4
<1> QED
  BY <1>1, <1>4, <1>5

(* What std::map asks of its comparator: it is a strict order ...          *)
THEOREM LessIsStrict ==
  /\ \A a \in Seq(Chars) : ~Less(a, a)
  /\ \A a, b, c \in Seq(Chars) : Less(a, b) /\ Less(b, c) => Less(a, c)
<1>1. ASSUME NEW c \in Chars PROVE Upper[c] \in Int
  BY TextAssumption
<1>2. ASSUME NEW a \in Seq(Chars)
      PROVE  /\ Len(a) \in Nat /\ DOMAIN a = 1 .. Len(a)
             /\ \A i \in 1 .. Len(a) : Upper[a[i]] \in Int
  BY <1>1, LenProperties, ElementOfSeq
<1>3. ASSUME NEW a \in Seq(Chars) PROVE ~Less(a, a)
  BY <1>2 DEF Less
<1>4. ASSUME NEW a \in Seq(Chars), NEW b \in Seq(Chars), NEW c \in Seq(Chars),
             Less(a, b), Less(b, c)
      PROVE  Less(a, c)
  <2>1. CASE Len(a) < Len(b) \/ Len(b) < Len(c)
    BY <1>2, <1>4, <2>1 DEF Less
  <2>2. CASE Len(a) = Len(b) /\ Len(b) = Len(c)
    <3>1. PICK i \in 1 .. Len(a) :
            /\ Upper[a[i]] < Upper[b[i]]
            /\ \A j \in 1 .. i - 1 : Upper[a[j]] = Upper[b[j]]
      <4>1. DOMAIN a = 1 .. Len(a) /\ ~(Len(a) < Len(b))
        BY <1>2, <2>2
      <4> QED
        BY <1>4, <4>1 DEF Less
    <3>2. PICK k \in 1 .. Len(a) :
            /\ Upper[b[k]] < Upper[c[k]]
            /\ \A j \in 1 .. k - 1 : Upper[b[j]] = Upper[c[j]]
      <4>1. DOMAIN b = 1 .. Len(a) /\ ~(Len(b) < Len(c))
        BY <1>2, <2>2
      <4> QED
        BY <1>4, <4>1 DEF Less
    <3>3. Len(a) \in Nat
          /\ \A j \in 1 .. Len(a) : /\ Upper[a[j]] \in Int
                                    /\ Upper[b[j]] \in Int
                                    /\ Upper[c[j]] \in Int
      BY <1>2, <2>2
    <3>4. \E m \in 1 .. Len(a) :
            /\ Upper[a[m]] < Upper[c[m]]
            /\ \A j \in 1 .. m - 1 : Upper[a[j]] = Upper[c[j]]
      <4>1. CASE i <= k
        <5>1. Upper[a[i]] < Upper[c[i]]
          <6>1. i \in 1 .. Len(a) /\ Upper[a[i]] < Upper[b[i]]
            BY <3>1
          <6>2. i \in 1 .. k - 1 \/ i = k
            BY <3>3, <4>1
          <6>3. Upper[b[i]] <= Upper[c[i]]
            <7>1. Upper[b[i]] \in Int /\ Upper[c[i]] \in Int
              BY ONLY <3>3, <6>1
            <7>2. CASE i \in 1 .. k - 1
              BY ONLY <3>2, <7>1, <7>2
            <7>3. CASE i = k
              BY ONLY <3>2, <7>1, <7>3
            <7> QED
              BY <6>2, <7>2, <7>3
          <6> QED
            BY ONLY <3>3, <6>1, <6>3
        <5>2. \A j \in 1 .. i - 1 : Upper[a[j]] = Upper[c[j]]
          BY <3>1, <3>2, <3>3, <4>1
        <5> QED
          BY <5>1, <5>2
      <4>2. CASE k < i
        <5>1. Upper[a[k]] < Upper[c[k]]
          BY <3>1, <3>2, <3>3, <4>2
        <5>2. \A j \in 1 .. k - 1 : Upper[a[j]] = Upper[c[j]]
          BY <3>1, <3>2, <3>3, <4>2
        <5> QED
          BY <5>1, <5>2
      <4>3. i <= k \/ k < i
        BY <3>3
      <4> QED
        BY <4>1, <4>2, <4>3
    <3> QED
      BY <1>2, <2>2, <3>4 DEF Less
  <2> QED
    BY <1>2, <1>4, <2>1, <2>2 DEF Less
<1> QED
  BY <1>3, <1>4

(* ... and not to be comparable means to be equal up to case.              *)
THEOREM IncomparableIsSame ==
  \A a, b \in Seq(Chars) : ~Less(a, b) /\ ~Less(b, a) <=> Same(a, b)
<1> TAKE a, b \in Seq(Chars)
<1>1. /\ Len(a) \in Nat /\ DOMAIN a = 1 .. Len(a)
      /\ Len(b) \in Nat /\ DOMAIN b = 1 .. Len(b)
  BY LenProperties
<1>2. /\ \A i \in 1 .. Len(a) : Upper[a[i]] \in Int
      /\ \A i \in 1 .. Len(b) : Upper[b[i]] \in Int
  BY TextAssumption, ElementOfSeq
<1>3. ASSUME Same(a, b) PROVE ~Less(a, b) /\ ~Less(b, a)
  <2>1. Len(a) = Len(b)
    <3>1. 1 .. Len(a) = 1 .. Len(b)
      BY <1>1, <1>3 DEF Same, Canonical
    <3> QED
      BY <1>1, <3>1, SameInterval
  <2>2. \A i \in 1 .. Len(a) : Upper[a[i]] = Upper[b[i]]
    BY <1>1, <1>3 DEF Same, Canonical
  <2> QED
    BY <1>1, <1>2, <2>1, <2>2 DEF Less
<1>4. ASSUME ~Same(a, b), Len(a) = Len(b) PROVE Less(a, b) \/ Less(b, a)
  <2>1. PICK i \in 1 .. Len(a) :
          /\ Upper[a[i]] # Upper[b[i]]
          /\ \A j \in 1 .. i - 1 : Upper[a[j]] = Upper[b[j]]
    BY <1>1, <1>4, FirstDifference
  <2>2. Upper[a[i]] < Upper[b[i]] \/ Upper[b[i]] < Upper[a[i]]
    BY <1>2, <1>4, <2>1
  <2>3. i \in DOMAIN a /\ i \in DOMAIN b
    BY <1>1, <1>4
  <2>4. CASE Upper[a[i]] < Upper[b[i]]
    BY <1>4, <2>1, <2>3, <2>4 DEF Less
  <2>5. CASE Upper[b[i]] < Upper[a[i]]
    BY <1>4, <2>1, <2>3, <2>5 DEF Less
  <2> QED
    BY <2>2, <2>4, <2>5
<1>5. ASSUME Len(a) # Len(b) PROVE Less(a, b) \/ Less(b, a)
  <2>1. Len(a) \in Int /\ Len(b) \in Int
    BY LenProperties
  <2>2. Len(a) < Len(b) \/ Len(b) < Len(a)
    BY ONLY <1>5, <2>1
  <2> QED
    BY <2>2 DEF Less
<1> QED
  BY <1>3, <1>4, <1>5

-----------------------------------------------------------------------------
(* Sequences.                                                              *)

(* What stands where in three sequences put together, and how to get the   *)
(* middle one out again.                                                   *)
LEMMA Middle ==
  ASSUME NEW S, NEW a \in Seq(S), NEW b \in Seq(S), NEW c \in Seq(S),
         NEW s, s = a \o b \o c
  PROVE  /\ s \in Seq(S) /\ Len(s) = Len(a) + Len(b) + Len(c)
         /\ \A i \in 1 .. Len(a) : s[i] = a[i]
         /\ \A i \in 1 .. Len(b) : s[Len(a) + i] = b[i]
         /\ \A i \in 1 .. Len(c) : s[Len(a) + Len(b) + i] = c[i]
         /\ SubSeq(s, Len(a) + 1, Len(a) + Len(b)) = b
<1>1. Len(a) \in Nat /\ Len(b) \in Nat /\ Len(c) \in Nat
  BY LenProperties
<1>2. /\ a \o b \in Seq(S)
      /\ Len(a \o b) = Len(a) + Len(b)
      /\ \A i \in 1 .. Len(a) + Len(b) :
           (a \o b)[i] = IF i <= Len(a) THEN a[i] ELSE b[i - Len(a)]
  BY ConcatProperties
<1>3. /\ s \in Seq(S)
      /\ Len(s) = Len(a \o b) + Len(c)
      /\ \A i \in 1 .. Len(a \o b) + Len(c) :
           s[i] = IF i <= Len(a \o b) THEN (a \o b)[i]
                  ELSE c[i - Len(a \o b)]
  BY <1>2, ConcatProperties
<1>4. Len(s) = Len(a) + Len(b) + Len(c)
  BY <1>2, <1>3
<1>5. \A i \in 1 .. Len(a) : s[i] = a[i]
  BY <1>1, <1>2, <1>3
<1>6. \A i \in 1 .. Len(b) : s[Len(a) + i] = b[i]
  <2> TAKE i \in 1 .. Len(b)
  <2>1. Len(a) + i \in 1 .. Len(a) + Len(b) /\ ~(Len(a) + i <= Len(a))
        /\ (Len(a) + i) - Len(a) = i
    BY <1>1
  <2>2. s[Len(a) + i] = (a \o b)[Len(a) + i]
    BY <1>1, <1>2, <1>3, <2>1
  <2> QED
    BY <1>2, <2>1, <2>2
<1>7. \A i \in 1 .. Len(c) : s[Len(a) + Len(b) + i] = c[i]
  <2> TAKE i \in 1 .. Len(c)
  <2> DEFINE k == Len(a) + Len(b) + i
  <2>1. k \in 1 .. Len(a \o b) + Len(c) /\ ~(k <= Len(a \o b))
        /\ k - Len(a \o b) = i
    BY <1>1, <1>2
  <2> QED
    BY <1>3, <2>1
<1>8. SubSeq(s, Len(a) + 1, Len(a) + Len(b)) = b
  <2> DEFINE m == SubSeq(s, Len(a) + 1, Len(a) + Len(b))
  <2>1. Len(a) + 1 \in Int /\ Len(a) + Len(b) \in Int
    BY <1>1
  <2>2. \A i \in Len(a) + 1 .. Len(a) + Len(b) : s[i] \in S
    BY <1>1, <1>3, <1>4, ElementOfSeq
  <2>3. /\ m \in Seq(S)
        /\ Len(m) = IF Len(a) + 1 <= Len(a) + Len(b)
                    THEN Len(a) + Len(b) - (Len(a) + 1) + 1 ELSE 0
        /\ \A i \in 1 .. Len(a) + Len(b) - (Len(a) + 1) + 1 :
             m[i] = s[Len(a) + 1 + i - 1]
    BY <2>1, <2>2, SubSeqProperties
  <2> HIDE DEF m
  <2>4. Len(m) = Len(b)
    BY <1>1, <2>3
  <2>5. \A i \in 1 .. Len(m) : m[i] = b[i]
    <3> TAKE i \in 1 .. Len(m)
    <3>1. i \in 1 .. Len(a) + Len(b) - (Len(a) + 1) + 1 /\ i \in 1 .. Len(b)
          /\ Len(a) + 1 + i - 1 = Len(a) + i
      BY <1>1, <2>4
    <3> QED
      BY <1>6, <2>3, <3>1
  <2>6. m = b
    BY <2>3, <2>4, <2>5, SeqEqual
  <2> QED
    BY <2>6 DEF m
<1> QED
  BY <1>3, <1>4, <1>5, <1>6, <1>7, <1>8

(* The loops stop where they should.                                       *)
LEMMA FirstInIs ==
  ASSUME NEW str, Len(str) \in Nat, NEW stop, NEW i \in 1 .. Len(str) + 1,
         \A j \in 1 .. i - 1 : str[j] \notin stop,
         i <= Len(str) => str[i] \in stop
  PROVE  FirstIn(str, stop) = i
<1> DEFINE f == FirstIn(str, stop)
<1>1. /\ f \in 1 .. Len(str) + 1
      /\ \A j \in 1 .. f - 1 : str[j] \notin stop
      /\ f <= Len(str) => str[f] \in stop
  BY DEF FirstIn
<1> HIDE DEF f
<1>2. ~(f < i)
  <2> SUFFICES ASSUME f < i PROVE FALSE
    OBVIOUS
  <2>1. f \in 1 .. i - 1 /\ f <= Len(str)
    BY <1>1
  <2> QED
    BY <1>1, <2>1
<1>3. ~(i < f)
  <2> SUFFICES ASSUME i < f PROVE FALSE
    OBVIOUS
  <2>1. i \in 1 .. f - 1 /\ i <= Len(str)
    BY <1>1
  <2> QED
    BY <1>1, <2>1
<1>4. f = i
  BY <1>1, <1>2, <1>3
<1> QED
  BY <1>4 DEF f

LEMMA LastInIs ==
  ASSUME NEW str, Len(str) \in Nat, NEW stop,
         NEW begin \in 1 .. Len(str) + 1, NEW i \in begin - 1 .. Len(str),
         \A j \in i + 1 .. Len(str) : str[j] \notin stop,
         i >= begin => str[i] \in stop
  PROVE  LastIn(str, begin, stop) = i
<1> DEFINE f == LastIn(str, begin, stop)
<1>1. /\ f \in begin - 1 .. Len(str)
      /\ \A j \in f + 1 .. Len(str) : str[j] \notin stop
      /\ f >= begin => str[f] \in stop
  BY DEF LastIn
<1> HIDE DEF f
<1>2. ~(i < f)
  <2> SUFFICES ASSUME i < f PROVE FALSE
    OBVIOUS
  <2>1. f \in i + 1 .. Len(str) /\ f >= begin
    BY <1>1
  <2> QED
    BY <1>1, <2>1
<1>3. ~(f < i)
  <2> SUFFICES ASSUME f < i PROVE FALSE
    OBVIOUS
  <2>1. i \in f + 1 .. Len(str) /\ i >= begin
    BY <1>1
  <2> QED
    BY <1>1, <2>1
<1>4. f = i
  BY <1>1, <1>2, <1>3
<1> QED
  BY <1>4 DEF f

-----------------------------------------------------------------------------
(* What the callback makes of a line.                                      *)

(* trim finds the value between the white space, also an empty one.        *)
THEOREM TrimFindsValue ==
  ASSUME NEW before \in Pads, NEW value \in Values, NEW after \in Pads
  PROVE  Trim(Padded(before, value, after)) = value
<1> DEFINE str  == Padded(before, value, after)
           end  == after \o Newline
           stop == Chars \ Blanks
           B    == Len(before)
           V    == Len(value)
           E    == Len(end)
<1>1. /\ before \in Seq(Blanks) /\ after \in Seq(Blanks)
      /\ Newline \in Seq(Blanks) /\ value \in Seq(Chars)
      /\ Blanks \subseteq Chars
  BY TextAssumption
<1>2. end \in Seq(Blanks)
  BY <1>1, ConcatProperties
<1>3. before \in Seq(Chars) /\ end \in Seq(Chars)
  BY <1>1, <1>2, SeqMonotonic
<1>4. B \in Nat /\ V \in Nat /\ E \in Nat
  BY <1>1, <1>3, LenProperties
<1>5. /\ str \in Seq(Chars) /\ Len(str) = B + V + E
      /\ \A i \in 1 .. B : str[i] = before[i]
      /\ \A i \in 1 .. V : str[B + i] = value[i]
      /\ \A i \in 1 .. E : str[B + V + i] = end[i]
      /\ SubSeq(str, B + 1, B + V) = value
  <2>1. str = before \o value \o end
    BY DEF Padded
  <2> HIDE DEF str, end
  <2>2. before \in Seq(Chars) /\ value \in Seq(Chars) /\ end \in Seq(Chars)
    BY <1>1, <1>3
  <2>3. /\ str \in Seq(Chars)
        /\ Len(str) = Len(before) + Len(value) + Len(end)
        /\ \A i \in 1 .. Len(before) : str[i] = before[i]
        /\ \A i \in 1 .. Len(value) : str[Len(before) + i] = value[i]
        /\ \A i \in 1 .. Len(end) :
             str[Len(before) + Len(value) + i] = end[i]
        /\ SubSeq(str, Len(before) + 1, Len(before) + Len(value)) = value
    BY ONLY <2>1, <2>2, Middle, SMTT(30)
  <2> QED
    BY ONLY <2>3
<1>6. /\ \A i \in 1 .. B : before[i] \in Blanks
      /\ \A i \in 1 .. E : end[i] \in Blanks
  BY <1>1, <1>2, ElementOfSeq
<1>7. /\ \A i \in 1 .. B : str[i] \in Blanks
      /\ \A i \in B + V + 1 .. B + V + E : str[i] \in Blanks
  <2>1. \A i \in B + V + 1 .. B + V + E :
          i - (B + V) \in 1 .. E /\ B + V + (i - (B + V)) = i
    BY <1>4
  <2> HIDE DEF str, end, B, V, E
  <2> QED
    BY <1>5, <1>6, <2>1
<1>8. CASE value = <<>>
  <2>1. V = 0
    BY <1>8
  <2>2. Len(str) = B + E /\ \A i \in 1 .. Len(str) : str[i] \in Blanks
    BY <1>4, <1>5, <1>7, <2>1
  <2> HIDE DEF str, B, V, E
  <2>3. Len(str) \in Nat /\ Len(str) + 1 \in 1 .. Len(str) + 1
        /\ Len(str) \in Len(str) + 1 - 1 .. Len(str)
    BY <1>4, <2>2
  <2>4. FirstIn(str, stop) = Len(str) + 1
    <3>1. /\ \A j \in 1 .. Len(str) + 1 - 1 : str[j] \notin stop
          /\ ~(Len(str) + 1 <= Len(str))
      BY <2>2, <2>3
    <3> HIDE DEF stop
    <3> QED
      BY <2>3, <3>1, FirstInIs
  <2>5. LastIn(str, Len(str) + 1, stop) = Len(str)
    <3>1. /\ \A j \in Len(str) + 1 .. Len(str) : str[j] \notin stop
          /\ ~(Len(str) >= Len(str) + 1)
      BY <2>3
    <3> HIDE DEF stop
    <3> QED
      BY <2>3, <3>1, LastInIs
  <2>6. SubSeq(str, Len(str) + 1, Len(str)) = <<>>
    BY <2>3, SubSeqEmpty
  <2> QED
    BY <1>8, <2>4, <2>5, <2>6 DEF Trim, str
<1>9. CASE value # <<>>
  <2>1. V >= 1 /\ value[1] \notin Blanks /\ value[V] \notin Blanks
    BY <1>1, <1>4, <1>9, TextAssumption, EmptySeq
  <2>2. str[B + 1] \in stop /\ str[B + V] \in stop
    <3>1. 1 \in 1 .. V /\ V \in 1 .. V
      BY <1>4, <2>1
    <3>2. value[1] \in Chars /\ value[V] \in Chars
      BY <1>1, <3>1, ElementOfSeq
    <3> HIDE DEF str, B, V
    <3> QED
      BY <1>5, <2>1, <3>1, <3>2
  <2> HIDE DEF str, end, B, V, E
  <2>3. Len(str) \in Nat /\ B + 1 \in 1 .. Len(str) + 1
        /\ B + V \in B + 1 - 1 .. Len(str)
    BY <1>4, <1>5, <2>1
  <2> DEFINE begin == B + 1
             last  == B + V
  <2>4. FirstIn(str, stop) = begin
    <3>1. /\ begin \in 1 .. Len(str) + 1
          /\ \A j \in 1 .. begin - 1 : str[j] \notin stop
          /\ str[begin] \in stop
      BY <1>4, <1>7, <2>2, <2>3
    <3> HIDE DEF stop, begin
    <3> QED
      BY <2>3, <3>1, FirstInIs
  <2>5. LastIn(str, begin, stop) = last
    <3>1. begin \in 1 .. Len(str) + 1 /\ last \in begin - 1 .. Len(str)
      BY <1>4, <2>3
    <3>2. \A j \in last + 1 .. Len(str) : str[j] \notin stop
      BY <1>5, <1>7
    <3>3. str[last] \in stop
      BY <2>2
    <3> HIDE DEF stop, begin, last
    <3> QED
      BY <2>3, <3>1, <3>2, <3>3, LastInIs
  <2> QED
    BY <1>5, <2>4, <2>5 DEF Trim, str
<1> QED
  BY <1>8, <1>9

(* A name has neither blanks nor colons, in whatever case.                 *)
LEMMA NameIsLetters ==
  ASSUME NEW name \in Names
  PROVE  /\ name \in Seq(Chars) /\ Len(name) \in Nat \ {0}
         /\ DOMAIN name = 1 .. Len(name)
         /\ \A i \in 1 .. Len(name) : name[i] \in Letters
         /\ \A i \in 1 .. Len(name) : Upper[name[i]] \in Letters
         /\ Canonical(name) \in Seq(Chars)
         /\ Same(Canonical(name), name)
<1>1. name \in Seq(Letters) /\ name # <<>> /\ Letters \subseteq Chars
  BY TextAssumption DEF Letters
<1>2. name \in Seq(Chars)
  BY <1>1, SeqMonotonic
<1>3. Len(name) \in Nat \ {0} /\ DOMAIN name = 1 .. Len(name)
  BY <1>1, EmptySeq, LenProperties
<1>4. \A i \in 1 .. Len(name) : name[i] \in Letters
  BY <1>1, ElementOfSeq
<1>5. \A i \in 1 .. Len(name) : Upper[name[i]] \in Letters
                              /\ Upper[Upper[name[i]]] = Upper[name[i]]
  BY <1>1, <1>4, TextAssumption
<1>6. Canonical(name) = [i \in 1 .. Len(name) |-> Upper[name[i]]]
  BY <1>3 DEF Canonical
<1>7. Canonical(name) \in Seq(Chars)
  <2>1. Canonical(name) \in [1 .. Len(name) -> Chars]
    BY <1>1, <1>5, <1>6
  <2> QED
    BY <1>3, <2>1, SeqDef
<1>8. Same(Canonical(name), name)
  BY <1>3, <1>5, <1>6 DEF Same, Canonical
<1> QED
  BY <1>2, <1>3, <1>4, <1>5, <1>7, <1>8

(* What the callback sees in a field's line.                               *)
LEMMA FieldLine ==
  ASSUME NEW name \in Names, NEW before \in Pads, NEW value \in Values,
         NEW after \in Pads,
         NEW line, line = Line(name, before, value, after),
         NEW sep, sep = FirstIn(line, {Colon})
  PROVE  /\ ~(sep > Len(line))
         /\ SubSeq(line, 1, sep - 1) = name
         /\ Trim(SubSeq(line, sep + 1, Len(line))) = value
         /\ ~IsEnd(line)
<1> DEFINE padded == Padded(before, value, after)
           N      == Len(name)
<1>1. /\ <<Colon>> \in Seq(Chars) /\ Len(<<Colon>>) = 1
      /\ <<>> \in Seq(Chars) /\ Len(<<>>) = 0
      /\ Colon \notin Letters
  BY TextAssumption DEF Letters
<1>2. /\ name \in Seq(Chars) /\ N \in Nat /\ N >= 1
      /\ \A i \in 1 .. N : name[i] \in Letters
  BY NameIsLetters
<1>3. padded \in Seq(Chars) /\ Len(padded) \in Nat /\ Len(padded) >= 2
  <2>1. /\ before \in Seq(Blanks) /\ after \in Seq(Blanks)
        /\ Newline \in Seq(Blanks) /\ value \in Seq(Chars)
        /\ Blanks \subseteq Chars /\ Len(Newline) = 2
    BY TextAssumption
  <2>2. /\ after \o Newline \in Seq(Blanks)
        /\ Len(after \o Newline) = Len(after) + Len(Newline)
    BY <2>1, ConcatProperties
  <2>3. before \in Seq(Chars) /\ after \o Newline \in Seq(Chars)
    BY <2>1, <2>2, SeqMonotonic
  <2>4. padded \in Seq(Chars)
        /\ Len(padded) = Len(before) + Len(value) + Len(after \o Newline)
    BY <2>1, <2>3, Middle DEF Padded
  <2>5. Len(before) \in Nat /\ Len(value) \in Nat /\ Len(after) \in Nat
    BY <2>1, LenProperties
  <2>6. Len(padded) = Len(before) + Len(value) + (Len(after) + 2)
    BY <2>1, <2>2, <2>4
  <2> HIDE DEF padded
  <2> QED
    BY <2>4, <2>5, <2>6
<1> HIDE DEF padded, N
<1>4. line = name \o <<Colon>> \o padded
  BY DEF Line, padded
<1>5. /\ line \in Seq(Chars) /\ Len(line) = N + 1 + Len(padded)
      /\ \A i \in 1 .. N : line[i] = name[i]
      /\ \A i \in 1 .. 1 : line[N + i] = <<Colon>>[i]
  BY <1>1, <1>2, <1>3, <1>4, Middle DEF N
<1>6. FirstIn(line, {Colon}) = N + 1
  <2>1. \A j \in 1 .. N + 1 - 1 : line[j] \notin {Colon}
    BY <1>1, <1>2, <1>5
  <2>2. line[N + 1] \in {Colon}
    BY <1>5
  <2>3. Len(line) \in Nat /\ N + 1 \in 1 .. Len(line) + 1
    BY <1>2, <1>3, <1>5
  <2> DEFINE i == N + 1
             stop == {Colon}
  <2> HIDE DEF i, stop
  <2>4. i \in 1 .. Len(line) + 1
    BY <2>3 DEF i
  <2>5. \A j \in 1 .. i - 1 : line[j] \notin stop
    BY <1>2, <2>1 DEF i, stop
  <2>6. line[i] \in stop
    BY <2>2 DEF i, stop
  <2>7. FirstIn(line, stop) = i
    BY <2>3, <2>4, <2>5, <2>6, FirstInIs
  <2> QED
    BY <2>7 DEF i, stop
<1>7. SubSeq(line, 1, N) = name
  <2>1. line = <<>> \o name \o (<<Colon>> \o padded)
        /\ <<Colon>> \o padded \in Seq(Chars)
    BY <1>1, <1>2, <1>3, <1>4, ConcatAssociative, ConcatEmptySeq,
       ConcatProperties
  <2>2. SubSeq(line, 0 + 1, 0 + N) = name
    BY <1>1, <1>2, <2>1, Middle DEF N
  <2> QED
    BY <1>2, <2>2
<1>8. SubSeq(line, N + 2, Len(line)) = padded
  <2> DEFINE head == name \o <<Colon>>
  <2>1. head \in Seq(Chars) /\ Len(head) = N + 1
    BY <1>1, <1>2, ConcatProperties DEF N
  <2>2. line = head \o padded \o <<>>
    BY <1>1, <1>3, <1>4, <1>5, <2>1, ConcatEmptySeq
  <2> HIDE DEF head
  <2>3. SubSeq(line, Len(head) + 1, Len(head) + Len(padded)) = padded
    BY <1>1, <1>3, <2>1, <2>2, Middle
  <2>4. Len(head) + 1 = N + 2 /\ Len(head) + Len(padded) = Len(line)
    BY <1>2, <1>3, <1>5, <2>1
  <2> QED
    BY <2>3, <2>4
<1>9. Trim(padded) = value
  BY TrimFindsValue DEF padded
<1>10. sep - 1 = N /\ sep + 1 = N + 2 /\ ~(sep > Len(line))
       /\ Len(line) # 2
  BY <1>2, <1>3, <1>5, <1>6
<1>11. SubSeq(line, 1, sep - 1) = name
       /\ Trim(SubSeq(line, sep + 1, Len(line))) = value
  BY <1>7, <1>8, <1>9, <1>10
<1> QED
  BY <1>10, <1>11 DEF IsEnd

(* A loop stops somewhere.                                                 *)
LEMMA FirstInExists ==
  ASSUME NEW line, Len(line) \in Nat, NEW stop,
         NEW f, f = FirstIn(line, stop)
  PROVE  /\ f \in 1 .. Len(line) + 1
         /\ \A j \in 1 .. f - 1 : line[j] \notin stop
         /\ f <= Len(line) => line[f] \in stop
<1>1. \E i \in 1 .. Len(line) + 1 :
        /\ \A j \in 1 .. i - 1 : line[j] \notin stop
        /\ i <= Len(line) => line[i] \in stop
  <2> DEFINE T == {i \in 1 .. Len(line) : line[i] \in stop}
  <2>1. CASE T = {}
    <3>1. Len(line) + 1 \in 1 .. Len(line) + 1
          /\ \A j \in 1 .. Len(line) + 1 - 1 : line[j] \notin stop
          /\ ~(Len(line) + 1 <= Len(line))
      BY <2>1
    <3> QED
      BY <3>1
  <2>2. CASE T # {}
    <3>1. T \subseteq Nat
      OBVIOUS
    <3> HIDE DEF T
    <3>2. PICK i \in T : \A m \in T : i <= m
      BY <2>2, <3>1, Smallest
    <3>3. i \in 1 .. Len(line) /\ line[i] \in stop
      BY <3>2 DEF T
    <3>4. \A j \in 1 .. i - 1 : line[j] \notin stop
      BY <3>2, <3>3 DEF T
    <3> QED
      BY <3>3, <3>4
  <2> QED
    BY <2>1, <2>2
<1> QED
  BY <1>1 DEF FirstIn

(* A line that is no field has no key that could be taken for a name.      *)
LEMMA OtherLine ==
  ASSUME NEW o \in Others, NEW line, line = o \o Newline,
         NEW sep, sep = FirstIn(line, {Colon}), sep <= Len(line)
  PROVE  /\ SubSeq(line, 1, sep - 1) \in Seq(Chars)
         /\ \A name \in Names : ~Same(SubSeq(line, 1, sep - 1), name)
<1>1. PICK b \in DOMAIN o :
        o[b] \in Blanks /\ \A j \in 1 .. b : o[j] # Colon
  BY TextAssumption
<1>2. /\ o \in Seq(Chars) /\ Newline \in Seq(Chars)
      /\ Len(o) \in Nat /\ DOMAIN o = 1 .. Len(o)
      /\ Len(Newline) \in Nat
  BY TextAssumption, SeqMonotonic, LenProperties
<1>3. /\ line \in Seq(Chars) /\ Len(line) = Len(o) + Len(Newline)
      /\ \A i \in 1 .. Len(o) : line[i] = o[i]
  <2>1. /\ line \in Seq(Chars) /\ Len(line) = Len(o) + Len(Newline)
        /\ \A i \in 1 .. Len(o) + Len(Newline) :
             line[i] = IF i <= Len(o) THEN o[i] ELSE Newline[i - Len(o)]
    BY <1>2, ConcatProperties
  <2> QED
    BY <1>2, <2>1
<1>4. Len(line) \in Nat /\ Newline[1] \in Blanks /\ Colon \notin Blanks
  <2>1. 1 \in 1 .. Len(Newline) /\ Newline \in Seq(Blanks)
    BY TextAssumption
  <2> QED
    BY <1>2, <1>3, <2>1, TextAssumption, ElementOfSeq
<1>5. sep \in 1 .. Len(line) /\ line[sep] = Colon
  <2> DEFINE stop == {Colon}
  <2>1. sep = FirstIn(line, stop)
    OBVIOUS
  <2> HIDE DEF stop
  <2>2. /\ sep \in 1 .. Len(line) + 1
        /\ sep <= Len(line) => line[sep] \in stop
    BY <1>4, <2>1, FirstInExists
  <2> QED
    BY <1>4, <2>2 DEF stop
<1>6. b \in 1 .. sep - 1
  <2>1. /\ b \in 1 .. Len(o)
        /\ \A j \in 1 .. b : j \in 1 .. Len(o) /\ line[j] # Colon
    BY <1>1, <1>2, <1>3
  <2>2. ~(sep <= b)
    BY <1>5, <2>1
  <2> QED
    BY <1>4, <1>5, <2>1, <2>2
<1> DEFINE key == SubSeq(line, 1, sep - 1)
<1>7. /\ key \in Seq(Chars) /\ Len(key) = sep - 1
      /\ \A i \in 1 .. sep - 1 : key[i] = line[i]
  <2> DEFINE first == 1
             last  == sep - 1
  <2>1. \A i \in first .. last : line[i] \in Chars
    BY <1>3, <1>4, <1>5, ElementOfSeq
  <2>2. first \in Int /\ last \in Int /\ first = 1 /\ last >= 0
    BY <1>4, <1>5
  <2>3. key = SubSeq(line, first, last)
    OBVIOUS
  <2> HIDE DEF key, first, last
  <2>4. /\ key \in Seq(Chars)
        /\ Len(key) = IF first <= last THEN last - first + 1 ELSE 0
        /\ \A i \in 1 .. last - first + 1 : key[i] = line[first + i - 1]
    <3> DEFINE sub == SubSeq(line, first, last)
    <3>1. /\ sub \in Seq(Chars)
          /\ Len(sub) = IF first <= last THEN last - first + 1 ELSE 0
          /\ \A i \in 1 .. last - first + 1 : sub[i] = line[first + i - 1]
      BY ONLY <2>1, <2>2, SubSeqProperties
    <3> QED
      BY ONLY <2>3, <3>1
  <2>5. Len(key) = last
    BY <2>2, <2>4
  <2>6. \A i \in 1 .. last : key[i] = line[i]
    <3> TAKE i \in 1 .. last
    <3>1. first + i - 1 = i /\ i \in 1 .. last - first + 1
      BY <2>2
    <3> QED
      BY <2>4, <3>1
  <2> QED
    BY <2>4, <2>5, <2>6 DEF last
<1>8. key[b] \in Blanks /\ b \in DOMAIN key
  <2>1. DOMAIN key = 1 .. Len(key)
    BY <1>7, LenProperties
  <2> HIDE DEF key
  <2> QED
    BY <1>1, <1>2, <1>3, <1>6, <1>7, <2>1
<1>9. ASSUME NEW name \in Names, Same(key, name) PROVE FALSE
  <2> HIDE DEF key
  <2>1. b \in DOMAIN name /\ Upper[key[b]] = Upper[name[b]]
    BY <1>8, <1>9 DEF Same, Canonical
  <2>2. Upper[name[b]] \in Letters
    BY <2>1, NameIsLetters
  <2>3. key[b] \in Chars /\ key[b] \notin Letters
    BY <1>8, TextAssumption DEF Letters
  <2> QED
    BY <2>1, <2>2, <2>3, TextAssumption
<1> QED
  BY <1>7, <1>9

LEMMA OtherIsNoEnd ==
  ASSUME NEW o \in Others
  PROVE  ~IsEnd(o \o Newline)
<1>1. o \in Seq(Chars) /\ Newline \in Seq(Chars) /\ Len(Newline) = 2
  BY TextAssumption, SeqMonotonic
<1>2. Len(o) \in Nat /\ Len(o) >= 1
  <2>1. DOMAIN o # {} /\ DOMAIN o = 1 .. Len(o) /\ Len(o) \in Nat
    BY <1>1, TextAssumption, LenProperties
  <2> QED
    BY <2>1
<1>3. Len(o \o Newline) = Len(o) + Len(Newline)
  BY <1>1, ConcatProperties
<1> QED
  BY <1>1, <1>2, <1>3 DEF IsEnd

LEMMA EmptyLine ==
  IsEnd(Newline) /\ FirstIn(Newline, {Colon}) > Len(Newline)
<1>1. /\ Newline \in Seq(Blanks) /\ Len(Newline) = 2
      /\ Colon \notin Blanks
  BY TextAssumption
<1>2. \A j \in 1 .. 2 : Newline[j] \notin {Colon}
  BY <1>1, ElementOfSeq
<1> DEFINE stop == {Colon}
           i    == 3
<1> HIDE DEF stop, i
<1>3. /\ Newline \in Seq(Blanks) /\ Len(Newline) \in Nat
      /\ i \in 1 .. Len(Newline) + 1 /\ ~(i <= Len(Newline))
      /\ \A j \in 1 .. i - 1 : Newline[j] \notin stop
  BY <1>1, <1>2 DEF i, stop
<1>4. FirstIn(Newline, stop) = i
  BY <1>3, FirstInIs
<1> QED
  BY <1>1, <1>4 DEF IsEnd, i, stop

-----------------------------------------------------------------------------
(* The map.                                                                *)

(* What is found are the entries whose key is the same up to case.         *)
LEMMA FoundIs ==
  ASSUME NEW map, \A e \in map : e.key \in Seq(Chars), NEW key \in Seq(Chars)
  PROVE  Found(map, key) = {e \in map : Same(e.key, key)}
BY IncomparableIsSame DEF Found

(* A lookup after an insert: of a key that is the same up to case, and of  *)
(* another.                                                                *)
LEMMA FoundAfter ==
  ASSUME NEW map, \A e \in map : e.key \in Seq(Chars), NEW key \in Seq(Chars),
         NEW value, NEW other \in Seq(Chars)
  PROVE  Found(Inserted(map, key, value), other) =
           IF Same(key, other) /\ Found(map, other) = {}
           THEN {[key |-> key, value |-> value]} ELSE Found(map, other)
<1> DEFINE new == [key |-> key, value |-> value]
           all == Inserted(map, key, value)
<1>1. new.key = key
  OBVIOUS
<1>2. all = IF Found(map, key) = {} THEN map \cup {new} ELSE map
  BY DEF Inserted
<1> HIDE DEF new, all
<1>3. \A e \in all : e.key \in Seq(Chars)
  BY <1>1, <1>2
<1>4. /\ \A e : e \in Found(map, key) <=> e \in map /\ Same(e.key, key)
      /\ \A e : e \in Found(map, other) <=> e \in map /\ Same(e.key, other)
      /\ \A e : e \in Found(all, other) <=> e \in all /\ Same(e.key, other)
  BY <1>3, FoundIs
<1>5. ASSUME ~Same(key, other)
      PROVE  Found(all, other) = Found(map, other)
  <2>1. \A e : e \in Found(all, other) <=> e \in Found(map, other)
    BY <1>1, <1>2, <1>4, <1>5
  <2> QED
    BY <2>1
<1>6. ASSUME Same(key, other)
      PROVE  Found(all, other) = IF Found(map, other) = {} THEN {new}
                                 ELSE Found(map, other)
  <2>1. \A e \in map : Same(e.key, key) <=> Same(e.key, other)
    BY <1>6 DEF Same
  <2>2. Found(map, key) = Found(map, other)
    <3>1. \A e : e \in Found(map, key) <=> e \in Found(map, other)
      BY <1>4, <2>1
    <3> QED
      BY <3>1
  <2>3. ASSUME Found(map, other) = {} PROVE Found(all, other) = {new}
    <3>1. \A e : e \in Found(all, other) <=> e = new
      BY <1>1, <1>2, <1>4, <1>6, <2>2, <2>3
    <3> QED
      BY <3>1
  <2>4. ASSUME Found(map, other) # {}
        PROVE  Found(all, other) = Found(map, other)
    BY <1>2, <2>2, <2>4
  <2> QED
    BY <2>3, <2>4
<1>7. Found(all, other) = IF Same(key, other) /\ Found(map, other) = {}
                          THEN {new} ELSE Found(map, other)
  BY <1>5, <1>6
<1> QED
  BY <1>7 DEF all, new

Fields == [name : Names, value : Values]

(* The first field with a name, after one more field.                      *)
LEMMA FirstAfterAppend ==
  ASSUME NEW fs \in Seq(Fields), NEW f \in Fields, NEW name
  PROVE  FirstValue(Append(fs, f), name) =
           IF Same(f.name, name) /\ FirstValue(fs, name) = {}
           THEN {f.value} ELSE FirstValue(fs, name)
<1> DEFINE L == Len(fs)
           g == Append(fs, f)
<1>1. /\ L \in Nat /\ DOMAIN fs = 1 .. L
      /\ DOMAIN g = 1 .. L + 1
      /\ \A i \in 1 .. L : g[i] = fs[i]
      /\ g[L + 1] = f
  BY AppendProperties, LenProperties
<1> HIDE DEF L, g
<1>2. \A i \in 1 .. L : i \in First(g, name) <=> i \in First(fs, name)
  <2> TAKE i \in 1 .. L
  <2>1. i \in DOMAIN g /\ i \in DOMAIN fs /\ g[i] = fs[i]
        /\ \A j \in 1 .. i - 1 : g[j] = fs[j]
    BY <1>1
  <2> QED
    BY <2>1 DEF First
<1>3. First(fs, name) \subseteq 1 .. L
  BY <1>1 DEF First
<1>4. First(g, name) \subseteq 1 .. L + 1
  BY <1>1 DEF First
<1>5. (\A j \in 1 .. L : ~Same(fs[j].name, name)) <=> First(fs, name) = {}
  <2>1. ASSUME NEW j \in 1 .. L, Same(fs[j].name, name)
        PROVE  First(fs, name) # {}
    <3> DEFINE T == {i \in 1 .. L : Same(fs[i].name, name)}
    <3>1. T \subseteq Nat /\ T # {}
      BY <2>1
    <3> HIDE DEF T
    <3>2. PICK i \in T : \A m \in T : i <= m
      BY <3>1, Smallest
    <3>3. i \in 1 .. L /\ Same(fs[i].name, name)
      BY <3>2 DEF T
    <3>4. \A m \in 1 .. i - 1 : ~Same(fs[m].name, name)
      BY <1>1, <3>2, <3>3 DEF T
    <3> QED
      BY <1>1, <3>3, <3>4 DEF First
  <2>2. ASSUME NEW j \in First(fs, name)
        PROVE  j \in 1 .. L /\ Same(fs[j].name, name)
    BY <1>1 DEF First
  <2> QED
    BY <2>1, <2>2
<1>6. L + 1 \in First(g, name)
        <=> Same(f.name, name) /\ First(fs, name) = {}
  <2>1. L + 1 \in DOMAIN g /\ L + 1 - 1 = L
        /\ \A j \in 1 .. L : g[j] = fs[j]
    BY <1>1
  <2> QED
    BY <1>1, <1>5, <2>1 DEF First
<1>7. First(g, name) = IF Same(f.name, name) /\ First(fs, name) = {}
                       THEN {L + 1} ELSE First(fs, name)
  <2>1. \A i \in First(g, name) : i \in 1 .. L \/ i = L + 1
    BY <1>1, <1>4
  <2>2. L + 1 \notin 1 .. L
    BY <1>1
  <2>3. \A i : i \in First(g, name) <=>
                  \/ i \in First(fs, name)
                  \/ /\ i = L + 1
                     /\ Same(f.name, name) /\ First(fs, name) = {}
    BY <1>2, <1>3, <1>6, <2>1, <2>2
  <2> QED
    BY <2>3
<1>8. \A i \in First(fs, name) : g[i] = fs[i]
  BY <1>1, <1>3
<1>9. FirstValue(g, name) =
        IF Same(f.name, name) /\ First(fs, name) = {}
        THEN {f.value} ELSE FirstValue(fs, name)
  BY <1>1, <1>7, <1>8 DEF FirstValue
<1> QED
  BY <1>9 DEF FirstValue, g

-----------------------------------------------------------------------------
(* The callback, line by line.                                             *)

Shape ==
  /\ headers_received \in 0 .. MaxSections
  /\ last_clear \in Nat
  /\ last_clear = headers_received \/ last_clear + 1 = headers_received
  /\ ready \in BOOLEAN
  /\ \A e \in entries : e.key \in Seq(Chars)
  /\ sent \in [Sections -> Seq(Fields)]

(* Nothing was sent of a section whose first line is still to come.        *)
NothingAhead ==
  \A n \in Sections :
    n > Current \/ (n = Current /\ NewSection) => sent[n] = <<>>

IInv == Shape /\ NothingAhead /\ LookupFindsFirst

(* _fields after clear_after_headers, when a line comes.                   *)
Kept == IF NewSection THEN {} ELSE entries

Lookup(map, name) == {e.value : e \in Found(map, name)}

(* What a lookup in _fields should give while Current is coming in.        *)
Due(fs, name) == IF Current \in Sections THEN FirstValue(fs, name) ELSE {}

LEMMA KeptIs ==
  ASSUME IInv
  PROVE  /\ \A e \in Kept : e.key \in Seq(Chars)
         /\ \A name \in Names : Lookup(Kept, name) = Due(sent[Current], name)
<1>1. \A e \in Kept : e.key \in Seq(Chars)
  BY DEF Kept, IInv, Shape
<1>2. ASSUME NEW name \in Names
      PROVE  Lookup(Kept, name) = Due(sent[Current], name)
  <2>1. CASE NewSection
    <3>1. Lookup(Kept, name) = {}
      BY <2>1 DEF Kept, Lookup, Found
    <3>2. ASSUME Current \in Sections
          PROVE  FirstValue(sent[Current], name) = {}
      <4>1. sent[Current] = <<>>
        BY <2>1, <3>2 DEF IInv, NothingAhead
      <4>2. DOMAIN <<>> = {}
        OBVIOUS
      <4> QED
        BY <4>1, <4>2 DEF FirstValue, First
    <3> QED
      BY <3>1, <3>2 DEF Due
  <2>2. CASE ~NewSection
    <3>1. Collected = Current /\ Kept = entries
      BY <2>2 DEF IInv, Shape, NewSection, Collected, Current, Kept
    <3>2. {e.value : e \in Found(entries, name)} =
            IF Collected \in Sections THEN FirstValue(sent[Collected], name)
            ELSE {}
      BY DEF IInv, LookupFindsFirst
    <3> QED
      BY <3>1, <3>2 DEF Lookup, Due
  <2> QED
    BY <2>1, <2>2
<1> QED
  BY <1>1, <1>2

LEMMA OtherStep ==
  ASSUME IInv, NEW o \in Others, Other(o)
  PROVE  /\ last_clear' = headers_received
         /\ headers_received' = headers_received
         /\ ready' = (ready /\ ~NewSection)
         /\ \A e \in entries' : e.key \in Seq(Chars)
         /\ \A name \in Names : Found(entries', name) = Found(Kept, name)
         /\ inside' = TRUE /\ sent' = sent
<1> DEFINE line == o \o Newline
           sep  == FirstIn(line, {Colon})
           key  == SubSeq(line, 1, sep - 1)
           value == Trim(SubSeq(line, sep + 1, Len(line)))
<1>1. /\ last_clear' = headers_received
      /\ headers_received' = headers_received + (IF IsEnd(line) THEN 1 ELSE 0)
      /\ ready' = (IsEnd(line) \/ (ready /\ ~NewSection))
      /\ inside' = TRUE /\ sent' = sent
      /\ entries' = IF sep > Len(line) THEN Kept
                    ELSE Inserted(Kept, key, value)
  BY DEF Other, Callback, Kept
<1>2. ~IsEnd(line)
  BY OtherIsNoEnd
<1>3. headers_received \in Nat
  BY DEF IInv, Shape
<1>4. sep \in Nat /\ Len(line) \in Nat
  <2>1. o \in Seq(Chars) /\ Newline \in Seq(Chars)
    BY TextAssumption, SeqMonotonic
  <2>2. line \in Seq(Chars) /\ Len(line) \in Nat
    BY <2>1, ConcatProperties, LenProperties
  <2> HIDE DEF line
  <2> QED
    BY <2>2, FirstInExists
<1>5. sep <= Len(line) => /\ key \in Seq(Chars)
                          /\ \A name \in Names : ~Same(key, name)
  BY OtherLine
<1> HIDE DEF line, sep, key, value
<1>6. \A name \in Names : name \in Seq(Chars)
  BY NameIsLetters
<1>7. CASE sep > Len(line)
  <2>1. entries' = Kept
    BY <1>1, <1>7
  <2> QED
    BY <1>1, <1>2, <1>3, <2>1, KeptIs
<1>8. CASE sep <= Len(line)
  <2>1. entries' = Inserted(Kept, key, value)
    BY <1>1, <1>4, <1>8
  <2>2. \A e \in entries' : e.key \in Seq(Chars)
    BY <1>5, <1>8, <2>1, KeptIs DEF Inserted
  <2>3. \A name \in Names : Found(entries', name) = Found(Kept, name)
    BY <1>5, <1>6, <1>8, <2>1, KeptIs, FoundAfter
  <2> QED
    BY <1>1, <1>2, <1>3, <2>2, <2>3
<1>9. sep > Len(line) \/ sep <= Len(line)
  BY <1>4
<1> QED
  BY <1>7, <1>8, <1>9, Zenon

LEMMA FieldStep ==
  ASSUME IInv, NEW name \in Names, NEW before \in Pads, NEW value \in Values,
         NEW after \in Pads, Field(name, before, value, after)
  PROVE  /\ last_clear' = headers_received
         /\ headers_received' = headers_received
         /\ ready' = (ready /\ ~NewSection)
         /\ \A e \in entries' : e.key \in Seq(Chars)
         /\ entries' = Inserted(Kept, name, value)
         /\ Current \in Sections
         /\ sent' = [sent EXCEPT
              ![Current] = Append(@, [name |-> name, value |-> value])]
         /\ inside' = TRUE
<1> DEFINE line == Line(name, before, value, after)
           sep  == FirstIn(line, {Colon})
<1>1. /\ last_clear' = headers_received
      /\ headers_received' = headers_received + (IF IsEnd(line) THEN 1 ELSE 0)
      /\ ready' = (IsEnd(line) \/ (ready /\ ~NewSection))
      /\ inside' = TRUE /\ Current \in Sections
      /\ sent' = [sent EXCEPT
           ![Current] = Append(@, [name |-> name, value |-> value])]
      /\ entries' = IF sep > Len(line) THEN Kept
                    ELSE Inserted(Kept, SubSeq(line, 1, sep - 1),
                                  Trim(SubSeq(line, sep + 1, Len(line))))
  BY DEF Field, Callback, Kept
<1>2. /\ ~(sep > Len(line))
      /\ SubSeq(line, 1, sep - 1) = name
      /\ Trim(SubSeq(line, sep + 1, Len(line))) = value
      /\ ~IsEnd(line)
  BY FieldLine
<1> HIDE DEF line, sep
<1>3. entries' = Inserted(Kept, name, value)
  BY <1>1, <1>2, Zenon
<1>4. \A e \in entries' : e.key \in Seq(Chars)
  BY <1>3, KeptIs, NameIsLetters DEF Inserted
<1>5. headers_received \in Nat
  BY DEF IInv, Shape
<1> QED
  BY <1>1, <1>2, <1>3, <1>4, <1>5

LEMMA EndStep ==
  ASSUME IInv, End
  PROVE  /\ last_clear' = headers_received
         /\ headers_received' = headers_received + 1
         /\ ready' = TRUE
         /\ entries' = Kept
         /\ Current \in Sections
         /\ inside /\ inside' = ~TRUE /\ sent' = sent
BY EmptyLine DEF End, Callback, Kept

-----------------------------------------------------------------------------
(* Lookups.                                                                *)

LEMMA InitIInv ==
  Init => IInv
<1> SUFFICES ASSUME Init PROVE IInv
  OBVIOUS
<1>1. Shape
  <2>1. <<>> \in Seq(Fields)
    BY EmptySeq
  <2>2. sent \in [Sections -> Seq(Fields)]
    BY <2>1 DEF Init
  <2>3. 0 \in 0 .. MaxSections
    BY TextAssumption
  <2>4. headers_received = 0 /\ last_clear = 0 /\ ready \in BOOLEAN
        /\ entries = {}
    BY DEF Init
  <2> QED
    BY <2>2, <2>3, <2>4 DEF Shape
<1>2. NothingAhead
  BY DEF Init, NothingAhead
<1>3. LookupFindsFirst
  <2>1. \A name \in Names : Found(entries, name) = {}
    BY DEF Init, Found
  <2>2. ASSUME Collected \in Sections, NEW name
        PROVE  FirstValue(sent[Collected], name) = {}
    <3>1. sent[Collected] = <<>> /\ DOMAIN <<>> = {}
      BY <2>2 DEF Init
    <3> QED
      BY <3>1 DEF FirstValue, First
  <2> QED
    BY <2>1, <2>2 DEF LookupFindsFirst
<1> QED
  BY <1>1, <1>2, <1>3 DEF IInv

(* It is enough to look at the new _fields and sent.                       *)
LEMMA LookupAfter ==
  ASSUME NEW section, Collected' = section,
         \A name \in Names :
           Lookup(entries', name) =
             IF section \in Sections THEN FirstValue(sent'[section], name)
             ELSE {}
  PROVE  LookupFindsFirst'
<1>1. ASSUME NEW name \in Names
      PROVE  ({e.value : e \in Found(entries, name)} =
                IF Collected \in Sections
                THEN FirstValue(sent[Collected], name) ELSE {})'
  <2>1. {e.value : e \in Found(entries, name)}' = Lookup(entries', name)
    BY DEF Lookup, Found, Less
  <2>2. FirstValue(sent[Collected], name)' = FirstValue(sent'[section], name)
    BY DEF FirstValue, First, Same, Canonical
  <2>3. Sections' = Sections
    BY DEF Sections
  <2> QED
    BY <2>1, <2>2, <2>3
<1> QED
  BY <1>1 DEF LookupFindsFirst

LEMMA NextIInv ==
  IInv /\ [Next]_vars => IInv'
<1> SUFFICES ASSUME IInv, [Next]_vars PROVE IInv'
  OBVIOUS
<1>1. /\ headers_received \in Nat /\ headers_received <= MaxSections
      /\ MaxSections \in Nat
      /\ sent \in [Sections -> Seq(Fields)]
  BY TextAssumption DEF IInv, Shape
<1>2. ASSUME NEW o \in Others, Other(o) PROVE IInv'
  <2>1. /\ last_clear' = headers_received
        /\ headers_received' = headers_received
        /\ ready' = (ready /\ ~NewSection)
        /\ \A e \in entries' : e.key \in Seq(Chars)
        /\ \A name \in Names : Found(entries', name) = Found(Kept, name)
        /\ sent' = sent
    BY <1>2, OtherStep
  <2>2. Shape'
    BY <1>1, <2>1 DEF IInv, Shape
  <2>3. NothingAhead'
    <3>1. Current' = Current /\ ~NewSection' /\ Current \in Int
      BY <1>1, <2>1 DEF Current, NewSection
    <3> QED
      BY <2>1, <3>1 DEF IInv, NothingAhead, Sections
  <2>4. \A name \in Names : Lookup(entries', name) = Due(sent[Current], name)
    BY <2>1, KeptIs DEF Lookup
  <2>5. Collected' = Current
    BY <2>1 DEF Collected, Current
  <2>6. LookupFindsFirst'
    BY <2>1, <2>4, <2>5, LookupAfter DEF Due
  <2> QED
    BY <2>2, <2>3, <2>6 DEF IInv
<1>3. ASSUME NEW name \in Names, NEW before \in Pads, NEW value \in Values,
             NEW after \in Pads, Field(name, before, value, after)
      PROVE  IInv'
  <2> DEFINE f == [name |-> name, value |-> value]
  <2>1. /\ last_clear' = headers_received
        /\ headers_received' = headers_received
        /\ ready' = (ready /\ ~NewSection)
        /\ \A e \in entries' : e.key \in Seq(Chars)
        /\ entries' = Inserted(Kept, name, value)
        /\ Current \in Sections
        /\ sent' = [sent EXCEPT ![Current] = Append(sent[Current], f)]
    BY <1>3, FieldStep
  <2>2. f \in Fields /\ f.name = name /\ f.value = value
    BY DEF Fields
  <2> HIDE DEF f
  <2>3. sent[Current] \in Seq(Fields)
        /\ sent'[Current] = Append(sent[Current], f)
        /\ \A n \in Sections : n # Current => sent'[n] = sent[n]
    BY <1>1, <2>1
  <2>4. sent' \in [Sections -> Seq(Fields)]
    <3>1. Append(sent[Current], f) \in Seq(Fields)
      BY <2>2, <2>3, AppendProperties
    <3> QED
      BY <1>1, <2>1, <3>1
  <2>5. Shape'
    BY <1>1, <2>1, <2>4 DEF IInv, Shape
  <2>6. NothingAhead'
    <3>1. Current' = Current /\ ~NewSection' /\ Current \in Int
      BY <1>1, <2>1 DEF Current, NewSection
    <3> QED
      BY <2>3, <3>1 DEF IInv, NothingAhead, Sections
  <2>7. ASSUME NEW other \in Names
        PROVE  Lookup(entries', other) = FirstValue(sent'[Current], other)
    <3>1. Lookup(Kept, other) = FirstValue(sent[Current], other)
      BY <2>1, KeptIs DEF Due
    <3>2. Lookup(Kept, other) = {} <=> Found(Kept, other) = {}
      BY DEF Lookup
    <3>3. Found(entries', other) =
            IF Same(name, other) /\ Found(Kept, other) = {}
            THEN {[key |-> name, value |-> value]} ELSE Found(Kept, other)
      <4>1. name \in Seq(Chars) /\ other \in Seq(Chars)
        BY NameIsLetters
      <4>2. \A e \in Kept : e.key \in Seq(Chars)
        BY KeptIs
      <4>3. Found(Inserted(Kept, name, value), other) =
              IF Same(name, other) /\ Found(Kept, other) = {}
              THEN {[key |-> name, value |-> value]} ELSE Found(Kept, other)
        BY ONLY <4>1, <4>2, FoundAfter
      <4> QED
        BY <2>1, <4>3
    <3>4. FirstValue(sent'[Current], other) =
            IF Same(name, other) /\ FirstValue(sent[Current], other) = {}
            THEN {value} ELSE FirstValue(sent[Current], other)
      BY <2>2, <2>3, FirstAfterAppend
    <3>5. [key |-> name, value |-> value].value = value
      OBVIOUS
    <3>6. CASE Same(name, other) /\ Found(Kept, other) = {}
      <4>1. Lookup(entries', other) = {value}
        BY <3>3, <3>5, <3>6 DEF Lookup
      <4> QED
        BY <3>1, <3>2, <3>4, <3>6, <4>1
    <3>7. CASE ~(Same(name, other) /\ Found(Kept, other) = {})
      <4>1. Lookup(entries', other) = Lookup(Kept, other)
        BY <3>3, <3>7 DEF Lookup
      <4> QED
        BY <3>1, <3>2, <3>4, <3>7, <4>1
    <3> QED
      BY <3>6, <3>7
  <2>8. Collected' = Current
    BY <2>1 DEF Collected, Current
  <2>9. LookupFindsFirst'
    BY <2>1, <2>7, <2>8, LookupAfter
  <2> QED
    BY <2>5, <2>6, <2>9 DEF IInv
<1>4. ASSUME End PROVE IInv'
  <2>1. /\ last_clear' = headers_received
        /\ headers_received' = headers_received + 1
        /\ ready' = TRUE
        /\ entries' = Kept
        /\ Current \in Sections
        /\ sent' = sent
    BY <1>4, EndStep
  <2>2. Shape'
    BY <1>1, <2>1, KeptIs DEF IInv, Shape, Current, Sections
  <2>3. NothingAhead'
    BY <1>1, <2>1 DEF IInv, NothingAhead, Current, NewSection, Sections
  <2>4. \A name \in Names : Lookup(entries', name) = Due(sent[Current], name)
    BY <2>1, KeptIs
  <2>5. Collected' = Current
    BY <2>1 DEF Collected, Current
  <2>6. LookupFindsFirst'
    BY <2>1, <2>4, <2>5, LookupAfter DEF Due
  <2> QED
    BY <2>2, <2>3, <2>6 DEF IInv
<1>5. CASE UNCHANGED vars
  <2>1. Shape' /\ NothingAhead'
    BY <1>5 DEF vars, IInv, Shape, NothingAhead, Current, NewSection
  <2>2. Collected' = Collected
    BY <1>5 DEF vars, Collected
  <2>3. LookupFindsFirst'
    <3>1. \A name \in Names :
            Lookup(entries, name) =
              IF Collected \in Sections THEN FirstValue(sent[Collected], name)
              ELSE {}
      BY DEF IInv, LookupFindsFirst, Lookup
    <3>2. entries' = entries /\ sent' = sent
      BY <1>5 DEF vars
    <3> QED
      BY <2>2, <3>1, <3>2, LookupAfter
  <2> QED
    BY <2>1, <2>3 DEF IInv
<1> QED
  BY <1>2, <1>3, <1>4, <1>5 DEF Next

(* A lookup, in any case, finds the value of the first field of that name  *)
(* in the section that is being collected, free of the white space around  *)
(* it: whatever characters, names, values and other lines there are.       *)
THEOREM LookupsFindFirst ==
  Spec => []LookupFindsFirst
<1>1. IInv => LookupFindsFirst
  BY DEF IInv
<1> QED
  BY InitIInv, NextIInv, <1>1, PTL DEF Spec

-----------------------------------------------------------------------------
(* HeaderCollector's view.                                                 *)

(* Its keys, _fields for a map of one section, and the lines.              *)
Keys             == {Canonical(name) : name \in Names}
View(map, n)     == [key \in Keys |-> IF Found(map, key) = {} THEN 0 ELSE n]
LinesOf(history) ==
  [n \in Sections |->
     {Canonical(history[n][i].name) : i \in DOMAIN history[n]}]

LEMMA CanonicalFound ==
  ASSUME NEW map, \A e \in map : e.key \in Seq(Chars), NEW name \in Names
  PROVE  Found(map, Canonical(name)) = Found(map, name)
<1>1. /\ name \in Seq(Chars) /\ Canonical(name) \in Seq(Chars)
      /\ Same(Canonical(name), name)
  BY NameIsLetters
<1>2. \A e : Same(e.key, Canonical(name)) <=> Same(e.key, name)
  BY <1>1 DEF Same
<1>3. /\ Found(map, Canonical(name))
           = {e \in map : Same(e.key, Canonical(name))}
      /\ Found(map, name) = {e \in map : Same(e.key, name)}
  BY <1>1, FoundIs
<1> QED
  BY <1>2, <1>3

LEMMA ClearedIs ==
  ASSUME IInv
  PROVE  H!Cleared = View(Kept, Current)
<1>1. CASE NewSection
  <2>1. H!Cleared = [key \in Keys |-> 0]
    BY <1>1 DEF H!Cleared, H!NewSection, NewSection, H!NoFields, H!None, Keys
  <2>2. \A key : Found(Kept, key) = {}
    BY <1>1 DEF Kept, Found
  <2> QED
    BY <2>1, <2>2 DEF View
<1>2. CASE ~NewSection
  <2>1. H!Cleared = View(entries, Collected)
    BY <1>2 DEF H!Cleared, H!NewSection, NewSection, View, Keys
  <2>2. Kept = entries /\ Collected = Current
    BY <1>2 DEF IInv, Shape, NewSection, Collected, Current, Kept
  <2> QED
    BY <2>1, <2>2
<1> QED
  BY <1>1, <1>2

LEMMA OtherIsLine ==
  ASSUME IInv, NEW o \in Others, Other(o)
  PROVE  H!Line({})
<1>1. /\ last_clear' = headers_received
      /\ headers_received' = headers_received
      /\ ready' = (ready /\ ~NewSection)
      /\ \A e \in entries' : e.key \in Seq(Chars)
      /\ \A name \in Names : Found(entries', name) = Found(Kept, name)
      /\ inside' = TRUE /\ sent' = sent
  BY OtherStep
<1>2. View(entries', Current) = View(Kept, Current)
  <2>1. ASSUME NEW name \in Names
        PROVE  Found(entries', Canonical(name)) = Found(Kept, Canonical(name))
    BY <1>1, KeptIs, CanonicalFound
  <2> QED
    BY <2>1 DEF View, Keys
<1>3. View(entries, Collected)' = [k \in Keys |-> H!Cleared[k]]
  <2>1. View(entries, Collected)' = View(entries', Current)
    BY <1>1 DEF View, Found, Less, Keys, Canonical, Collected, Current
  <2> QED
    BY <1>2, <2>1, ClearedIs DEF View
<1>4. LinesOf(sent') = [n \in Sections |->
                          IF n = headers_received + 1
                          THEN LinesOf(sent)[n] \cup {} ELSE LinesOf(sent)[n]]
  BY <1>1 DEF LinesOf
<1>5. H!StillReady = (ready /\ ~NewSection)
  BY DEF H!StillReady, H!NewSection, NewSection
<1> QED
  BY <1>1, <1>3, <1>4, <1>5
  DEF H!Line, View, Keys, LinesOf, H!Sections, Sections, H!None, H!answers

LEMMA FieldIsLine ==
  ASSUME IInv, NEW name \in Names, NEW before \in Pads, NEW value \in Values,
         NEW after \in Pads, Field(name, before, value, after)
  PROVE  H!Line({Canonical(name)})
<1> DEFINE key == Canonical(name)
           f   == [name |-> name, value |-> value]
<1>1. /\ last_clear' = headers_received
      /\ headers_received' = headers_received
      /\ ready' = (ready /\ ~NewSection)
      /\ \A e \in entries' : e.key \in Seq(Chars)
      /\ entries' = Inserted(Kept, name, value)
      /\ Current \in Sections
      /\ sent' = [sent EXCEPT ![Current] = Append(sent[Current], f)]
      /\ inside' = TRUE
  BY FieldStep
<1>2. f \in Fields /\ f.name = name
  BY DEF Fields
<1>3. /\ sent \in [Sections -> Seq(Fields)]
      /\ \A e \in Kept : e.key \in Seq(Chars)
      /\ headers_received < MaxSections
  BY <1>1, KeptIs, TextAssumption DEF IInv, Shape, Current, Sections
<1> HIDE DEF f
<1>4. ASSUME NEW k \in Keys
      PROVE  Found(entries', k) = {} <=> k # key /\ Found(Kept, k) = {}
  <2>1. PICK other \in Names : k = Canonical(other)
    BY DEF Keys
  <2>2. /\ Found(entries', k) = Found(entries', other)
        /\ Found(Kept, k) = Found(Kept, other)
    BY <1>1, <1>3, <2>1, CanonicalFound
  <2>3. Found(Inserted(Kept, name, value), other) =
          IF Same(name, other) /\ Found(Kept, other) = {}
          THEN {[key |-> name, value |-> value]} ELSE Found(Kept, other)
    <3>1. name \in Seq(Chars) /\ other \in Seq(Chars)
      BY NameIsLetters
    <3> QED
      BY ONLY <1>3, <3>1, FoundAfter
  <2>4. Same(name, other) <=> k = key
    BY <2>1 DEF Same
  <2>5. Found(entries', other) = {}
          <=> ~Same(name, other) /\ Found(Kept, other) = {}
    BY <1>1, <2>3
  <2> QED
    BY <2>2, <2>4, <2>5
<1>5. View(entries', Current) =
        [k \in Keys |-> IF k \in {key} /\ H!Cleared[k] = 0
                        THEN headers_received + 1 ELSE H!Cleared[k]]
  <2>1. Current = headers_received + 1
    BY DEF Current
  <2>2. ASSUME NEW k \in Keys
        PROVE  (IF Found(entries', k) = {} THEN 0 ELSE Current) =
                 IF k \in {key} /\ H!Cleared[k] = 0
                 THEN headers_received + 1 ELSE H!Cleared[k]
    <3>1. H!Cleared[k] = IF Found(Kept, k) = {} THEN 0 ELSE Current
      BY ClearedIs DEF View
    <3> QED
      BY <1>4, <2>1, <3>1
  <2> HIDE DEF key
  <2> QED
    BY <2>2 DEF View
<1>6. View(entries, Collected)' = View(entries', Current)
  BY <1>1 DEF View, Found, Less, Keys, Canonical, Collected, Current
<1>7. LinesOf(sent') = [n \in Sections |->
                          IF n = headers_received + 1
                          THEN LinesOf(sent)[n] \cup {key}
                          ELSE LinesOf(sent)[n]]
  <2>1. ASSUME NEW n \in Sections, n # Current
        PROVE  sent'[n] = sent[n]
    BY <1>1, <1>3, <2>1
  <2>2. sent'[Current] = Append(sent[Current], f)
    BY <1>1, <1>3
  <2>3. ASSUME NEW fs \in Seq(Fields)
        PROVE  {Canonical(Append(fs, f)[i].name) : i \in DOMAIN Append(fs, f)}
               = {Canonical(fs[i].name) : i \in DOMAIN fs} \cup {key}
    <3> DEFINE g == Append(fs, f)
               L == Len(fs)
    <3>1. /\ L \in Nat /\ DOMAIN fs = 1 .. L /\ DOMAIN g = 1 .. L + 1
          /\ \A i \in 1 .. L : g[i] = fs[i]
          /\ g[L + 1] = f
      BY <1>2, AppendProperties, LenProperties
    <3> HIDE DEF g, L, key
    <3>2. Canonical(g[L + 1].name) = key
      BY <1>2, <3>1 DEF key
    <3>3. DOMAIN g = DOMAIN fs \cup {L + 1}
      BY <3>1
    <3>4. \A i \in DOMAIN fs : g[i] = fs[i]
      BY <3>1
    <3>5. {Canonical(g[i].name) : i \in DOMAIN g}
            = {Canonical(fs[i].name) : i \in DOMAIN fs} \cup {key}
      BY <3>2, <3>3, <3>4
    <3> QED
      BY <3>5 DEF g
  <2>4. Current = headers_received + 1 /\ sent[Current] \in Seq(Fields)
    BY <1>1, <1>3 DEF Current
  <2> HIDE DEF key
  <2>5. ASSUME NEW n \in Sections
        PROVE  {Canonical(sent'[n][i].name) : i \in DOMAIN sent'[n]}
               = IF n = headers_received + 1
                 THEN LinesOf(sent)[n] \cup {key} ELSE LinesOf(sent)[n]
    <3>1. LinesOf(sent)[n]
            = {Canonical(sent[n][i].name) : i \in DOMAIN sent[n]}
      BY DEF LinesOf
    <3>2. CASE n = Current
      <4>1. sent'[n] = Append(sent[n], f) /\ sent[n] \in Seq(Fields)
        BY <2>2, <2>4, <3>2
      <4>2. {Canonical(Append(sent[n], f)[i].name) :
               i \in DOMAIN Append(sent[n], f)}
            = {Canonical(sent[n][i].name) : i \in DOMAIN sent[n]} \cup {key}
        BY <2>3, <4>1
      <4>3. {Canonical(sent'[n][i].name) : i \in DOMAIN sent'[n]}
            = LinesOf(sent)[n] \cup {key}
        BY <3>1, <4>1, <4>2, Zenon
      <4>4. n = headers_received + 1
        BY <2>4, <3>2
      <4> QED
        BY <4>3, <4>4
    <3>3. CASE n # Current
      BY <2>1, <2>4, <3>1, <3>3
    <3> QED
      BY <3>2, <3>3
  <2> QED
    BY <2>5 DEF LinesOf
<1>8. H!StillReady = (ready /\ ~NewSection)
  BY DEF H!StillReady, H!NewSection, NewSection
<1> HIDE DEF key
<1>9. H!Line({key})
  BY <1>1, <1>3, <1>5, <1>6, <1>7, <1>8
  DEF H!Line, View, Keys, LinesOf, H!Sections, Sections, H!None, H!answers
<1> QED
  BY <1>9 DEF key

LEMMA EndIsEnd ==
  ASSUME IInv, End
  PROVE  H!EndUnawaited
<1>1. /\ last_clear' = headers_received
      /\ headers_received' = headers_received + 1
      /\ ready' = TRUE
      /\ entries' = Kept
      /\ Current \in Sections
      /\ inside /\ inside' = ~TRUE /\ sent' = sent
  BY EndStep
<1>2. headers_received < MaxSections
  BY <1>1, TextAssumption DEF IInv, Shape, Current, Sections
<1>3. View(entries, Collected)' = H!Cleared
  <2>1. View(entries, Collected)' = View(entries', Current)
    BY <1>1 DEF View, Found, Less, Keys, Canonical, Collected, Current
  <2> QED
    BY <1>1, <2>1, ClearedIs
<1> QED
  BY <1>1, <1>2, <1>3
  DEF H!EndUnawaited, View, Keys, H!None, H!answers

LEMMA InitIsInit ==
  Init => H!Init
<1> SUFFICES ASSUME Init PROVE H!Init
  OBVIOUS
<1>1. View(entries, Collected) = H!NoFields
  BY DEF Init, View, Found, Keys, H!NoFields, H!None
<1>2. LinesOf(sent) = [n \in Sections |-> {}]
  <2>1. \A n \in Sections : sent[n] = <<>> /\ DOMAIN <<>> = {}
    BY DEF Init
  <2> QED
    BY <2>1 DEF LinesOf
<1>3. ASSUME NEW v PROVE <<>> = [op \in 1 .. 0 |-> v]
  <2> DEFINE empty == [op \in 1 .. 0 |-> v]
  <2>1. empty \in [1 .. 0 -> {v}]
    OBVIOUS
  <2>2. empty \in Seq({v}) /\ DOMAIN empty = {}
    BY <2>1, SeqDef
  <2>3. Len(empty) = 0
    BY <2>2, LenProperties
  <2> HIDE DEF empty
  <2>4. empty = <<>>
    BY <2>2, <2>3, EmptySeq
  <2> QED
    BY <2>4 DEF empty
<1> QED
  BY <1>1, <1>2, <1>3
  DEF H!Init, Init, View, Keys, LinesOf, H!Sections, Sections, H!Waits,
      H!None, H!NoFields

(* HeaderCollector is right to see of a line its keys only, and of a       *)
(* section where it ends: every line of text, also a trailer or a folded   *)
(* line, does to _fields, _last_clear, _headers_received and               *)
(* _ready_to_await what that module says.                                  *)
THEOREM TextIsCollected ==
  Spec => Collects
<1>1. IInv /\ [Next]_vars => [H!Next]_H!vars
  <2> SUFFICES ASSUME IInv, [Next]_vars PROVE [H!Next]_H!vars
    OBVIOUS
  <2>1. ASSUME NEW o \in Others, Other(o) PROVE H!Next
    BY <2>1, OtherIsLine DEF H!Next
  <2>2. ASSUME NEW name \in Names, NEW before \in Pads, NEW value \in Values,
               NEW after \in Pads, Field(name, before, value, after)
        PROVE  H!Next
    BY <2>2, FieldIsLine DEF H!Next
  <2>3. ASSUME End PROVE H!Next
    BY <2>3, EndIsEnd DEF H!Next
  <2>4. CASE UNCHANGED vars
    BY <2>4 DEF vars, H!vars, H!answers, H!peer, Collected, Found, Less
  <2> QED
    BY <2>1, <2>2, <2>3, <2>4 DEF Next
<1> QED
  BY InitIInv, NextIInv, InitIsInit, <1>1, PTL DEF Spec, Collects
=============================================================================
