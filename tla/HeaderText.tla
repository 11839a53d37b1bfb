----------------------------- MODULE HeaderText -----------------------------
(***************************************************************************)
(* The text behind HeaderCollector: what _header_callback makes of the     *)
(* lines of a header section, character by character, with the order of    *)
(* keys it gives to std::map.  There a line is the set of its keys and a   *)
(* field the section it came in; here that abstraction is justified, with  *)
(* the peer's fields kept as it meant them.                                *)
(*                                                                         *)
(* A character is its code.  cURL hands each line over whole, with its     *)
(* line end.                                                               *)
(***************************************************************************)
EXTENDS Integers, Sequences

CONSTANTS
  Chars,        (* the characters in use                                   *)
  Blanks,       (* those of them std::isspace accepts                      *)
  Colon,        (* ':'                                                     *)
  Upper,        (* std::toupper, a function                                *)
  Newline,      (* the line end the peer uses, CR LF                       *)
  Names,        (* the field names the peer uses                           *)
  Values,       (* the values                                              *)
  Pads,         (* the white space around a value                          *)
  Others,       (* the lines that are no field: status and folded lines    *)
  MaxSections,  (* bound: how many header sections the peer sends          *)
  MaxFields     (* bound: how many fields a section has                    *)

Letters == Chars \ (Blanks \cup {Colon})

(* A value neither begins nor ends with a blank.  A status line has one    *)
(* before its first colon, and so has a folded line: it begins with one.   *)
ASSUME TextAssumption ==
  /\ Chars \subseteq Int
  /\ Blanks \subseteq Chars
  /\ Colon \in Chars \ Blanks
  /\ Upper \in [Chars -> Chars]
  /\ \A c \in Chars : /\ Upper[c] \in Letters <=> c \in Letters
                      /\ Upper[Upper[c]] = Upper[c]
  /\ Newline \in Seq(Blanks) /\ Len(Newline) = 2
  /\ Names \subseteq Seq(Letters) \ {<<>>}
  /\ Values \subseteq Seq(Chars)
  /\ \A v \in Values \ {<<>>} : v[1] \notin Blanks /\ v[Len(v)] \notin Blanks
  /\ Pads \subseteq Seq(Blanks)
  /\ Others \subseteq Seq(Chars)
  /\ \A o \in Others : \E i \in DOMAIN o :
       o[i] \in Blanks /\ \A j \in 1 .. i : o[j] # Colon
  /\ MaxSections \in Nat /\ MaxFields \in Nat

VARIABLES
  entries,          \* _fields, a set of keys with their values
  last_clear,       \* _last_clear
  headers_received, \* _headers_received
  ready,            \* _ready_to_await
  inside,           \* is the peer in the middle of a section (or a trailer)?
  sent              \* history: the fields of each section, as they were meant

vars == <<entries, last_clear, headers_received, ready, inside, sent>>

Sections == 1 .. MaxSections

-----------------------------------------------------------------------------
(* Text.                                                                   *)

(* Where std::find or a loop stops: at the first character that is in      *)
(* stop, or behind the last.                                               *)
FirstIn(str, stop) ==
  CHOOSE i \in 1 .. Len(str) + 1 :
    /\ \A j \in 1 .. i - 1 : str[j] \notin stop
    /\ i <= Len(str) => str[i] \in stop

(* The same from behind.                                                   *)
LastIn(str, begin, stop) ==
  CHOOSE i \in begin - 1 .. Len(str) :
    /\ \A j \in i + 1 .. Len(str) : str[j] \notin stop
    /\ i >= begin => str[i] \in stop

Trim(str) ==
  LET begin == FirstIn(str, Chars \ Blanks)
  IN  SubSeq(str, begin, LastIn(str, begin, Chars \ Blanks))

(* Mutant: the letters are compared as they are.                           *)
Less_CaseSensitive(lhs, rhs) ==
  \/ Len(lhs) < Len(rhs)
  \/ /\ Len(lhs) = Len(rhs)
     /\ \E i \in DOMAIN lhs :
          /\ lhs[i] < rhs[i]
          /\ \A j \in 1 .. i - 1 : lhs[j] = rhs[j]

(* CaseInsensitiveLess                                                     *)
Less(lhs, rhs) ==
  \/ Len(lhs) < Len(rhs)
  \/ /\ Len(lhs) = Len(rhs)
     /\ \E i \in DOMAIN lhs :
          /\ Upper[lhs[i]] < Upper[rhs[i]]
          /\ \A j \in 1 .. i - 1 : Upper[lhs[j]] = Upper[rhs[j]]

(* std::map: the entries whose key is equivalent to key ...                *)
Found(map, key) == {e \in map : ~Less(e.key, key) /\ ~Less(key, e.key)}

(* ... and insert, which leaves an older entry as it is.                   *)
Inserted(map, key, value) ==
  IF Found(map, key) = {} THEN map \cup {[key |-> key, value |-> value]}
  ELSE map

-----------------------------------------------------------------------------
(* _header_callback                                                        *)

NewSection == last_clear < headers_received

(* Mutant: any line without a field ends the section.                      *)
IsEnd_NoField(line) == FirstIn(line, {Colon}) > Len(line)

IsEnd(line) == Len(line) = 2

Callback(line) ==
  LET separator == FirstIn(line, {Colon})
      kept      == IF NewSection THEN {} ELSE entries
  IN
  /\ last_clear' = headers_received
  /\ entries' =
       IF separator > Len(line) THEN kept
       ELSE Inserted(kept, SubSeq(line, 1, separator - 1),
                     Trim(SubSeq(line, separator + 1, Len(line))))
  /\ headers_received' = headers_received + (IF IsEnd(line) THEN 1 ELSE 0)
  /\ ready' = (IsEnd(line) \/ (ready /\ ~NewSection))

-----------------------------------------------------------------------------
(* The peer.                                                               *)

Init ==
  /\ entries = {}
  /\ last_clear = 0
  /\ headers_received = 0
  /\ ready = FALSE
  /\ inside = FALSE
  /\ sent = [n \in Sections |-> <<>>]

(* The section a line that comes now belongs to.                           *)
Current == headers_received + 1

Other(o) ==
  /\ Callback(o \o Newline)
  /\ inside' = TRUE
  /\ UNCHANGED sent

Padded(before, value, after) == before \o value \o (after \o Newline)

Line(name, before, value, after) ==
  name \o <<Colon>> \o Padded(before, value, after)

Field(name, before, value, after) ==
  /\ Current \in Sections
  /\ Len(sent[Current]) < MaxFields
  /\ Callback(Line(name, before, value, after))
  /\ inside' = TRUE
  /\ sent' = [sent EXCEPT
                ![Current] = Append(@, [name |-> name, value |-> value])]

End ==
  /\ inside
  /\ Current \in Sections
  /\ Callback(Newline)
  /\ inside' = FALSE
  /\ UNCHANGED sent

Next ==
  \/ \E o \in Others : Other(o)
  \/ \E name \in Names, before \in Pads, value \in Values, after \in Pads :
       Field(name, before, value, after)
  \/ End

Spec == Init /\ [][Next]_vars

-----------------------------------------------------------------------------
(* Properties.                                                             *)

(* Names are equal up to case.                                             *)
Canonical(name) == [i \in DOMAIN name |-> Upper[name[i]]]
Same(n1, n2)    == Canonical(n1) = Canonical(n2)

(* The section that _fields is about.                                      *)
Collected == last_clear + 1

(* The value of the first of these fields that has this name, if any has.  *)
First(fs, name) ==
  {i \in DOMAIN fs : /\ Same(fs[i].name, name)
                     /\ \A j \in 1 .. i - 1 : ~Same(fs[j].name, name)}

FirstValue(fs, name) == {fs[i].value : i \in First(fs, name)}

(* Whoever looks a name up, in any case, finds the value of the first      *)
(* field with this name that the section had, without the white space      *)
(* around it, and nothing if it had none; whatever else the section had:   *)
(* status lines with colons, folded lines, the same name again.            *)
LookupFindsFirst ==
  \A name \in Names :
    {e.value : e \in Found(entries, name)} =
      IF Collected \in Sections THEN FirstValue(sent[Collected], name) ELSE {}

(* HeaderCollector's view: which names _fields has, and of which section.  *)
H == INSTANCE HeaderCollector WITH
       Keys     <- {Canonical(name) : name \in Names},
       MaxWaits <- 0,
       fields   <- [key \in {Canonical(name) : name \in Names} |->
                      IF Found(entries, key) = {} THEN 0 ELSE Collected],
       lines    <- [n \in Sections |->
                      {Canonical(sent[n][i].name) : i \in DOMAIN sent[n]}],
       finished <- ~TRUE, handler <- 0, torn <- {},
       status   <- <<>>, given <- <<>>, of <- <<>>

(* Every line of text is a line, or the end of a section, as               *)
(* HeaderCollector has them: in particular the empty line and no other     *)
(* ends a section.                                                         *)
Collects == H!Init /\ [][H!Next]_H!vars
=============================================================================
