----------------------------- MODULE HeaderList -----------------------------
(***************************************************************************)
(* The additional headers of BasicRequest: a curl_slist that the request   *)
(* builds and frees, and cURL's CURLOPT_HTTPHEADER, a pointer to it that   *)
(* cURL follows whenever it sends a request: at the start of a transfer    *)
(* and after a redirect.  Requests may be copied: curl_easy_duphandle      *)
(* copies the pointer.                                                     *)
(***************************************************************************)
EXTENDS Naturals, Sequences

CONSTANTS
  Requests,   (* the BasicRequest objects                                   *)
  Headers,    (* the header lines                                           *)
  MaxLists,   (* bound: how many lists are made                             *)
  MaxHeaders  (* bound: how many headers a request is given                 *)

Lists == 1 .. MaxLists
Null  == 0

VARIABLES
  alive,      \* the requests constructed and not destroyed
  additional, \* _additional_headers
  option,     \* cURL: CURLOPT_HTTPHEADER of each easy handle
  content,    \* the headers in each list
  used,       \* how many lists were made
  freed,      \* those that were freed
  headers,    \* history: what each request was given, by the program's calls
  shared,     \* history: did a list lose its owner while cURL may use it?
  read,       \* history: what cURL found when it last sent a request ...
  due         \* ... and what that request was given

vars == <<alive, additional, option, content, used, freed, headers, shared,
          read, due>>

Init ==
  /\ alive = {}
  /\ additional = [r \in Requests |-> Null]
  /\ option = [r \in Requests |-> Null]
  /\ content = [l \in Lists |-> <<>>]
  /\ used = 0
  /\ freed = {}
  /\ headers = [r \in Requests |-> <<>>]
  /\ shared = FALSE
  /\ read = {}
  /\ due = {}

Construct(r) ==
  /\ r \notin alive
  /\ alive' = alive \cup {r}
  /\ additional' = [additional EXCEPT ![r] = Null]
  /\ option' = [option EXCEPT ![r] = Null]
  /\ headers' = [headers EXCEPT ![r] = <<>>]
  /\ UNCHANGED <<content, used, freed, shared, read, due>>

(* The copy has no list of its own, but its easy handle points to the      *)
(* original's.                                                             *)
Copy(r, copy) ==
  /\ r \in alive
  /\ copy \notin alive
  /\ alive' = alive \cup {copy}
  /\ additional' = [additional EXCEPT ![copy] = Null]
  /\ option' = [option EXCEPT ![copy] = option[r]]
  /\ headers' = [headers EXCEPT ![copy] = headers[r]]
  /\ shared' = (shared \/ option[r] # Null)
  /\ UNCHANGED <<content, used, freed, read, due>>

(* curl_slist_append makes a list of the null pointer.                     *)
Appended(r) == IF additional[r] = Null THEN used + 1 ELSE additional[r]

AppendHeader(r, header) ==
  LET list == Appended(r) IN
  /\ r \in alive
  /\ list \in Lists
  /\ Len(headers[r]) < MaxHeaders
  /\ used' = IF additional[r] = Null THEN used + 1 ELSE used
  /\ content' = [content EXCEPT ![list] = Append(@, header)]
  /\ additional' = [additional EXCEPT ![r] = list]
  /\ option' = [option EXCEPT ![r] = list]
  /\ headers' = [headers EXCEPT ![r] = Append(@, header)]
  /\ UNCHANGED <<alive, freed, shared, read, due>>

(* curl_slist_free_all and the assignment after it.                        *)
Release(r) ==
  /\ freed' = freed \cup ({additional[r]} \ {Null})
  /\ additional' = [additional EXCEPT ![r] = Null]

FreeHeaders(r) ==
  /\ r \in alive
  /\ Release(r)
  /\ headers' = [headers EXCEPT ![r] = <<>>]
  /\ shared' = (shared \/ additional[r] # Null)
  /\ UNCHANGED <<alive, option, content, used, read, due>>

(* The destructor: the easy handle first, then its list.                   *)
Destroy(r) ==
  /\ r \in alive
  /\ alive' = alive \ {r}
  /\ Release(r)
  /\ UNCHANGED <<option, content, used, headers, shared, read, due>>

(* What there is where the option points to, if there is anything.         *)
Found(r) ==
  IF option[r] = Null THEN {<<>>}
  ELSE {content[l] : l \in {option[r]} \ freed}

(* cURL sends a request.                                                   *)
Send(r) ==
  /\ r \in alive
  /\ read' = Found(r)
  /\ due' = {headers[r]}
  /\ UNCHANGED <<alive, additional, option, content, used, freed, headers,
                 shared>>

Next ==
  \E r \in Requests :
    \/ Construct(r)
    \/ \E copy \in Requests : Copy(r, copy)
    \/ \E header \in Headers : AppendHeader(r, header)
    \/ FreeHeaders(r)
    \/ Destroy(r)
    \/ Send(r)

Spec == Init /\ [][Next]_vars

-----------------------------------------------------------------------------
(* Properties.                                                             *)

(* append_header "appends the given header value to cURL header list" and  *)
(* free_headers "frees all headers": whenever cURL sends a request, it     *)
(* finds the headers the request was given since, in their order.          *)
SendsItsHeaders == read = due

(* The same for a program that calls free_headers for no request with      *)
(* headers, and copies none.                                               *)
OwnHeadersAreSent == shared \/ SendsItsHeaders
=============================================================================
