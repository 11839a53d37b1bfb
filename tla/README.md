# cURLio in TLA+

cURLio wraps libcurl's multi interface in ASIO operations. This directory holds
TLA+ models of its classes, of one transfer composed of them, and of the two
loops that drive them; TLC runs that check small instances; and TLAPS proofs
that hold for every instance.

All paths below are relative to the root of the repository; `basic_session.inl`
and the like are in `src/cURLio/`.

## The system

| Component | State | Operations | Called by |
|---|---|---|---|
| `BasicSession`, life of a request | `_active_requests`, cURL's stack of easy handles, the OPENSOCKET/CLOSESOCKET options of each handle | `async_start`, `_perform`, `_clean_finished` | the program (any thread), the strand |
| `BasicSession`, event loop | `_sockets`, `SocketData::wait_flags`, waits under way, `_timer` | `_socket_callback`, `_monitor`, `_open_socket_callback`, `_close_socket_callback`, `_timer_callback` | cURL, from inside a strand task; ASIO |
| `BasicResponse`, body | `_input_buffer`, `_receive_handler`, `_finished` | `async_read_some`, `_write_callback`, `_stop` | the program; cURL; the session |
| `HeaderCollector`, headers of a response | `_fields`, `_last_clear`, `_headers_received`, `_ready_to_await`, `_finished`, `_headers_received_handler` | `async_wait`, `_header_callback`, `stop` | the response; cURL |
| text of a header | `_fields` as a `std::map` | `trim`, `CaseInsensitiveLess`, lookup by the program | the header collector |
| `BasicRequest`, upload | `_send_handler`, the easy handle | `async_write_some`, `async_abort`, `_read_callback`, `_mark_finished` | the program; cURL; the response |
| `BasicRequest`, header list | `_additional_headers`, CURLOPT_HTTPHEADER | `append_header`, `free_headers`, copy, destructor, `set_option` | the program; cURL |
| loops | where they are | `async_wait_last_headers`, `quick/*` | the program |
| helpers | none | `Function`, `FinalAction`, error codes | all |

How they interact:

* One strand per session. Every asynchronous operation dispatches its body to
  it, every timer and socket handler runs on it, and cURL's callbacks run inside
  a strand task. So steps do not overlap, but their order is open, and a strand
  task that calls into cURL may be interrupted by its callbacks.
* The program's threads act beside the strand: they start operations, emit
  cancellation signals, copy and drop the `shared_ptr` to a response
  (`use_count()` is read on the strand).
* A completion handler is posted, never called. An operation therefore has its
  result before the program learns of it.
* One easy handle carries both directions of a transfer: cURL sends headers
  before the body, and `curl_easy_pause(CURLPAUSE_CONT)` from a read resumes the
  upload too, and from a write the download.
* When a transfer has ended, or nobody but the session owns its response,
  `_clean_finished` takes the handle out of cURL and calls `_stop`, which ends
  the header collector, then the response, then the request.

What is hard here, and why tests hardly reach it: the order of calls, callbacks
and cancellations; handlers that are queued and cannot be taken back; numbers
of sockets and requests that are used again; raw pointers in cURL's options;
pausing and resuming two directions of one transfer with a single call; ends
that come early; coroutines that each wait for what another's next call sets
off. `PROJECT.json` lists each such place with its line under `hazards`, and the
properties that watch it.

### What makes each component correct

* Session: cURL's stack and `_active_requests` agree; a pointer in a cURL option
  leads to a live object; no transfer is forgotten; every start is answered; a
  request that is done can be started again.
* Event loop: what cURL wants to hear of a socket that it opened through the
  callback it will hear of, and nothing else; the map knows exactly these
  sockets, whatever others cURL opens.
* Response: the reads are a byte stream; who waits is answered; the buffer is
  bounded; a cancellation hits its own call, unless it comes when that call has
  its result.
* Header collector: a successful wait gets one complete section, each section
  once, in order; every wait is answered. Its text: a lookup in any case finds
  the first value of the name; only the empty line ends a section.
* Request: no waiting call is overwritten, forgotten or carried over to the next
  transfer; counts agree; an abort ends the transfer it was meant for; cURL
  sends the headers the request was given.
* A transfer as a whole: its end answers everything that waits, whatever waits;
  as long as the program reads and writes on, nothing stands still; the headers
  `async_wait_last_headers` stops at are a whole section, and not one whose
  `Location` cURL followed. (They need not be the last: an interim section
  without a `Location`, a `100 Continue` or the answer of a proxy, ends the loop
  at `basic_response.inl:193` too.)

## Modules

| Module | Models | Proofs | Instance |
|---|---|---|---|
| `Lifecycle` | abstract: what `async_start` promises | | |
| `Session` | `basic_session.inl` 38-95, 131-185, `BasicResponse::_stop` as the session sees it; implements `Lifecycle` | `SessionProofs` | `MCSession` |
| `EventLoop` | `basic_session.inl` 109-129, 187-299, `detail/socket_data.hpp` | `EventLoopProofs` | `MCEventLoop` |
| `ByteStream` | abstract: what `async_read_some` promises | | |
| `Response` | `basic_response.inl` 27-79, 128-184; implements `ByteStream` | `ResponseProofs` | `MCResponse` |
| `HeaderFeed` | abstract: what `async_wait_headers` promises | | |
| `HeaderCollector` | `detail/header_collector.hpp` 45-164, fields as keys; implements `HeaderFeed` | `HeaderProofs` | `MCHeaderCollector` |
| `HeaderText` | the text of `detail/header_collector.hpp` and `detail/case_insensitive_less.hpp`; implements `HeaderCollector` | `HeaderTextProofs` | `MCHeaderText` |
| `Upload` | abstract: what `async_write_some` and `async_abort` promise | | |
| `Request` | `basic_request.inl` 57-135, 155-184; implements `Upload` | `RequestProofs` | `MCRequest` |
| `HeaderList` | the header list in `basic_request.inl` | `HeaderListProofs` | `MCHeaderList` |
| `Transfer` | `Response`, `HeaderCollector` and `Request` composed; `_stop`; `async_wait_last_headers` | `TransferProofs` | `MCTransfer` |

Operators named `X_Something` that stand before an operator `X` and are marked
*Mutant* are defects the code could plausibly have. No model uses them;
`PROJECT.json` pairs each property with one that breaks it.

### Lifecycle and Session

`Lifecycle` knows neither cURL nor the map nor the strand: a request runs for one
response at a time, which ends once and for all, at the latest when the session
finds that nobody holds it any more; a start is refused exactly if it finds a
response of its request running. `Session` implements it (`Contract`): `queued`
and `adding` are `waiting`, `finished` is `ended`, and every `Perform`, whoever
makes it, is an `End` of some running responses and of all that are not held.
The tables, options, sockets and kicks are hidden.

`AsyncStart` is the program's call; `BeginStart` is the first statement of the
lambda on the strand (`_perform`), and `RefuseStart` or `Launch` is the rest of
it. The split keeps apart what other threads may do in the middle: drop a
response. `Perform(done, opened)` is `curl_multi_socket_action` followed by
`_clean_finished`: cURL chooses which registered transfers end and which open a
socket, and the code unregisters those that ended and those whose response is
stale. Its parts (`RemoveHandles`, `Unhook`, `StopResponses`, `Erase`) are the
four groups of calls of `unregister`. `Kick` is the posted `_perform`, `Poll`
any other one.

| Variable | Code |
|---|---|
| `status`, `request` | how far each `async_start` is, and its argument |
| `registered` | cURL's easy handles |
| `active` | `_active_requests` |
| `hooks` | handles with OPENSOCKET/CLOSESOCKET options |
| `sink` | where WRITEDATA and HEADERDATA point |
| `kicks` | posted `_perform` of `async_start` |
| `finished` | `BasicResponse::_finished` |
| `held` | responses with `use_count() > 1` |
| `wired`, `sockets` | transfers that have a socket; those whose socket the session knows |
| `misused` | history: has the program started a request that is not done (`Idle`)? |

The code does not forbid to start a request that runs, so the model allows it.
What only a well-behaved program can expect (`CanBeUsedAgain`, `SocketsAreKnown`)
is stated of the behaviours without such a start, and only of them.

### EventLoop

`task` is what runs on the strand; cURL's calls (`Open`, `Watch`, `Remove`,
`Close`, `SetTimer`, `ClearTimer`) are possible only inside a task. `Fire` and
`Expire` are the kernel and the clock: a wait under way (`pending`) becomes a
handler on the strand (`queued`), where `cancel()` and `close()` do not reach it
any more. `HandleSocket`/`IgnoreSocket` is the test at the head of the handler,
`EndSocket` the `_monitor` at its end; between them is the `_perform`, with all
the callbacks it may make. Waits are counted, since interest that changes IN,
INOUT leaves two waits for one direction.

Not every socket is opened through `_open_socket_callback`: cURL opens those of
its resolver itself, and, after the refused start of a running request has reset
the option (see `double_start`), those of connections. `OpenItself` opens one of
these `strangers`; `WatchUnknown`, `RemoveUnknown` and `CloseUnknown` are the
branches of the callbacks that do not find it in `_sockets`. Nothing waits for
it: what cURL wishes is recorded (`wanted`), no wait begins, and only the timer
makes cURL look at it. `NoLostInterest` is therefore said of the other sockets,
and `MapIsOpen` says that a stranger is never found under somebody's number.

### ByteStream and Response

`ByteStream` knows no buffer, no pausing and no cURL: a body is handed out in
order to one reader at a time until it has ended. `Response` is the code, branch
by branch. `paused`, `connected`, `accepted` and `redirects` are cURL's side. A
resume that makes cURL call the write callback before it returns is the case
that `Receive` follows at once. The refinement maps `ended` to
`finished /\ input = <<>>`.

A call that waits leaves a lambda in its cancellation slot (`armed`), which
outlives the call's result: an awaitable clears its slot when the posted handler
runs, a slot the program has bound stays until the program clears it
(`SlotCleared`, which may happen or not). `Cancel` is open to any such call at
any time. `signalled` and `late` are history: which calls were cancelled, and
which of them when they had their result.

### HeaderFeed, HeaderCollector and HeaderText

`HeaderFeed` hands out the peer's sections, each as a whole to one caller at
most, only the newest, and only until the next one begins; a call that fails
gets fields of one section at most. It has the defects the code has (see
Findings): a cancelled call takes fields of the section under way with it
(`spoiled`), and the end of the transfer withdraws a section that was `offered`.
`HeaderCollector` implements it (`Contract`): a map is its set of fields, and a
section is offered while `_ready_to_await` is set and the transfer has not
ended. `_fields` itself and `_last_clear`, which decide when the map is cleared,
are hidden.

In `HeaderCollector` a field is its key and the number of the section it came
in, so that a field of the wrong section shows. `Line({})` is a line without a
field (a status line), `Line({k})` a field, `EndUnawaited` and `EndAwaited` the
empty line. `lines`, `of` and `torn` are history: what the peer sent, which
section answered which call, which sections a cancelled call took fields from.

`HeaderText` does the same with text, character by character: `Callback` looks
for the separator, trims the value, inserts into a map that is ordered by
`Less`, and counts a section when the line has two bytes. `sent` keeps the
fields as the peer meant them. The map is a set of entries, and a lookup
(`Found`) takes what is neither less nor greater, as `std::map` does, so that an
order that is not one would show. `Collects` says that this is what
`HeaderCollector` makes of keys and sections; calls of `async_wait` change
nothing about text and are left to that module. The peer is well-formed: a name
has no blank and no colon, and what is no field (a status line, a folded line)
has a blank before its first colon, as `HTTP/1.1 404 Not: Found` has.

### Upload, Request and HeaderList

`Upload` is a sink: while a transfer runs it takes from one writer at a time, at
most what the writer holds, and counts what it took; an abort takes the place of
who waits and ends the transfer; the end of a transfer answers who waits, and
the next one begins empty. `Request` implements it (`Contract`) and hides
connections, redirects, pausing and which transfers were killed.

`Request` is one request over several transfers. `send` is the call
`_send_handler` belongs to. `ReadTakes`, `ReadAborts` and `ReadPauses` are the
three ways of `_read_callback`. `Redirect` is the time between two connections,
when `curl_easy_pause` fails again. An abort is `killed` by cURL and, since
`_clean_finished` runs in the same strand task, out of the session in the same
step.

`HeaderList` is about pointers: `additional` is `_additional_headers`, `option`
the pointer cURL keeps in each easy handle, `freed` the lists that are gone.
`read` is what cURL found when it last sent a request, `due` what the program
had given that request by then.

### Transfer

`Transfer` instantiates `Response`, `HeaderCollector` and `Request` on one easy
handle. Variables with one meaning are one: `finished` of the response and of
its collector, `connected` of the response and of the request. The actions say
which steps of the parts are one step: `Connect` and `Redirect` touch all;
`Done`, `Fail` and `Abort` are `_stop`, in the order of the code
(`StopHeaders`, the response's own end, `_mark_finished`); a call that resumes
(`Read` when it waits, `Send`) takes the step of the other direction with it
(`WakeSending`, `WakeReceiving`). And they say what cURL orders: a section
before the body, a redirect only after a section with a `Location`, trailers
after the body, nothing at all while the download is paused. `last` and
`lastWait` are `async_wait_last_headers`, which calls `async_wait_headers` each
time its handler runs and has found a location.

The program has one coroutine of each kind and cancels nothing: refused and
cancelled calls are the business of the parts' own modules.

## Runs

| Run | Bounds | States | Checks |
|---|---|---|---|
| `session` | 2 requests, 3 starts | 24 336 | six invariants, of which two about programs that misuse nothing; refinement of `Lifecycle`, liveness |
| `double_start` | 2 requests, 2 starts | violated | see Findings |
| `response` | body of 4 bytes, chunks to 3, buffers of 0, 1, 3, 4 reads, 1 redirect | 271 654 | invariants, refinement of `ByteStream`, liveness |
| `late_cancel` | chunks to 2, 3 reads | violated | see Findings |
| `headers` | 2 keys, 3 sections, 3 waits | 348 092 | invariants, refinement of `HeaderFeed`, liveness |
| `headers_torn` | 2 keys, 2 sections, 3 waits | violated | see Findings |
| `headers_lost` | 2 keys, 2 sections, 3 waits | violated | see Findings |
| `header_text` | 3 names, 2 values, 3 other lines, 2 sections of 2 fields | 22 533 | an invariant, refinement of `HeaderCollector` |
| `request` | 4 calls, 2 transfers, buffers of 0, 1, 3, cURL's buffer of 2 | 238 343 | invariants, refinement of `Upload`, liveness |
| `header_list` | 2 requests, 2 headers, 2 lists | violated | see Findings |
| `transfer` | body of 2 bytes, 3 reads, 2 sections, 3 waits, 1 upload call, 1 redirect | 180 145 | invariants, fairness of the parts, liveness of the loop |
| `event_loop` | 2 numbers, 2 sockets, 2 changes of interest, 2 timeouts | 79 903 | invariants, an action property, liveness |

Why these bounds are enough to be interesting: three starts of two requests give
a request that is started, let go, started again while another one runs. Four
bytes in chunks of up to three read through buffers of 0, 1 and 3 give chunks
that are smaller than, as large as, and larger than a buffer, and remainders
that span several reads; the bytes are all different, so that a lost or
misplaced one shows. Three sections have a middle one. Two transfers show what
is carried over. The names are `a`, `A` and `ab`, which are equal up to case,
and different in length; the values are empty and `b :A`, with a blank and a
colon inside; the other lines are one without a colon, one with a colon after a
blank, and a folded line that would be a field without its first blank. In
`transfer` two sections are what a redirect leaves and what it leads to, and
three reads are two for the bytes and one for the end. Two sockets with two
numbers are open at once, or one after the other under one number, with handlers
of the first still queued, and each is known to the session or a stranger; two
changes of interest (IN, then INOUT or OUT) besides any REMOVE leave two waits for
one direction, or one for a direction that is wanted no more. Symmetry is not used, since
most runs check liveness.

Deadlock is checked where the system never stops by itself (`Session`,
`EventLoop`, `HeaderText`). The other models stop when the transfer is over and
the bound on calls is reached, and their configurations say so.

The bounds are `MaxStarts`, `MaxSockets`, `MaxChanges`, `MaxTimers`, `MaxReads`,
`MaxSections`, `MaxFields`, `MaxWaits`, `MaxPlain`, `MaxCalls`, `MaxTransfers`,
`MaxLists` and `MaxHeaders`; the code has none of them.

The type invariants are not among the runs' properties: each is a theorem
(`TypeCorrect`), and an invariant of the runs that goes wrong goes wrong in an
expression TLC could not evaluate otherwise.

### Fairness

* `Session`: weak fairness of the tasks that are posted or dispatched to the
  strand. The executor runs what it is given.
* `EventLoop`: strong fairness of queued handlers, since the strand is a FIFO
  queue and other tasks cannot overtake a handler for ever; weak fairness of the
  end of a task and of the clock. None of the kernel: a socket may never get
  ready.
* `Response`: weak fairness of the connection, of arriving bytes while the
  transfer is not paused, and of the end of a transfer that has delivered all.
  Bytes are *not* assumed to arrive at a paused transfer: it is the code that
  has to resume it.
* `HeaderCollector`, `Request`: the transfer ends at last (cURL's own timeouts
  or the peer). No fairness of headers or of the read callback: every waiting
  call is answered without them.
* `Transfer`: weak fairness of what cURL does by itself (connect, headers,
  arriving bytes, reading the upload, the end of a complete transfer) and of the
  posted handler of the loop. That the transfer ends is *not* assumed here; it
  depends on the program. `PartsAreDriven` states the premises, each one a
  property of the program: it starts the request (`Starts`), it waits to read
  again and again once the body has begun (`ReadsOn`), and to write as long as
  the upload is not over (`WritesOn`). Then the fairness that `Response`,
  `HeaderCollector` and `Request` assume is there, and with it their liveness:
  what those modules assume of their surroundings, the others provide. With a
  program that stops reading, or writing, it is not: the transfer stays paused.
  `LastHeadersIsAnswered` needs no reader, but that the loop came first
  (`AsksFirst`) and cURL follows every location it is given (`Follows`): the loop
  waits for a section that a location not followed would never bring, until the
  end of the transfer.

## Findings

Five statements of the repository that the code does not keep; each is a run
that TLC refutes.

* `double_start` (`AllOpenedSockets`): a second start of a running request is
  refused by cURL, but the scope guard at `basic_session.inl:56` has then reset
  the socket options of the running transfer. The comment at
  `basic_session.hpp:50` calls `_sockets` "All opened sockets by cURL". What
  becomes of such a socket is in `EventLoop`: nothing waits for it, and only
  the timer drives it.
* `late_cancel` (`CancelsItself`): `CHANGELOG.md:6`, "Per-operation cancellation
  support". The lambda in a call's slot completes whichever call waits when the
  signal comes (`basic_response.inl:53-56`).
* `headers_torn` (`SuccessIsComplete`) and `headers_lost` (`EofMeansNoneLeft`):
  `basic_response.hpp:30`, "Waits until a complete header section is received".
  A cancelled wait takes part of a section away (`header_collector.hpp:107`);
  a section that is ready when the transfer ends is handed out as an error
  (`header_collector.hpp:78`).
* `header_list` (`SendsItsHeaders`): `basic_request.hpp:29` says `free_headers`
  "Frees all headers". It leaves CURLOPT_HTTPHEADER pointing to the freed list
  (`basic_request.inl:53`), and cURL follows it at the next start. A copy of the
  request has the same pointer, so destroying the original does the same to the
  copy.

## Proofs

`tlapm` checks the proof modules without unproved leaves. They assume the named
assumptions of the modules only: bounds are naturals, the body is a sequence of
bytes, `None` is not an identifier, the peer's text is well-formed.

`SessionProofs` holds for every set of requests and number of starts. What the
invariants of the run say of cURL's stack and of `_active_requests` is not
inductive: a start may only enter a response that was never there, and a
cleaning may only end one that was. `ActiveIsRunning` (a response in the map is
that of a start of this request, answered with success and not stopped),
`RunningIsActive` (the converse) and `FinishedIsStarted` tie the tables to the
starts, and that is enough. `NeverRefused` and `EverySocketIsKnown` are about
behaviours in which no request was misused; they need a second invariant
(`Polite`, with `misused` as its way out), that such a program has one start of
a request under way (`OneAtATime`), that all its other responses are over or let
go (`OthersOver`), and that the `_perform` in the first half of a start has
cleaned up what these left (`Cleaned`). `ImplementsLifecycle` is the refinement:
the first invariant says that the responses `Lifecycle` calls running are those
in `_active_requests` (`RunningIsInTheMap`) and their requests those in cURL
(`InUseIsRegistered`), so that cURL's refusal is the contract's.

`ResponseProofs` holds for every body, chunk size, set of buffer sizes and
number of reads. `NothingLostOrReordered` is not inductive: a chunk that arrives
when `_input_buffer` is not empty would be appended behind the rest, but part of
it given to the waiting call ahead of the rest. It needs `NoLostWakeup`, a
statement about waiting (a call waits only while nothing is buffered), and that
the waiting call is the one `_receive_handler` belongs to (`WaitingIsPending`).
The lemmas on sequences say how a sequence splits and what a prefix of a
concatenation is. From the same invariant follows `ImplementsStream`, the
refinement of `ByteStream` without its fairness: each step of the response is
mapped to one of the stream or to none.

What a cancellation does is a second invariant (`Signals`), and nothing is
assumed of the program: it may cancel any call whose slot holds the lambda. The
lambda hits another call than its own only if its own has its result
(`OnlyLateHitsOthers`), and an empty Function only then (`OnlyLateFindsNone`).
The first needs that the call that is hit is a later one: calls are made in
order (`InOrder`), a lambda is in a slot only once its call has begun to wait
(`ArmedHasBegun`), and since one call waits at a time, every other call that
still has its lambda came before it (`ArmedIsEarlier`).

`HeaderProofs` holds for every set of keys and number of sections and waits.
That a successful call gets one whole section needs to know what is in `_fields`
at any time: the section that arrives (`Collecting`), or the one that is ready
(`ReadySection`), unless a cancelled call took part of it. Which of the two it is
follows from `_last_clear`, which lags at most one section behind, and only
while no line of the next one has come (`OneBehind`, `InsideIsBegun`). The order
of deliveries needs that calls are answered in the order they are made
(`IdleAreLast`, `NotOvertaken`) and that a section in `_fields` is newer than
all that were handed out (`ReadyIsNew`, `AnsweredIsOver`). `ImplementsFeed`, the
refinement of `HeaderFeed`, needs one more fact, that a field in the map is a
field the peer has sent (`FieldsWereSent`); from it and `IInv` follows what a
call is given: all of a section (`WholeSection`) or a part of one
(`PartOfSome`). `NotMixed` says the latter of every answer that was given.

`HeaderTextProofs` holds for any characters, names, values and lines that are
well-formed. It begins with text: where the first separator is, that `trim`
gives back a value from its white space, that `CaseInsensitiveLess` is a strict
order in which only texts that are equal up to case are equivalent. The
inductive invariant is `LookupFindsFirst` with the shape of `_fields` and
`NothingAhead`: no field is recorded for a section that has not begun.
`TextIsCollected` proves the whole refinement, `Collects`.

`RequestProofs` holds for every set of calls, buffers and transfers. That an
abort hits the transfer it was called for rests on facts that are not about
aborts: what waits belongs to the transfer that runs (`NoCarryOver`), only a
transfer that runs has a connection, and one that was killed never runs again.
`BytesAgree` is about a sum: what cURL took in a transfer is the sum of what the
writes of that transfer reported. The sum of the community modules folds a
function over a set in an order nobody knows; that it exists (`SumsExist`), does
not depend on what lies outside the set (`SumsAgree`) and grows by as much as
one summand does (`TotalChanged`) are inductions on the size of the set, each
made by looking at the least size for which it would fail. The step itself needs
that only successful writes have a count (`MovedIsReported`) and that no call
belongs to a transfer yet to come (`DuringIsPast`), so that a new transfer begins
with an empty sum. `ImplementsUpload` is the refinement of `Upload`, in one
lemma for the calls (`CallRefines`) and one for all steps (`StepRefines`).

`HeaderListProofs` shows where the header list is right: as long as no request
with headers is copied or has its headers freed (`OwnHeadersAreSent`). The
invariant says who owns what: a list has one owner (`OwnedOnce`), whose option
points to it, it is not freed, and it holds what its owner was given (`Owned`).

`TransferProofs` does not repeat the proofs of the parts, it instantiates them.
Every step of the composition is a step of each part or leaves it alone
(`ResponseSteps` and its two companions), so the invariants of `ResponseProofs`,
`HeaderProofs` and `RequestProofs` hold of it (`PartsKeepTheirPromises`). What no
part knows is how they hang together: the response and the request end in the
same step (`OneEnd`), a section that cURL left is over and had a location
(`LeftIsOver`), the loop's call is one that was made (`LoopIsCalled`), and the
answer it stopped at stays what it was (`StoppedAtLast`). From both follow
`EndAnswersAll`, `AbortEndsResponse` and `LastIsFinal`. And since its steps are
steps of the parts, the composition keeps their contracts: what a program sees
of a transfer is `ByteStream`, `HeaderFeed` and `Upload` side by side
(`ReaderSeesStream`, `WaiterSeesFeed`, `WriterSeesUpload`), although one
connection, one pause and one end serve all three.

`EventLoopProofs` holds for every set of socket numbers and number of sockets,
changes of interest and timeouts. `NoLostInterest` and `NoLostTimeout` speak of
the time between tasks only; while a handler runs it stands for the wait it
will renew (`InterestKept`), and the handler finds the flags right since the
flags of a socket in the map are always what cURL wants (`FlagsAreWanted`). With
`MapIsOpen` and `ClosedIsSilent` that gives `TellsTheTruth` for handlers that
run arbitrarily late. That waits do not multiply (the bound in `TypeOK`) needs
the running handler in the count (`Counted`). The sockets cURL opens itself have a lemma
of their own (`StrangerIInv`): `MapIsOpen` says that no entry of the map has their
number, so that whatever cURL wishes of them changes no flag and no wait.

Only model-checked: all liveness (`StartIsAnswered`, `EveryReadIsAnswered`,
`EveryWaitIsAnswered`, `EveryCallIsAnswered`, `ReadyIsReported`,
`PartsAreDriven`, `LastHeadersIsAnswered`, and the fairness in the `Contract` of
`Response`), which is out of the prover's reach. Every invariant and every
action property of a passing run is a theorem.

## Not modelled

* The destructor of the session, which leaves active handles in place (a TODO in
  the source): what it should do to them is not decided there, and when a
  program destroys a session relative to its executor is up to the program.
* Threads inside a cancellation. The lambda of a cancellation slot runs where the
  program emits the signal and is not dispatched to the strand; the models take
  it as a step of the strand, which is right for a program that emits its signals
  there. Emitted elsewhere it races with the callbacks on `_receive_handler`,
  `_send_handler` and `_fields`, which the models do not show.
* In `HeaderCollector` and `Request`: the late signal of a call that has its
  result and finds no call waiting, which invokes an empty Function. (`Response`
  has it. If such a signal does find a call waiting it does what that call's own
  signal does, and so is the same step.)
* Header lines of two bytes other than CRLF, each of which ends a section at
  `header_collector.hpp:153`: the peer is taken to be well-formed.
* Objects that are destroyed with calls in flight. The lambdas capture a raw
  `this`; who keeps the object alive is up to the program.
* Calls of cURL that fail for lack of memory or for a wrong option, and a
  `curl_easy_pause` that both delivers and fails.
* `async_get_info`, which reads a value of cURL on the strand; `set_option` for
  options other than the header list, which passes a value to cURL; the type
  table `detail/option_type.hpp`, which exists at compile time only.
* The `quick` loops. `reader.hpp` and `json.hpp` use functions the classes do not
  have any more; `ignore_all.hpp` adds up what `async_read_some` returns until
  the eof that `ByteStream` promises.
* The error codes (`error.hpp`, `debug.hpp`): a pure table, without state. The
  models name the codes by strings.
* A program that appends headers in one thread while cURL sends them in another.
* The contents of bodies, beyond the identity of their bytes. Build and examples.

## What could come next

An abstract specification of what the event loop promises cURL, in the way of
`Lifecycle` and `Upload`; the session composed with `Transfer` for several
requests at once, once the destructor has a defined behaviour; `Function` with
its small-object ownership; `quick/ignore_all.hpp` over `ByteStream`; the mapping
of codes to conditions as a table checked against libcurl's headers.
