# A specification of cachearoo-cpp

cachearoo-cpp is a C++ client of the Cachearoo server: one WebSocket, a handful
of threads around it, a table of pending requests, and two messaging patterns
built on top. This directory holds TLA+ models of it, the TLC runs that check
them and the TLAPS proofs about them. Line numbers refer to
`src/src/cachearoo_connection.cc` unless another file is named.

## The system

| part | state | operations | talks to |
| --- | --- | --- | --- |
| connection life cycle | `connected_`, `skip_reconnect_`, `connection_hdl_`, three threads | constructor, `StartConnection`, `OnOpen`, `OnClose`, `OnFail`, ping thread, `close()` | websocketpp, every part below |
| requests | `pending_requests_` (`requests_mutex_`), `request_id_counter_` | `read`, `list`, `write`, `patch`, `delete_key`, all through `AddRequest`; `HandleResponse`; `CheckRequestTimeouts` | the link, the queue, the timeout thread |
| pending-message queue | `pending_message_queue_` (`pending_message_mutex_`) | push in `AddRequest`, flush in `OnOpen` | the link |
| event listeners | `event_registrations_`, `binary_event_registrations_` (`events_mutex_`), `send_values_` | add, remove, `RegisterEvents`, dispatch in `ProcessStringMessage` and `ProcessBinaryMessage` | application callbacks, on the I/O thread |
| signals and binary header | none | `signal_event`, `signal_binary_event`, `HeaderToBuffer`, `BufferToHeader` | the link |
| Requestor, Replier | pending requests, two timeouts, a thread | `request_async`, `OnReply`, `OnProgress`, `CheckTimeouts`, `destroy` | listeners, signals |
| Producer, CompetingConsumer, Worker | pending jobs, worker slots, `job_count_`, detached threads | `add_job_async`, `OnJobStatus`, `JobHandler`, `WaitForWorker` | requests, listeners |
| client facade | settings | forwarding with defaulted options | connection |

What is hard in it. Five kinds of threads meet in one connection: the asio I/O
thread, which runs every handler and every application callback; the timeout
thread; the ping thread; the application's threads inside requests; and the one
inside `close()`. They share two atomics, three mutexes and several members with
no protection. A throw that leaves a thread function ends the process, and
websocketpp's `send` throws on a link that has just been lost. Sends race with
the loss of the link, the flush of the queue and `close()`; promises are decided
by four different steps; and the thread that must receive an answer can be the
one that waits for it. PROJECT.json lists each such hazard at its line, with the
properties that watch it.

What makes each part correct:

- life cycle: the flags tell the truth about the link; a reconnect replaces
  nothing that lives; a lost link comes back; `close()` returns and leaves no
  thread; nothing kills the process;
- requests: a call is told exactly one thing, its own answer or an error, and is
  told it in bounded time;
- queue: a message is transmitted at most once and is not stranded;
- listeners: the server's subscription matches the registrations; a removed
  callback runs once more at most;
- signals: what a peer hears is what was signalled, as far as the header holds it;
- request/reply and jobs: a reply or a result comes from the one it should come
  from, a job is run by one consumer, and every future is decided once.

## The modules

| module | what it is |
| --- | --- |
| `Connection` | the threads, the two flags, the link, `close()` and the destructor |
| `Requests` | EXTENDS `Connection`: the calls, the table, the queue, the wire |
| `Listeners` | EXTENDS `Connection`: the registrations, the server's subscription, the dispatch |
| `Signals` | EXTENDS `Connection`: both signal calls, the binary header, the peer that decodes it |
| `RequestReply` | a Requestor and the Repliers of its channel, over the server's broadcast |
| `CompetingConsumers` | a Producer, the server's status entries, and consumers that compete for its jobs |
| `Promises` | the abstract specification that `Requests`, `RequestReply` and `CompetingConsumers` implement |
| `MCListeners`, `MCSignals` | the patterns, events and signals of the instances TLC checks |
| `ConnectionProofs` | theorems of `Connection`, its liveness properties among them |
| `RequestsProofs` | theorems of `Requests`, including that it implements `Connection` and `Promises` |
| `ListenersProofs` | theorems of `Listeners`, including that it implements `Connection` |
| `SignalsProofs` | theorems of `Signals`: the header's round trip and what peers hear |
| `RequestReplyProofs`, `CompetingConsumersProofs` | theorems of the two messaging patterns, including that they implement `Promises` |

A type invariant of the module is checked with each component that has a run of
its own; that of `Requests` and of `Listeners` contains the life cycle's. What is
told once is not told again (`OutcomeIsFinal`, `ToldOnce`) follows from `Promises`,
which the runs check; the proofs state it on its own too.

### Connection

`ws` is the state of the WebSocket that `connection_hdl_` names: `connecting`,
`open`, `closing` (lost or closed, sends fail, `OnClose` still to come) or
`gone`; `absent` when `get_connection` rejected the URL, which it then does on
every attempt. `io`, `tmo` and `ping` are program points of the three threads,
`close` names the last step of `close()` that was completed, `stopped` is the
stopped asio loop, and `crash` the thread whose exception ended the process.

Between two steps of one thread every other thread may move, so each atomic load
and store, each join and each send is an action. The 50 ms and 3 s sleeps are
the states `opening` and `retry`. `OnClose` and `OnFail` share their tail
(`DownTest`, `RetryTest`). The transport acts only between handlers, because
one thread runs the asio loop: in particular a drop is not noticed while a
handler or callback runs. The first step of `OnClose` joins the test and the
store of `connected_`; no other thread sets that flag, so nothing is hidden.

`Destruct` is the destructor after a `close()` that returned or threw: its own
`close()` finds no thread to join and repeats the last step.

The request table shows here only as the Boolean arguments of `TimeoutScan`,
`CloseClear` and `Destruct`: whether this pass meets a promise that is already
satisfied.

### Requests

Each element of `Calls` is one use of `read`, `list`, `write`, `patch` or
`delete_key`, made once, at any moment, also during and after `close()`. Its
program counter goes through the load and the store of `++request_id_counter_`
(two steps, as the `int` is not synchronised: the outcome of the race is any
interleaving of the two), the registration, the test of `connected_` under
`pending_message_mutex_`, the send, and `future.get()`. `CallbackCalls` are made
inside an event callback: they start when the I/O thread dispatches an event and
hold that thread until they return.

`entry[k]` is the table's entry of call `k`; two calls that took the same number
share a key, so registering one destroys the other's entry. `satisfied` is an
entry whose promise was already decided, which a failed send leaves behind.
`outcome[k]` is what the promise was given. `uplink` and `downlink` are the
messages under way; the server answers each at most once, in any order, or
never; both are lost with the link. `age` counts ticks, saturating one past
`RequestTimeout`. Payloads, JSON and the parsing of results are left out. A
failed send that finds its promise satisfied throws to the caller; that caller
has an exception as its outcome already, so the model records no second one.

A call made during or after `close()` is registered in a table that nobody scans
any more. The destructor runs when no call is under way and fails those that
wait.

The mutex `requests_mutex_` protects single steps. `pending_message_mutex_` is
held across a send and across the flush, and is modelled as `MessageMutexFree`.
Reading `connected_` and pushing to the queue is one step: the flush, the only
reader of the queue, waits for the same mutex.

### Listeners

Each element of `Listeners` is added once and may be removed, on a thread of its
own; `remove_all_listeners` is called once at most. `lpc` is where a listener's
calls are; `regs` with `id` stands for the two vectors, in the order of their
ids. `events_mutex_` is held across the send of `RegisterEvents`
(`EventsMutexFree`), so a call is two steps when connected: the change of the
vectors, and the send, which throws on a link that has just been lost. Before
them `add_listener` sets `send_values_` without the mutex (line 414).

`RegisterMessage` is what `RegisterEvents` sends: of the registrations whose
bucket and key join to one string it lists the first. A name is a sequence of
tokens, so that two pairs can join to the same string (`EventKey`) and a wildcard
is a name of its own. The server's `subscription` is the last message it read and is
lost with the link. `Collect` copies the matching callbacks under the mutex,
`RunCallback` runs them one by one without it; a text callback may throw, which
skips the others, and a binary one too, which ends the process. `late` counts
the starts of a callback after its removal returned.

### Signals

A call tests `connected_` (`TestConnected`) and sends later (`SendSignal`); the
server passes the frame to a peer on another link, which can be lost too. The peer
decodes binary frames and runs the listeners that match, as in `Listeners`. Names,
contents and frames are sequences of numbers below `ByteRange`, so that the codec
is that of the code: `HeaderToBuffer` cuts each name to `NameLimit` bytes, puts
the sizes before the names and pads to `HeaderSize`; `BufferToHeader` reads back by
offsets. A `raw` message is binary data of another client that is shorter than the
header, which `ProcessBinaryMessage` ignores (line 286). Longer data whose sizes
point past its end is not made by `HeaderToBuffer` and is left out.

### Promises

What a caller sees of the three tables of pending promises: calls that were
`made`, how often each message was `sent`, what each future was `told`, and
whether the owner is shutting down or dead (`over`). A message is transmitted once
at most, a promise decided once and by an answer only after a transmission, and
every promise is decided unless `over`. The mapping takes `made` from the calls'
program counters and `told` from the outcomes; `over` is the begin of `close()` or
of `destroy()`, or the end of the process.

### RequestReply

The messaging patterns are specified beside the connection, not on top of it:
what they need of it is that a signal is broadcast to the other clients, can be
lost, and is dispatched one at a time on the receiver's I/O thread.

Line numbers in this and the next section are those of
`src/src/cachearoo_messaging.cc`. `call` follows `request_async`: the signal goes
out first (line 66) and the entry is made later (78), so a reply
can come between. `toRequestor` and `toReplier[p]` are signals under way, in
order, `asked[p]` the response callbacks the message handler of replier `p`
holds. Requests and replies use one channel, so a replier takes another
replier's reply for a request; the depth of a message says how many replies it
is away from the request, and the bound `MaxDepth` cuts that ping-pong. `io` and
`msg` show the step between collecting a callback and running it, which is where
`destroy()` can come in, and the progress callback, which runs with
`requests_mutex_` held. Another client may delete the key of a request: the event
has no value, and `OnReply` erases the entry all the same, which destroys the
promise undecided (`broken`, lines 93 and 103). `overlooked` is a history
variable: the requests with a direct reply, one of depth 1, that told nobody. The per-call
timeouts of `request_async` are parameters the code never uses after line 61;
only the two of the constructor are modelled.

### CompetingConsumers

One producer; each element of `Consumers` is a client process. `entry` and `told`
are the producer's table and promises, `deleting` the `delete_key` inside
`OnJobStatus` (line 273), which holds `jobs_mutex_` and the I/O thread. Such a
call is never answered: the thread that would read the answer waits for it.
`CallbackCallsUnanswered` of the `callbacks` run establishes that for the
connection, and so `DeleteStatusThrows` is the only way out; its message still
reaches the server. `status` are the status entries there; `events` what the
producer will see of them, `claims` the claims under way.

`step[<<c, j>>]` is where the detached `JobHandler` thread of consumer `c` for job `j`
is. The application's query handler is the one of
`src/examples/competing_consumers_example.cc:88-95`, which tests `is_available()`
and calls `set_available(false)` in two steps, so two threads can take one
worker. The content of the job queue is not kept: after the first event nothing
in the code reads it. When the work handler returns the thread ends (`returned`,
lines 432-442): the worker stays unavailable, as `worker->release()` is reached
only by exceptions (437, 439), and the two callbacks may still be called by whoever
kept a copy. A write of a work handler that fails was applied at once or
never; a claim may be applied after its caller gave up.

## The runs

| run | what it checks |
| --- | --- |
| `connection` | the life cycle with pings, composed with one binary listener: the safety properties of `Connection`, `Reconnects`, `CloseReturnsIfFlagKept`, `ListenersGetSubscribed`, and that the fairness assumed gives `ListenersGoOn` |
| `requests` | two application threads; the safety properties of the request path, and that it implements `Connection` and the safety of `Promises` |
| `callbacks` | one application thread and one callback; `CallsReturn` and all of `Promises` under fairness, that the fairness assumed gives `TimeoutsGoOn`, the cause of a timeout-thread crash, and that a callback's call never gets its answer |
| `listeners` | two text listeners, one with values, whose pairs join to one event key: `SubscriptionAgrees`, `LateAtMostOnce` |
| `signals` | a text signal, two binary ones and a stray message, four listeners: `HeardAsSignalled`, `ListenersHear` |
| `request_reply` | one request, two repliers: `EchoOnlyIfOverlooked`, a quiet `destroy()`, `Promises` under fairness, and that nothing stops the timeout thread (`TimeoutsGoOn`) |
| `jobs` | one job, two consumers: exclusive claims, results only from a consumer that won one, what ends the producer's process, `Promises` under fairness, and that nothing but that end stops the timeout thread (`TimeoutsGoOn`) |
| `close_hang` | finds `CloseReturns` violated |
| `number_race` | finds `NoCrossedAnswers` violated |
| `callback_deadlock` | finds `CallbackCallsReturn` violated |
| `job_runs_twice` | finds `JobRunsOnce` violated |
| `progress_ignored` | finds `ProgressPreventsTimeouts` violated |

Bounds. `Connection` has none: the link may fail, open and drop for ever and the
state space is finite. The `connection` run checks it composed with a listener
that is added, called and removed, so that `OnOpen` has something to register;
every step of the life cycle is a step of that composition, with requests left to
their own run. In `Requests` two calls are enough for every interaction
the code has: the number race, the overwritten entry, the contended mutex and a
queue of length two each need two; a crossed answer needs two. `RequestTimeout`
is 0 ticks, so an entry is fresh or expired and two entries can differ; the
proofs cover every number of calls and every timeout. Pings are off in the
request runs, as the ping thread never touches a request.

Listeners meet in `events_mutex_`, in the joined key and in the copied list of
callbacks, and two suffice for each; the instance makes them collide in all
three, with a wildcard in either pattern, and lets the first that was added ask
for values and be removed. The proofs cover any number. The header of the
`signals` run holds two bytes of each name and 16 values of a byte: a name one
longer, one of exactly the limit and one shorter occur, and a type one too large;
the proofs hold for 36, 128 and 256.

In `RequestReply` requests do not interact except in the lock-step of the mutex, so
one is enough; two repliers are what an echo needs, and `MaxDepth = 2` is the first
reply to a reply, every deeper one being handled alike. `Timeout = 1` above
`ProgressTimeout = 0` lets either of them fire first. `MaxProgress`
bounds the progress messages and the events without value of a request; one is
enough to renew `last_progress`, to run its callback or to break the promise. In
`progress_ignored` both timeouts are 1 tick, so that progress can come in time and
the overall timeout still be the one that fires. In `CompetingConsumers` jobs meet only
in the application's choice of a worker, which no property depends on, and
consumers in a job: one job with two consumers. `MaxUpdates` bounds the status
updates of a work handler: 2 gives a progress after a result and two results.

Three invariants are proved and have no run of their own, as what the runs check
contains or implies them: `ConnectedHasLink` (a conjunct of `ConnInv`),
`SentAtMostOnce` (by `PromisesSafeSpec` no message is sent twice, and the proof adds
that a queued one was not sent), and `EntryMatchesPromise` of the two messaging
patterns (`PromisesSpec` decides every promise, once).

Deadlock is not checked: after `close()` or a crash the system has stopped.

Fairness. Each thread of the client is scheduled (weak fairness of its steps),
the clock ticks, a connection attempt succeeds or fails, and a server that
accepts connections again and again is reached (strong fairness of `WsOpen`).
Nothing is assumed of lost links, events, answers, calls or the call of
`close()`, nor of who gets a contended mutex: therefore `CallsReturn` starts
where a call waits for its future.
In `Listeners` a call that has begun goes on, and a server that is sent a
subscription on link after link reads one of them before its link is lost (strong
fairness of `ServerSubscribe`).
In `RequestReply` and `CompetingConsumers` only the client's own timeout thread,
its clock and a callback that already runs are fair, and a request made in a
callback ends by its timeout; peers, the server and the network owe nothing. The
timeout thread needs a mutex that progress callbacks take too; in the runs the bound
on progress messages is what keeps it from being locked out for ever, and in the
proofs it is a hypothesis that it is not.

## What the runs found

- `close_hang`: `StartConnection` clears `skip_reconnect_` (line 134). A
  reconnect that passed its test (line 198 or 211) before `close()` set the flag
  undoes it. The timeout thread then loops for ever and `close()` joins it for
  ever (line 120). `CloseReturnsIfFlagKept` shows that this is the only way
  `close()` fails to return as long as no callback blocks.
- `number_race`: two requests share a number (line 605); the second is given the
  first one's answer, the first `std::future_error`.
- `callback_deadlock`: `close()` while a callback waits for its own request. The
  timeout thread has left, nobody else can end the call, and `close()` waits for
  the I/O thread (line 118). Without a `close()` such a call does return, but always
  by its timeout (`CallbackCallsUnanswered`), where
  `src/examples/listener_api_test.cc:21-24` expects it to succeed.
- `job_runs_twice`: the producer deletes the status entry of a finished job, and
  with it the mark that the job is taken; a consumer that received the job but
  claims it late is granted it again and runs it a second time. `ClaimsPerJob`
  shows that before the result is told one consumer at most holds the job, and
  after it one more at most, and `ResultFromWinner` that whatever result is told
  comes from a consumer that was granted the job.
- `progress_ignored`: `src/README.md:774-775` says that progress callbacks prevent
  timeouts. `OnProgress` renews `last_progress` only; the overall timeout counts from
  `request_time` (line 136 of the messaging file) and ends a request whose
  progress never paused, unless it was told its reply first. `Producer` does the
  same (lines 300-303). `TimeoutsGoOn` and the proofs of liveness rest on that overall
  timeout, as it is in the code; they do not say that it should be so.

Also visible in the model's states; the passing runs and the proofs give their
causes:

- between the loss of the link and `OnClose`, `connected_` is true and the ping's
  `send` (line 83) throws out of its thread: a drop at the wrong moment ends the
  process. `PingNotKilledByClose` shows that `close()` cannot provoke it.
- a failed send satisfies the promise (line 641) and leaves the entry; when it
  expires the timeout thread throws (line 401) and the process ends, and
  `close()` and the destructor throw at the same entry (line 127).
  `TimeoutCrashNeedsFailedSend` and `ShutdownThrowNeedsFailedSend` show that
  nothing else leads there.
- `OnOpen` may set `connected_` after `close()` cleared it, so `is_connected()` stays
  true on a closed connection.
- a request made during or after `close()` waits for the destructor
  (`NoLostWaiter`), which its caller may be in the way of.
- a request in a callback is never answered, only timed out
  (`CallbackCallsUnanswered`).
- a message in the queue is sent although its caller was told of a timeout, and
  a later call's message may overtake it before that.
- `add_listener` throws on a just-lost link after it stored the registration, so the
  callback stays and nobody holds its id (state `orphan`); a callback can start
  after `remove_listener` returned (`LateAtMostOnce`); two pairs of names that join to
  one event key are subscribed as one (`SubscriptionAgrees` holds up to the key).
- in the job pattern the process of a consumer that loses a claim ends (line 440
  of the messaging file, because a refused write is a `runtime_error` and never the
  `AlreadyExistsError` that line 435 catches and `src/README.md:566,571` document); the producer's ends once the entry of a finished job
  expires (`ScanJobs`, after `DeleteStatusThrows` skipped the erase); a worker is
  not given back when its job is done, as that is left to the application; a claim
  that is applied after its consumer gave up leaves an entry that refuses every
  other one, and the job is lost.
- in both patterns `destroy()` leaves the futures of pending requests and jobs undecided.

## What is proved

For every set of calls, every timeout and with or without pings, TLAPS checks:

- `ConnectionProofs`: the inductive invariant `ConnInv`, and from it every safety
  property of `Connection`. Beyond those properties `ConnInv` records
  that a handler of an opened link runs on that link or its remains
  (`HandlerHasLink`), that while `OnOpen` has not registered only `close()` can
  take its link (`OpeningLinkIsOpen`), and which threads each step of `close()`
  has outlived (`JoinsHold`).
- `RequestsProofs`: `Requests` implements `Connection` (`RequestsRefineConnection`:
  every step is a life-cycle step or leaves it alone), so `ConnInv` carries over.
  On it rest three invariants of the request path: `TableInv` (entries against
  promises), `QueueInv` (queue against transmissions) and `CrossInv` (the owner of
  every crossed answer has used its answer up). They give every safety property of
  the `requests` run, `TimeoutCrashNeedsFailedSend`, and the action property
  `OutcomeIsFinal`. `CallbacksGetNoAnswer` rests on a further invariant: a call
  made in a callback that has started and not returned holds the I/O thread, and
  is the only one that does, so `HandleResponse` cannot run beside it.
  `WaitersAreNotLost` adds that a destroyed connection has no undecided waiter
  (`DestroyedLeavesNone`), and `RequestsKeepPromises` maps every step to a step of
  `Promises` or to a stutter.
- `ListenersProofs`: `Listeners` implements `Connection`. `ListInv` says when the
  last message to the server is up to date: whenever the link is up and nobody
  holds `events_mutex_` or is about to register, because whoever changed the
  registrations sent them, or found `connected_` false, and then `OnOpen` is still
  to come. With the facts of what a message lists (`MessageFacts`) it gives
  `ServerAgrees` for any listeners and names.
- `SignalsProofs`: `RoundTrip` is the header's: what `BufferToHeader` reads of what
  `HeaderToBuffer` wrote is the type and the cut names, for names of any length and
  every size of the header that holds three of them. `WireInv` says that every
  frame under way is that of a call that was sent; `PeersHearSignals` and
  `MatchingListenersHear` follow.
- `RequestReplyProofs`: `RRInv` (types, and entries against promises), from which
  `NoRequestForgotten`, `RequestToldOnce` and `DestroyedIsQuiet` follow. What a
  requestor may mistake for its answer needs more: `EchoInv` follows every
  direct reply and every reply to a reply over the server. A replier hears a
  direct reply before it can answer it, the server keeps the order in which it
  broadcast, and so whenever an echo is on its way the direct reply it answers is
  ahead of it or has been dealt with. `EchoNeedsOverlooked` is its consequence
  for any number of repliers, requests and echoes.
- `CompetingConsumersProofs`: `JobInv` (types, and the producer's entries against
  its promises) gives `NoJobForgotten`, `TerminationCause` and `JobToldOnce`.
  `ClaimInv` says why a job has so few winners: a job is `Intact` until its status
  entry has been removed, which takes a result and happens once; the first grant
  of an intact job leaves an entry that refuses every other claim; after the
  removal one claim more finds no entry. `JobGrantedOnce` turns that into the
  cardinalities of `ClaimsPerJob`, for any number of consumers.
  `ReportInv` follows a result back to who wrote it: a final status that is under
  way was written by a thread past its claim, such a thread was granted the job
  (`GrantedBeforeWork`), and no late answer to a claim takes that away;
  `ResultsFromWinners` is its consequence.
  `RequestorKeepsPromises` and `ProducerKeepsPromises` are the step simulations
  of `Promises` by the two patterns.

The assumptions are `EnablePingAssumption`, `CallsAssumption`,
`ListenersAssumption`, `SignalsAssumption`, `RequestReplyAssumption` and
`JobsAssumption`: the types of the constants, and that three names fit the
header.

### Liveness

TLAPS has neither `ENABLED`, and so no `WF_` or `SF_`, nor induction over time. The
liveness theorems therefore start from what fairness is for, written with the
guards in place of `ENABLED`, as part of the component's module:

- `ThreadsGoOn` (`Connection`): a handler, a pass of a helper thread or a step of
  `close()` that could be taken from some time on is taken; an attempt to connect
  ends, and attempts that could succeed again and again do not all fail;
- `TimeoutsGoOn` (`Requests`): the timeout thread goes from pass to pass, an entry
  is gone or past its timeout at some time, and a caller whose promise was decided
  wakes up. In `RequestReply` and `CompetingConsumers`, where progress or a
  `delete_key` hold the thread's mutex: it is free again and again, and the thread
  gets it at some time;
- `ListenersGoOn` (`Listeners`): `ThreadsGoOn`, `events_mutex_` is given back, and a
  server that is sent subscriptions on link after link reads one.

That time passes and that a server empties what was sent to it are hypotheses
because their proofs are inductions over a number of steps. The runs `connection`,
`callbacks`, `request_reply` and `jobs` check that `Spec`, with its `WF_` and `SF_`,
implies the hypotheses, so that they are satisfied and ask no more of the scheduler
than `Spec` does. The theorems then hold for every value of the constants:

| theorem | statement | argument |
| --- | --- | --- |
| `ConnectionComesBack` | `ConnSafeSpec /\ ThreadsGoOn => Reconnects` | the I/O thread's program points from `OnClose` or `OnFail` to `OnOpenMark` lead one to the next, and `ConnInv` says which steps can be taken at each |
| `CloseReturnsUnlessUndone` | `ConnSafeSpec /\ ThreadsGoOn => CloseReturnsIfFlagKept` | each join ends: the ping and timeout threads see the flag at their next pass, the stopped loop ends the I/O thread once the handler it is in is done |
| `WaitsEnd` | `SafeSpec /\ TimeoutsGoOn => CallsReturn` | an undecided entry past its timeout stays so until a scan (`DueStays`), whatever answers, failed sends and other calls do to the table, and the scan decides it or ends the process (`ScanDecides`) |
| `ServerHearsOfAll` | `SafeSpec /\ ListenersGoOn => ListenersGetSubscribed` | a registration nobody heard of sits on a settled link, whose last message lists it and is read or lost with the link; or `OnOpen` is still to send it; and links are not lost every time |
| `RequestsKeepEveryPromise`, `RequestorKeepsEveryPromise`, `ProducerKeepsEveryPromise` | `SafeSpec /\ TimeoutsGoOn => PromisesSpec` | the step simulation, and for the part `Kept` the passes of the timeout thread: the overall timeout, which no progress renews, is the one that ends a wait |

### The race for a number

`CrossedNeedsRace` is the other side of the run `number_race`: while no two calls are
between the load and the store of `request_id_counter_` at once (`NumbersSerialised`,
what an atomic counter would give), numbers are those of one call each, so that
no answer reaches another call (`NoCrossedAnswers`) and no promise is destroyed.
Nothing else in the request path crosses answers.

### What rests on model checking alone

That the fairness of `Spec` implies `ThreadsGoOn`, `TimeoutsGoOn` and `ListenersGoOn`
(`ENABLED` and induction over time), on the instances of the runs; and the five
disagreements of the runs that expect a violation, which are traces.

## Not modelled, and why

- the client facade, which defaults the options of a request and forwards it to
  the connection; UUIDs, which key nothing; the records of the types header; the
  examples, tests and build files;
- `close()` from a callback, which joins its own thread; callbacks and handlers
  (`on_error_`, `on_disconnect_`) that call back into the connection other than by
  requests, so also `add_listener` and `remove_listener` from a callback; a
  connection that is destroyed without a `close()`, whose destructor then runs
  the same steps beside the same threads;
- undefined behaviour on `connection_hdl_`, `id_` and `send_values_`, which are
  read and written without a lock; overflow of the request counter after 2^31
  requests; binary data whose header was made by somebody else and points past
  its own end;
- exceptions of a signal's or a request's serialisation; progress callbacks that
  call back into their Requestor or Producer; JSON, URLs, logging;
- a producer and a consumer in one process; the per-call timeouts of
  `request_async` and `add_job_async`, which the code ignores; a Requestor's or
  Producer's use after its client was closed; a Producer's `destroy()` on a link
  that is lost while it unsubscribes, when `remove_listener` throws (a
  Requestor's then stays between its two removals, which `RequestReply` allows:
  nothing is fair to `RemoveProgressListener`); the notifications of `OnJob`.

## Plan

1. Done: `Connection`, `Requests`, `Listeners`, `Signals`, `RequestReply` and
   `CompetingConsumers`, with their runs and with proofs of all their safety and
   action properties; the abstract specification `Promises` and the proof that its
   three implementations keep it, liveness included; the liveness of the life
   cycle, the requests and the listeners from the progress of their threads.
2. The messaging patterns on top of the life cycle instead of beside it: a
   Requestor, its signals and its `destroy()` over one `Connection`, and repliers
   that miss requests while their link is down.
3. More proofs: that the invariants of the listeners and of the requests hold in
   one connection that has both, by a composition of the two modules over one
   `Connection`.
