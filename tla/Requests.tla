------------------------------- MODULE Requests -------------------------------
(***************************************************************************)
(* The request path of a CachearooConnection on top of its life cycle:     *)
(* AddRequest on any number of threads, the table of pending requests, the *)
(* queue of messages kept while disconnected, the answers and the timeout  *)
(* scan.  A call is one use of read, list, write, patch or remove: it      *)
(* registers a promise, transmits or queues its message and blocks on the  *)
(* future.  A callback call is made inside an event callback, that is, on  *)
(* the I/O thread.  Requests that share a number share a table key.        *)
(***************************************************************************)
EXTENDS Connection, Naturals, Sequences, Functions

CONSTANTS
  Calls,           \* the calls, each made once
  CallbackCalls,   \* those made on the I/O thread
  RequestTimeout   \* kRequestTimeout, in ticks of the clock

ASSUME CallsAssumption ==
  /\ CallbackCalls \subseteq Calls
  /\ RequestTimeout \in Nat

VARIABLES
  pc,       \* where each call is in AddRequest and future.get()
  counter,  \* request_id_counter_
  reqId,    \* the number each call took
  entry,    \* the call's entry in pending_requests_
  age,      \* ticks since the entry's timestamp, 0 without an entry
  outcome,  \* what the call's promise was given
  queue,    \* pending_message_queue_
  uplink,   \* messages on their way to the server
  downlink, \* answers on their way back
  sends     \* how often each call's message was transmitted

callVars == <<pc, counter, reqId>>
tableVars == <<entry, age, outcome>>
wireVars == <<uplink, downlink>>
reqVars == <<callVars, tableVars, queue, wireVars, sends>>
vars == <<connVars, reqVars>>

CallStates == {"idle", "loaded", "numbered", "registered", "sending", "waiting", "returned"}

\* "broken" is a promise destroyed before it was satisfied.
Outcomes == {"none", "answered", "crossed", "timeout", "closed", "send_failed", "broken"}

(***************************************************************************)
(* The one type invariant of the module.                                   *)
(***************************************************************************)
TypeOK ==
  /\ ConnTypeOK
  /\ pc \in [Calls -> CallStates]
  /\ counter \in Nat
  /\ reqId \in [Calls -> Nat]
  /\ entry \in [Calls -> {"absent", "waiting", "satisfied"}]
  /\ age \in [Calls -> 0 .. RequestTimeout + 1]
  /\ outcome \in [Calls -> Outcomes]
  /\ queue \in Seq(Calls)
  /\ uplink \subseteq Calls
  /\ downlink \subseteq Calls
  /\ sends \in [Calls -> Nat]

\* pending_message_mutex_ is held across a send and across the flush.
MessageMutexFree == io # "flush" /\ \A k \in Calls : pc[k] # "sending"

\* Seeded bug: a lookup that does not compare the number.
FoundAny(k) == {j \in Calls : entry[j] # "absent"}

\* The entries a lookup of k's number finds.
Found(k) == {j \in Calls : entry[j] # "absent" /\ reqId[j] = reqId[k]}

Waiting == {k \in Calls : entry[k] = "waiting"}
Satisfied == {k \in Calls : entry[k] = "satisfied"}
Expired == {k \in Calls : entry[k] # "absent" /\ age[k] > RequestTimeout}

\* The function f with the value v on the set S.
SetOn(f, S, v) == [k \in DOMAIN f |-> IF k \in S THEN v ELSE f[k]]

-------------------------------------------------------------------------------
Init ==
  /\ ConnInit
  /\ pc = [k \in Calls |-> "idle"]
  /\ counter = 0
  /\ reqId = [k \in Calls |-> 0]
  /\ entry = [k \in Calls |-> "absent"]
  /\ age = [k \in Calls |-> 0]
  /\ outcome = [k \in Calls |-> "none"]
  /\ queue = << >>
  /\ uplink = {}
  /\ downlink = {}
  /\ sends = [k \in Calls |-> 0]

-------------------------------------------------------------------------------
(* AddRequest.                                                             *)

\* The load of ++request_id_counter_, an unsynchronised int: two threads may
\* load the same value.  A callback call begins as an event is dispatched.
LoadCounter(k) ==
  /\ Alive /\ pc[k] = "idle" /\ close # "destroyed"
  /\ IF k \in CallbackCalls THEN OnEvent ELSE UNCHANGED connVars
  /\ reqId' = [reqId EXCEPT ![k] = counter + 1]
  /\ pc' = [pc EXCEPT ![k] = "loaded"]
  /\ UNCHANGED <<counter, tableVars, queue, wireVars, sends>>

\* The store.
StoreCounter(k) ==
  /\ Alive /\ pc[k] = "loaded"
  /\ counter' = reqId[k]
  /\ pc' = [pc EXCEPT ![k] = "numbered"]
  /\ UNCHANGED <<connVars, reqId, tableVars, queue, wireVars, sends>>

\* pending_requests_[id] = ...: an entry already under the number is destroyed
\* and its unsatisfied promise with it.
Register(k) ==
  /\ Alive /\ pc[k] = "numbered"
  /\ entry' = [SetOn(entry, Found(k), "absent") EXCEPT ![k] = "waiting"]
  /\ outcome' = SetOn(outcome, Found(k) \cap Waiting, "broken")
  /\ age' = SetOn(age, Found(k) \cup {k}, 0)
  /\ pc' = [pc EXCEPT ![k] = "registered"]
  /\ UNCHANGED <<connVars, counter, reqId, queue, wireVars, sends>>

\* Seeded bug: the else is lost, a message that is sent is queued too.
CheckLinkQueuesToo(k) ==
  /\ Alive /\ pc[k] = "registered" /\ MessageMutexFree
  /\ pc' = [pc EXCEPT ![k] = IF connected THEN "sending" ELSE "waiting"]
  /\ queue' = Append(queue, k)
  /\ UNCHANGED <<connVars, counter, reqId, tableVars, wireVars, sends>>

\* Under pending_message_mutex_: send when connected, else queue.
CheckLink(k) ==
  /\ Alive /\ pc[k] = "registered" /\ MessageMutexFree
  /\ IF connected
       THEN pc' = [pc EXCEPT ![k] = "sending"] /\ UNCHANGED queue
       ELSE pc' = [pc EXCEPT ![k] = "waiting"] /\ queue' = Append(queue, k)
  /\ UNCHANGED <<connVars, counter, reqId, tableVars, wireVars, sends>>

\* Seeded bug: a failed send erases the entry and tells nobody.
SendErases(k) ==
  /\ Alive /\ pc[k] = "sending"
  /\ IF ws = "open"
       THEN /\ uplink' = uplink \cup {k}
            /\ sends' = [sends EXCEPT ![k] = @ + 1]
            /\ UNCHANGED entry
       ELSE /\ entry' = SetOn(entry, Found(k), "absent")
            /\ UNCHANGED <<uplink, sends>>
  /\ pc' = [pc EXCEPT ![k] = "waiting"]
  /\ UNCHANGED <<connVars, counter, reqId, age, outcome, queue, downlink>>

\* The link may be gone by now: the promise under the number is then failed,
\* but its entry stays in the table.
Send(k) ==
  /\ Alive /\ pc[k] = "sending"
  /\ IF ws = "open"
       THEN /\ uplink' = uplink \cup {k}
            /\ sends' = [sends EXCEPT ![k] = @ + 1]
            /\ UNCHANGED <<entry, outcome>>
       ELSE /\ entry' = SetOn(entry, Found(k), "satisfied")
            /\ outcome' = SetOn(outcome, Found(k) \cap Waiting, "send_failed")
            /\ UNCHANGED <<uplink, sends>>
  /\ pc' = [pc EXCEPT ![k] = "waiting"]
  /\ UNCHANGED <<connVars, counter, reqId, age, queue, downlink>>

\* future.get() ends; a callback gives the I/O thread back.
Return(k) ==
  /\ pc[k] = "waiting" /\ outcome[k] # "none" /\ Alive
  /\ IF k \in CallbackCalls THEN CallbackReturn ELSE UNCHANGED connVars
  /\ pc' = [pc EXCEPT ![k] = "returned"]
  /\ UNCHANGED <<counter, reqId, tableVars, queue, wireVars, sends>>

-------------------------------------------------------------------------------
(* The server, and the answers.                                            *)

\* The server answers a message it received, in any order, or never.
ServerAnswer(k) ==
  /\ Alive /\ k \in uplink
  /\ uplink' = uplink \ {k}
  /\ downlink' = downlink \cup {k}
  /\ UNCHANGED <<connVars, callVars, tableVars, queue, sends>>

\* Seeded bug: the answered entry is not erased.
HandleResponseKeepsEntry(k) ==
  /\ LoopFree /\ ws = "open" /\ k \in downlink
  /\ downlink' = downlink \ {k}
  /\ LET resolved == Found(k) \cap Waiting
     IN /\ entry' = SetOn(entry, resolved, "satisfied")
        /\ outcome' = [j \in Calls |-> IF j \notin resolved THEN outcome[j]
                                       ELSE IF j = k THEN "answered" ELSE "crossed"]
  /\ UNCHANGED <<connVars, callVars, age, queue, uplink, sends>>

\* Seeded bug: a second thread reads answers while a handler runs.
HandleResponseBeside(k) ==
  /\ Alive /\ ws = "open" /\ k \in downlink
  /\ downlink' = downlink \ {k}
  /\ LET resolved == Found(k) \cap Waiting
     IN /\ entry' = SetOn(entry, resolved, "absent")
        /\ age' = SetOn(age, resolved, 0)
        /\ outcome' = SetOn(outcome, resolved, "answered")
  /\ UNCHANGED <<connVars, callVars, queue, uplink, sends>>

\* HandleResponse.  An answer nobody waits for is dropped; one for a satisfied
\* promise throws before the erase, and ProcessStringMessage catches that.
HandleResponse(k) ==
  /\ LoopFree /\ ws = "open" /\ k \in downlink
  /\ downlink' = downlink \ {k}
  /\ LET resolved == Found(k) \cap Waiting
     IN /\ entry' = SetOn(entry, resolved, "absent")
        /\ age' = SetOn(age, resolved, 0)
        /\ outcome' = [j \in Calls |-> IF j \notin resolved THEN outcome[j]
                                       ELSE IF j = k THEN "answered" ELSE "crossed"]
  /\ UNCHANGED <<connVars, callVars, queue, uplink, sends>>

-------------------------------------------------------------------------------
(* The clock and CheckRequestTimeouts.                                     *)

\* Seeded bug: the time of a request counts from its transmission.
TickFromSend ==
  /\ Alive
  /\ \E k \in Calls : entry[k] # "absent" /\ sends[k] > 0 /\ age[k] <= RequestTimeout
  /\ age' = [k \in Calls |-> IF entry[k] # "absent" /\ sends[k] > 0 /\ age[k] <= RequestTimeout
                             THEN age[k] + 1 ELSE age[k]]
  /\ UNCHANGED <<connVars, callVars, entry, outcome, queue, wireVars, sends>>

Tick ==
  /\ Alive
  /\ \E k \in Calls : entry[k] # "absent" /\ age[k] <= RequestTimeout
  /\ age' = [k \in Calls |-> IF entry[k] # "absent" /\ age[k] <= RequestTimeout
                             THEN age[k] + 1 ELSE age[k]]
  /\ UNCHANGED <<connVars, callVars, entry, outcome, queue, wireVars, sends>>

\* Seeded bug: nothing expires while disconnected.
ScanWhenConnected ==
  /\ TimeoutScan(connected /\ Expired \cap Satisfied # {})
  /\ IF ~connected \/ Expired \cap Satisfied # {}
       THEN UNCHANGED tableVars
       ELSE /\ entry' = SetOn(entry, Expired, "absent")
            /\ age' = SetOn(age, Expired, 0)
            /\ outcome' = SetOn(outcome, Expired, "timeout")
  /\ UNCHANGED <<callVars, queue, wireVars, sends>>

\* set_exception throws at an expired entry whose promise is satisfied.
ScanTimeouts ==
  /\ TimeoutScan(Expired \cap Satisfied # {})
  /\ IF Expired \cap Satisfied # {}
       THEN UNCHANGED tableVars
       ELSE /\ entry' = SetOn(entry, Expired, "absent")
            /\ age' = SetOn(age, Expired, 0)
            /\ outcome' = SetOn(outcome, Expired, "timeout")
  /\ UNCHANGED <<callVars, queue, wireVars, sends>>

-------------------------------------------------------------------------------
(* The life cycle's steps that touch the request path.                     *)

\* What was on the wire is lost with the link.
LoseLink ==
  /\ WsLost \/ CloseWs
  /\ uplink' = {}
  /\ downlink' = {}
  /\ UNCHANGED <<callVars, tableVars, queue, sends>>

\* Seeded bug: OnOpen gives up when the mutex is taken.
TryMessageMutex ==
  /\ IF MessageMutexFree
       THEN OnOpenLock
       ELSE /\ Alive /\ io = "lock"
            /\ io' = "run"
            /\ UNCHANGED <<connected, skip_reconnect, ws, stopped, tmo, ping, close, crash>>
  /\ UNCHANGED reqVars

TakeMessageMutex == MessageMutexFree /\ OnOpenLock /\ UNCHANGED reqVars

\* The head of the queue is sent, or its failed send reported, and popped.
FlushOne ==
  /\ Alive /\ io = "flush" /\ queue # << >>
  /\ LET k == Head(queue)
     IN IF ws = "open"
          THEN /\ uplink' = uplink \cup {k}
               /\ sends' = [sends EXCEPT ![k] = @ + 1]
          ELSE UNCHANGED <<uplink, sends>>
  /\ queue' = Tail(queue)
  /\ UNCHANGED <<connVars, callVars, tableVars, downlink>>

\* Seeded bug: an if in place of the while flushes at most one message.
FlushDoneEarly == OnOpenDone /\ UNCHANGED reqVars

FlushDone == queue = << >> /\ OnOpenDone /\ UNCHANGED reqVars

\* Every promise is failed and the table cleared, unless a satisfied one throws
\* after some of the others were failed.
FailPending ==
  /\ CloseClear(Satisfied # {})
  /\ IF Satisfied = {}
       THEN /\ entry' = [k \in Calls |-> "absent"]
            /\ age' = [k \in Calls |-> 0]
            /\ outcome' = SetOn(outcome, Waiting, "closed")
       ELSE \E S \in SUBSET Waiting :
              /\ entry' = SetOn(entry, S, "satisfied")
              /\ outcome' = SetOn(outcome, S, "closed")
              /\ UNCHANGED age
  /\ UNCHANGED <<callVars, queue, wireVars, sends>>

\* The destructor's close(), once no call is about to touch the object: calls
\* made after the first close() are failed now; a satisfied promise throws.
Destroy ==
  /\ \A k \in Calls : pc[k] \in {"idle", "waiting", "returned"}
  /\ Destruct(Satisfied # {})
  /\ IF Satisfied = {}
       THEN /\ entry' = [k \in Calls |-> "absent"]
            /\ age' = [k \in Calls |-> 0]
            /\ outcome' = SetOn(outcome, Waiting, "closed")
       ELSE UNCHANGED tableVars
  /\ uplink' = {} /\ downlink' = {}
  /\ UNCHANGED <<callVars, queue, sends>>

\* The steps that leave the request path alone.  Callback calls are made in
\* callbacks of text events, whose exceptions are caught.
ConnOnly ==
  /\ \/ WsOpen \/ OnFail \/ OnClose \/ IoExit
     \/ OnOpenMark \/ OnOpenRegister \/ OnOpenSendRegister
     \/ DownTest \/ RetryTest \/ StartFlags \/ StartConnect
     \/ TimeoutCheck \/ PingThread
     \/ CloseBegin \/ CloseDisconnect \/ CloseJoinPing \/ CloseStop
     \/ CloseJoinIo \/ CloseJoinTimeout
  /\ UNCHANGED reqVars

-------------------------------------------------------------------------------
Call(k) ==
  LoadCounter(k) \/ StoreCounter(k) \/ Register(k) \/ CheckLink(k) \/ Send(k) \/ Return(k)

Next ==
  \/ \E k \in Calls : Call(k) \/ ServerAnswer(k) \/ HandleResponse(k)
  \/ Tick \/ ScanTimeouts
  \/ LoseLink \/ TakeMessageMutex \/ FlushOne \/ FlushDone \/ FailPending \/ Destroy
  \/ ConnOnly

\* The I/O thread inside its handlers, and close() once it was called.
IoSteps == TakeMessageMutex \/ FlushOne \/ FlushDone \/ (IoHandler /\ ConnOnly)
CloseRest == (CloseWs /\ LoseLink) \/ FailPending \/ (CloseCall /\ ConnOnly)

SafeSpec == Init /\ [][Next]_vars

(***************************************************************************)
(* Threads are scheduled and time passes.  A call need never be made, the  *)
(* server need never answer, and a mutex promises nothing to its waiters.  *)
(***************************************************************************)
Fairness ==
  /\ WF_vars(Tick)
  /\ WF_vars(ScanTimeouts)
  /\ WF_vars(TimeoutCheck /\ UNCHANGED reqVars)
  /\ WF_vars(PingThread /\ UNCHANGED reqVars)
  /\ WF_vars(IoSteps)
  /\ WF_vars(CloseRest)
  /\ WF_vars((WsOpen \/ OnFail) /\ UNCHANGED reqVars)
  /\ \A k \in Calls : WF_vars(Send(k)) /\ WF_vars(Return(k))

Spec == SafeSpec /\ Fairness

-------------------------------------------------------------------------------
(* Properties.                                                             *)

(***************************************************************************)
(* No waiter is forgotten: a call blocked on an undecided future still has *)
(* its entry, so that an answer, the timeout scan or close() can end it.   *)
(* One that was made during or after close() waits for the destructor,     *)
(* which leaves nobody behind.                                             *)
(***************************************************************************)
NoLostWaiter ==
  \A k \in Calls : pc[k] = "waiting" /\ outcome[k] = "none"
                     => entry[k] = "waiting" /\ close # "destroyed"

(***************************************************************************)
(* An entry that waits has an undecided promise; one whose promise is      *)
(* already satisfied is left by a failed send only, or by close() itself.  *)
(***************************************************************************)
EntryMatchesPromise ==
  \A k \in Calls :
    /\ entry[k] = "waiting" => outcome[k] = "none"
    /\ entry[k] = "satisfied" => \/ outcome[k] = "send_failed"
                                 \/ CloseEnded /\ outcome[k] = "closed"

(***************************************************************************)
(* A promise is decided once: no answer, timeout, close or failed send     *)
(* replaces what a caller was told.                                        *)
(***************************************************************************)
OutcomeIsFinal ==
  [][\A k \in Calls : outcome[k] # "none" => outcome'[k] = outcome[k]]_vars

(***************************************************************************)
(* A message is transmitted at most once, by its caller or from the queue: *)
(* no reconnect sends it again, and a queued one was not sent.             *)
(***************************************************************************)
SentAtMostOnce ==
  \A k \in Calls : sends[k] + (IF k \in Range(queue) THEN 1 ELSE 0) <= 1

(***************************************************************************)
(* A message queued while disconnected is not stranded: whenever the link  *)
(* is up and messages are queued, the open handler is about to flush them. *)
(***************************************************************************)
NoStrandedMessage ==
  connected /\ queue # << >> => io \in {"register", "send_register", "lock", "flush"}

(***************************************************************************)
(* An answer reaches another call than its own only if the two took the    *)
(* same number, and then the call the answer was for lost its promise.     *)
(***************************************************************************)
CrossedOnlyBySharedNumber ==
  \A k \in Calls : outcome[k] = "crossed" =>
    \E j \in Calls \ {k} : reqId[j] = reqId[k] /\ outcome[j] # "answered"

(***************************************************************************)
(* The timeout thread dies only of a send that failed after its request    *)
(* was registered.                                                         *)
(***************************************************************************)
TimeoutCrashNeedsFailedSend ==
  crash = "timeout" => \E k \in Calls : outcome[k] = "send_failed" /\ age[k] > RequestTimeout

(***************************************************************************)
(* close() fails to clear the table, and the destructor after it ends the  *)
(* process, only because of a send that failed: its promise is satisfied   *)
(* already.                                                                *)
(***************************************************************************)
ShutdownThrowNeedsFailedSend ==
  close = "threw" \/ crash = "destructor" => \E k \in Calls : outcome[k] = "send_failed"

(***************************************************************************)
(* A call made in an event callback is never given an answer, its own or   *)
(* another's: it blocks the thread that would read it.  It ends by the     *)
(* timeout or an error.                                                    *)
(***************************************************************************)
CallbackCallsUnanswered ==
  \A k \in CallbackCalls : outcome[k] \notin {"answered", "crossed"}

\* future.get() can end; that of a callback call leaves the callback.
ReturnReady(k) ==
  pc[k] = "waiting" /\ outcome[k] # "none" /\ Alive /\ (k \in CallbackCalls => io = "callback")

(***************************************************************************)
(* What ends a wait: the timeout thread goes from pass to pass, time       *)
(* passes until an entry is gone or expired, whatever else touches the     *)
(* table, and a caller whose promise is decided wakes up.                  *)
(***************************************************************************)
TimeoutsGoOn ==
  /\ []<>~(Alive /\ tmo = "check") \/ []<><<TimeoutCheck>>_vars
  /\ []<>~(Alive /\ tmo = "sleep") \/ []<><<ScanTimeouts>>_vars
  /\ \A k \in Calls : /\ []<>(entry[k] = "absent" \/ k \in Expired \/ ~Alive)
                      /\ []<>~ReturnReady(k) \/ []<><<Return(k)>>_vars

(***************************************************************************)
(* Every call that is waiting ends: by its answer, or by the timeout, even *)
(* when the link or the answer is lost, when the reconnect fails, or when  *)
(* the call sits on the I/O thread itself.  The application's close() and  *)
(* a crash are the exceptions.                                             *)
(***************************************************************************)
CallsReturn ==
  \A k \in Calls : pc[k] = "waiting" ~> (pc[k] = "returned" \/ CloseBegun \/ ~Alive)

(***************************************************************************)
(* The request path keeps the promises of module Promises: one result per  *)
(* future, one transmission per message, an answer only to a message that  *)
(* was transmitted, and a result for every future until close().           *)
(***************************************************************************)
Promise == INSTANCE Promises WITH
  Answers <- {"answered"},
  made <- {k \in Calls : pc[k] \notin {"idle", "loaded", "numbered"}},
  sent <- sends,
  told <- outcome,
  over <- CloseBegun \/ ~Alive

PromisesSafeSpec == Promise!SafeSpec
PromisesSpec == Promise!Spec

(***************************************************************************)
(* The documented thread safety of concurrent data operations (README.md:  *)
(* "All operations are thread-safe"): no call is given the answer to       *)
(* another.                                                                *)
(***************************************************************************)
NoCrossedAnswers == \A k \in Calls : outcome[k] # "crossed"

(***************************************************************************)
(* The documented safety of requests in callbacks                          *)
(* (listener_api_test.cc: "no deadlock when calling List from within       *)
(* callback"): such a call returns.                                        *)
(***************************************************************************)
CallbackCallsReturn ==
  \A k \in CallbackCalls : pc[k] = "waiting" ~> (pc[k] = "returned" \/ ~Alive)
=============================================================================
