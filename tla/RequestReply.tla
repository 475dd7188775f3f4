------------------------------ MODULE RequestReply ------------------------------
(***************************************************************************)
(* The request/reply pattern: a Requestor that signals a request under a   *)
(* fresh id and waits for a reply under that id, and Repliers that answer  *)
(* what arrives on the channel, replies of other Repliers included, since  *)
(* requests and replies share one channel.  The server broadcasts a signal *)
(* to the other clients, in one order; each of them may miss it.           *)
(***************************************************************************)
EXTENDS Naturals, Sequences

CONSTANTS
  Requests,         \* the requests, each made once
  Repliers,         \* the clients with a Replier on the channel
  Timeout,          \* Requestor::timeout_, in ticks
  ProgressTimeout,  \* Requestor::progress_timeout_, in ticks
  MaxDepth,         \* bound: how far replies to replies are followed
  MaxProgress       \* bound: progress messages and events without value per request

ASSUME RequestReplyAssumption ==
  /\ Timeout \in Nat
  /\ ProgressTimeout \in Nat
  /\ MaxDepth \in Nat
  /\ MaxProgress \in Nat

VARIABLES
  call,        \* where request_async is
  entry,       \* whether pending_requests_ has the request
  told,        \* what its promise was given
  total,       \* ticks since request_time
  quiet,       \* ticks since last_progress
  io,          \* where the I/O thread of the requestor's connection is
  msg,         \* the message it dispatches, an empty sequence without one
  tmo,         \* where the timeout thread is
  life,        \* how far destroy() got
  toRequestor, \* signals on their way to the requestor
  toReplier,   \* signals on their way to each replier
  asked,       \* response callbacks the message handlers hold
  progress,    \* progress messages and events without value of each request
  overlooked   \* history: requests with a direct reply that told nobody

requestVars == <<call, entry, told, total, quiet>>
threadVars == <<io, msg, tmo, life>>
wireVars == <<toRequestor, toReplier, asked, progress>>
vars == <<requestVars, threadVars, wireVars, overlooked>>

\* Depth 0 is a request, depth 1 a reply to one, depth 2 a reply to a reply.
\* Messages go to the requestor, questions to a replier.  A blank message is an
\* event without value under the id of a request.
Messages == [id : Requests, kind : {"reply", "progress", "blank"}, depth : 0 .. MaxDepth]
Questions == [id : Requests, depth : 0 .. MaxDepth]

(***************************************************************************)
(* The one type invariant of the module.                                   *)
(***************************************************************************)
TypeOK ==
  /\ call \in [Requests -> {"idle", "signalled", "made", "threw"}]
  /\ entry \in [Requests -> BOOLEAN]
  /\ told \in [Requests -> {"none", "reply", "echo", "broken", "timeout", "progress_timeout"}]
  /\ total \in [Requests -> 0 .. Timeout + 1]
  /\ quiet \in [Requests -> 0 .. ProgressTimeout + 1]
  /\ io \in {"run", "dispatch", "callback"}
  /\ msg \in Seq(Messages) /\ Len(msg) = IF io = "run" THEN 0 ELSE 1
  /\ tmo \in {"check", "sleep", "exit"}
  /\ life \in {"up", "shutdown", "no_reply", "destroyed"}
  /\ toRequestor \in Seq(Messages)
  /\ toReplier \in [Repliers -> Seq(Questions)]
  /\ asked \in [Repliers -> SUBSET Questions]
  /\ progress \in [Requests -> 0 .. MaxProgress]
  /\ overlooked \subseteq Requests

\* requests_mutex_ is held while a progress callback runs.
RequestsMutexFree == io # "callback"

Expired == {r \in Requests : entry[r] /\ (quiet[r] > ProgressTimeout \/ total[r] > Timeout)}

Init ==
  /\ call = [r \in Requests |-> "idle"]
  /\ entry = [r \in Requests |-> FALSE]
  /\ told = [r \in Requests |-> "none"]
  /\ total = [r \in Requests |-> 0]
  /\ quiet = [r \in Requests |-> 0]
  /\ io = "run"
  /\ msg = << >>
  /\ tmo = "check"
  /\ life = "up"
  /\ toRequestor = << >>
  /\ toReplier = [p \in Repliers |-> << >>]
  /\ asked = [p \in Repliers |-> {}]
  /\ progress = [r \in Requests |-> 0]
  /\ overlooked = {}

-------------------------------------------------------------------------------
(* Requestor::request_async: the signal goes out first, then the entry is  *)
(* made.                                                                   *)

SignalRequest(r) ==
  /\ call[r] = "idle"
  /\ call' = [call EXCEPT ![r] = "signalled"]
  /\ toReplier' = [p \in Repliers |-> Append(toReplier[p], [id |-> r, depth |-> 0])]
  /\ UNCHANGED <<entry, told, total, quiet, threadVars, toRequestor, asked, progress, overlooked>>

\* signal_event throws without a connection.
SignalThrows(r) ==
  /\ call[r] = "idle"
  /\ call' = [call EXCEPT ![r] = "threw"]
  /\ UNCHANGED <<entry, told, total, quiet, threadVars, wireVars, overlooked>>

\* Seeded bug: last_progress is left at the clock's epoch.
RegisterWithoutProgress(r) ==
  /\ call[r] = "signalled" /\ RequestsMutexFree
  /\ call' = [call EXCEPT ![r] = "made"]
  /\ entry' = [entry EXCEPT ![r] = TRUE]
  /\ total' = [total EXCEPT ![r] = 0]
  /\ quiet' = [quiet EXCEPT ![r] = ProgressTimeout + 2]
  /\ UNCHANGED <<told, threadVars, wireVars, overlooked>>

RegisterRequest(r) ==
  /\ call[r] = "signalled" /\ RequestsMutexFree
  /\ call' = [call EXCEPT ![r] = "made"]
  /\ entry' = [entry EXCEPT ![r] = TRUE]
  /\ total' = [total EXCEPT ![r] = 0]
  /\ quiet' = [quiet EXCEPT ![r] = 0]
  /\ UNCHANGED <<told, threadVars, wireVars, overlooked>>

-------------------------------------------------------------------------------
(* The listeners of the Requestor, on the I/O thread of its connection.    *)

\* The listener a message is for is registered.
Listening(kind) == life \in {"up", "shutdown"} \/ (life = "no_reply" /\ kind = "progress")

\* Seeded bug: of several messages the newest is dispatched first.
DispatchNewest ==
  /\ io = "run" /\ toRequestor # << >>
  /\ toRequestor' = SubSeq(toRequestor, 1, Len(toRequestor) - 1)
  /\ IF Listening(toRequestor[Len(toRequestor)].kind)
       THEN io' = "dispatch" /\ msg' = << toRequestor[Len(toRequestor)] >>
       ELSE UNCHANGED <<io, msg>>
  /\ UNCHANGED <<requestVars, tmo, life, toReplier, asked, progress, overlooked>>

\* The matching callbacks are collected under events_mutex_ ...
Dispatch ==
  /\ io = "run" /\ toRequestor # << >>
  /\ toRequestor' = Tail(toRequestor)
  /\ IF Listening(Head(toRequestor).kind)
       THEN io' = "dispatch" /\ msg' = << Head(toRequestor) >>
       ELSE UNCHANGED <<io, msg>>
  /\ UNCHANGED <<requestVars, tmo, life, toReplier, asked, progress, overlooked>>

\* What OnReply tells.  It erases the entry of an event without value, too,
\* whose promise is destroyed undecided.
ReplyResult(m) ==
  IF m.kind = "blank" THEN "broken" ELSE IF m.depth = 1 THEN "reply" ELSE "echo"

\* The requests that a message which told nobody was a direct reply to.
Missed(m) == IF m.kind = "reply" /\ m.depth = 1 THEN {m.id} ELSE {}

\* ... and run after it was released.  OnReply tells the waiting request.
OnReply ==
  /\ io = "dispatch" /\ msg[1].kind # "progress"
  /\ LET r == msg[1].id
     IN IF entry[r]
          THEN /\ told' = [told EXCEPT ![r] = ReplyResult(msg[1])]
               /\ entry' = [entry EXCEPT ![r] = FALSE]
               /\ UNCHANGED overlooked
          ELSE /\ overlooked' = overlooked \cup Missed(msg[1])
               /\ UNCHANGED <<told, entry>>
  /\ io' = "run" /\ msg' = << >>
  /\ UNCHANGED <<call, total, quiet, tmo, life, wireVars>>

\* OnProgress renews last_progress and calls the application's callback, if the
\* request was given one, with requests_mutex_ held.
OnProgress ==
  /\ io = "dispatch" /\ msg[1].kind = "progress"
  /\ LET r == msg[1].id
     IN IF entry[r]
          THEN /\ quiet' = [quiet EXCEPT ![r] = 0]
               /\ \/ io' = "callback" /\ UNCHANGED msg
                  \/ io' = "run" /\ msg' = << >>
          ELSE io' = "run" /\ msg' = << >> /\ UNCHANGED quiet
  /\ UNCHANGED <<call, entry, told, total, tmo, life, wireVars, overlooked>>

\* Seeded bug: the progress callback needs requests_mutex_ itself.
ProgressRelocks ==
  /\ io = "callback" /\ RequestsMutexFree
  /\ io' = "run" /\ msg' = << >>
  /\ UNCHANGED <<requestVars, tmo, life, wireVars, overlooked>>

ProgressReturns ==
  /\ io = "callback"
  /\ io' = "run" /\ msg' = << >>
  /\ UNCHANGED <<requestVars, tmo, life, wireVars, overlooked>>

\* A signal is lost with the requestor's link.
LoseSignal ==
  /\ toRequestor # << >>
  /\ toRequestor' = Tail(toRequestor)
  /\ overlooked' = overlooked \cup Missed(Head(toRequestor))
  /\ UNCHANGED <<requestVars, threadVars, toReplier, asked, progress>>

-------------------------------------------------------------------------------
(* The clock, Requestor::CheckTimeouts and Requestor::destroy.             *)

Tick ==
  /\ \E r \in Requests : entry[r] /\ (total[r] <= Timeout \/ quiet[r] <= ProgressTimeout)
  /\ total' = [r \in Requests |-> IF entry[r] /\ total[r] <= Timeout
                                  THEN total[r] + 1 ELSE total[r]]
  /\ quiet' = [r \in Requests |-> IF entry[r] /\ quiet[r] <= ProgressTimeout
                                  THEN quiet[r] + 1 ELSE quiet[r]]
  /\ UNCHANGED <<call, entry, told, threadVars, wireVars, overlooked>>

\* Seeded bug: the thread ends when nothing is pending.
CheckShutdownOrIdle ==
  /\ tmo = "check"
  /\ tmo' = IF life = "up" /\ \E r \in Requests : entry[r] THEN "sleep" ELSE "exit"
  /\ UNCHANGED <<requestVars, io, msg, life, wireVars, overlooked>>

CheckShutdown ==
  /\ tmo = "check"
  /\ tmo' = IF life = "up" THEN "sleep" ELSE "exit"
  /\ UNCHANGED <<requestVars, io, msg, life, wireVars, overlooked>>

ScanTimeouts ==
  /\ tmo = "sleep" /\ RequestsMutexFree
  /\ told' = [r \in Requests |-> IF r \notin Expired THEN told[r]
                                 ELSE IF quiet[r] > ProgressTimeout
                                      THEN "progress_timeout" ELSE "timeout"]
  /\ entry' = [r \in Requests |-> entry[r] /\ r \notin Expired]
  /\ tmo' = "check"
  /\ UNCHANGED <<call, total, quiet, io, msg, life, wireVars, overlooked>>

DestroyBegin ==
  /\ life = "up"
  /\ life' = "shutdown"
  /\ UNCHANGED <<requestVars, io, msg, tmo, wireVars, overlooked>>

\* Seeded bug: destroy() does not wait for the timeout thread.
RemoveWithoutJoin ==
  /\ life = "shutdown"
  /\ life' = "no_reply"
  /\ UNCHANGED <<requestVars, io, msg, tmo, wireVars, overlooked>>

\* The timeout thread is joined and the reply listener removed.  A destroy()
\* whose remove_listener throws ends here and may be called again ...
RemoveReplyListener ==
  /\ life = "shutdown" /\ tmo = "exit"
  /\ life' = "no_reply"
  /\ UNCHANGED <<requestVars, io, msg, tmo, wireVars, overlooked>>

\* ... then the progress listener.
RemoveProgressListener ==
  /\ life = "no_reply"
  /\ life' = "destroyed"
  /\ UNCHANGED <<requestVars, io, msg, tmo, wireVars, overlooked>>

-------------------------------------------------------------------------------
(* Replier::OnRequest and the callbacks it hands to the message handler.   *)

OnRequest(p) ==
  /\ toReplier[p] # << >>
  /\ asked' = [asked EXCEPT ![p] = @ \cup {Head(toReplier[p])}]
  /\ toReplier' = [toReplier EXCEPT ![p] = Tail(@)]
  /\ UNCHANGED <<requestVars, threadVars, toRequestor, progress, overlooked>>

\* The signal is lost, the replier destroyed, or it has no handler.
IgnoreRequest(p) ==
  /\ toReplier[p] # << >>
  /\ toReplier' = [toReplier EXCEPT ![p] = Tail(@)]
  /\ UNCHANGED <<requestVars, threadVars, toRequestor, asked, progress, overlooked>>

\* response(): the reply reaches the requestor and every other replier.
Respond(p, m) ==
  /\ m \in asked[p] /\ m.depth < MaxDepth
  /\ asked' = [asked EXCEPT ![p] = @ \ {m}]
  /\ toRequestor' = Append(toRequestor, [id |-> m.id, kind |-> "reply", depth |-> m.depth + 1])
  /\ toReplier' = [q \in Repliers |->
                     IF q = p THEN toReplier[q]
                     ELSE Append(toReplier[q], [id |-> m.id, depth |-> m.depth + 1])]
  /\ UNCHANGED <<requestVars, threadVars, progress, overlooked>>

\* progress(): it has a channel of its own.
SignalProgress(p, m) ==
  /\ m \in asked[p] /\ progress[m.id] < MaxProgress
  /\ progress' = [progress EXCEPT ![m.id] = @ + 1]
  /\ toRequestor' = Append(toRequestor, [id |-> m.id, kind |-> "progress", depth |-> m.depth])
  /\ UNCHANGED <<requestVars, threadVars, toReplier, asked, overlooked>>

\* Another client deletes the key of a request: an event without value, which
\* the repliers ignore.
OtherClientDeletes(r) ==
  /\ call[r] \in {"signalled", "made"} /\ progress[r] < MaxProgress
  /\ progress' = [progress EXCEPT ![r] = @ + 1]
  /\ toRequestor' = Append(toRequestor, [id |-> r, kind |-> "blank", depth |-> 0])
  /\ UNCHANGED <<requestVars, threadVars, toReplier, asked, overlooked>>

-------------------------------------------------------------------------------
Requesting(r) == SignalRequest(r) \/ SignalThrows(r) \/ RegisterRequest(r)

Replying(p) ==
  \/ OnRequest(p) \/ IgnoreRequest(p)
  \/ \E m \in asked[p] : Respond(p, m) \/ SignalProgress(p, m)

Next ==
  \/ \E r \in Requests : Requesting(r) \/ OtherClientDeletes(r)
  \/ \E p \in Repliers : Replying(p)
  \/ Dispatch \/ OnReply \/ OnProgress \/ ProgressReturns \/ LoseSignal
  \/ Tick \/ CheckShutdown \/ ScanTimeouts
  \/ DestroyBegin \/ RemoveReplyListener \/ RemoveProgressListener

SafeSpec == Init /\ [][Next]_vars

(***************************************************************************)
(* The timeout thread is scheduled, time passes, the dispatched callback   *)
(* runs and the application's progress callback returns.  Nothing is owed  *)
(* by the repliers or the network.                                         *)
(***************************************************************************)
Fairness ==
  /\ WF_vars(Tick)
  /\ WF_vars(CheckShutdown)
  /\ WF_vars(ScanTimeouts)
  /\ WF_vars(OnReply \/ OnProgress \/ ProgressReturns)

Spec == SafeSpec /\ Fairness

-------------------------------------------------------------------------------
(* Properties.                                                             *)

(***************************************************************************)
(* No request is forgotten: from its registration to the moment it is told *)
(* something, and then never again, a request has its pending entry.       *)
(***************************************************************************)
EntryMatchesPromise ==
  \A r \in Requests : entry[r] <=> call[r] = "made" /\ told[r] = "none"

(***************************************************************************)
(* With several repliers on a channel a request may be told a reply that   *)
(* answers another reply, but only after a direct reply, one of depth 1,   *)
(* was overlooked: lost, or come before request_async had registered the   *)
(* request.                                                                *)
(***************************************************************************)
EchoOnlyIfOverlooked == \A r \in Requests : told[r] = "echo" => r \in overlooked

(***************************************************************************)
(* A future is given one result: a reply after the timeout, a second reply *)
(* or a timeout after the reply changes nothing.                           *)
(***************************************************************************)
ToldOnce == [][\A r \in Requests : told[r] # "none" => told'[r] = told[r]]_vars

(***************************************************************************)
(* Once destroy() has returned and the callback that was being dispatched  *)
(* is over, the Requestor is left alone: no timeout scan and no callback   *)
(* touches its table.                                                      *)
(***************************************************************************)
QuietAfterDestroy ==
  [][life = "destroyed" /\ io = "run" => told' = told /\ io' = "run" /\ tmo' = tmo]_vars

(***************************************************************************)
(* What the liveness of the futures rests on: the timeout thread goes from *)
(* pass to pass, a progress callback returns, the thread gets              *)
(* requests_mutex_ at some time, and an entry is gone or older than        *)
(* timeout_.  The code counts that age from the request and never from     *)
(* progress, against what the documentation says: this is no claim that it *)
(* should, see ProgressPreventsTimeouts.                                   *)
(***************************************************************************)
TimeoutsGoOn ==
  /\ []<>(tmo # "check")
  /\ []<>RequestsMutexFree
  /\ <>[]~(tmo = "sleep" /\ RequestsMutexFree) \/ []<><<ScanTimeouts>>_vars
  /\ \A k \in Requests : []<>(~entry[k] \/ total[k] > Timeout)

(***************************************************************************)
(* The Requestor keeps the promises of module Promises: a future is told   *)
(* one result, a reply only if the request was signalled, and it is told   *)
(* something although replies are lost, empty, or held up by progress, as  *)
(* long as destroy() is not called.                                        *)
(***************************************************************************)
Promise == INSTANCE Promises WITH
  Calls <- Requests,
  Answers <- {"reply", "echo"},
  made <- {r \in Requests : call[r] = "made"},
  sent <- [r \in Requests |-> IF call[r] \in {"signalled", "made"} THEN 1 ELSE 0],
  over <- life # "up"

PromisesSafeSpec == Promise!SafeSpec
PromisesSpec == Promise!Spec

\* A progress message reached the request in time: it was heard from more
\* recently than the request was made.
KeptAlive(r) == quiet[r] < total[r] /\ quiet[r] <= ProgressTimeout

(***************************************************************************)
(* The documented claim (README.md, "Request timeout errors": "use         *)
(* progress callbacks to prevent timeouts"): a request whose replier       *)
(* reports progress in time is not ended by a timeout.                     *)
(***************************************************************************)
ProgressPreventsTimeouts ==
  \A r \in Requests : told[r] \in {"timeout", "progress_timeout"} => ~KeptAlive(r)
=============================================================================
