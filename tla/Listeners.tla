------------------------------- MODULE Listeners -------------------------------
(***************************************************************************)
(* The event listeners of a CachearooConnection on top of its life cycle:  *)
(* add_listener, add_binary_listener, their removals and                   *)
(* remove_all_listeners on threads of the application, the subscription    *)
(* RegisterEvents keeps at the server, and the dispatch of events to the   *)
(* callbacks on the I/O thread.  A name is a sequence of tokens, so that   *)
(* the key RegisterEvents joins from two names is what the code joins.     *)
(***************************************************************************)
EXTENDS Connection, Integers, Sequences

CONSTANTS
  Listeners,        \* the listeners, each added at most once
  BinaryListeners,  \* those of add_binary_listener
  ValueListeners,   \* those of add_listener with send_values
  Pattern,          \* the bucket and the key each listens to
  Events            \* the bucket and the key of the events that can occur

Wildcard == <<"*">>

ASSUME ListenersAssumption ==
  /\ BinaryListeners \subseteq Listeners
  /\ ValueListeners \subseteq Listeners \ BinaryListeners

VARIABLES
  lpc,          \* where each listener's add and remove call is
  clear,        \* where the call of remove_all_listeners is
  regs,         \* event_registrations_ and binary_event_registrations_
  id,           \* the id each registration got
  last_id,      \* listener_id_counter_
  send_values,  \* send_values_
  todo,         \* callbacks_to_execute
  uplink,       \* the register-events messages on their way
  subscription, \* what the server holds for this link
  late          \* callbacks of a listener started after its removal returned

callVars == <<lpc, clear>>
tableVars == <<regs, id, last_id, send_values>>
serverVars == <<uplink, subscription>>
dispatchVars == <<todo, late>>
listenerVars == <<callVars, tableVars, serverVars, dispatchVars>>
vars == <<connVars, listenerVars>>

\* "orphan": add_listener threw after it had stored the registration.
ListenerStates == {"new", "flagged", "add_send", "added", "orphan",
                   "remove_send", "removed", "remove_threw"}

Patterns == {Pattern[r] : r \in Listeners}
Subscriptions == [events : SUBSET Patterns, values : BOOLEAN]

(***************************************************************************)
(* The one type invariant of the module.                                   *)
(***************************************************************************)
TypeOK ==
  /\ ConnTypeOK
  /\ lpc \in [Listeners -> ListenerStates]
  /\ clear \in {"idle", "send", "done", "threw"}
  /\ regs \subseteq Listeners
  /\ id \in [Listeners -> Nat]
  /\ last_id \in Nat
  /\ send_values \in BOOLEAN
  /\ todo \subseteq Listeners
  /\ uplink \in Seq(Subscriptions)
  /\ subscription \in Subscriptions
  /\ late \in [Listeners -> Nat]

\* events_mutex_ is held across a send of RegisterEvents.
EventsMutexFree ==
  /\ io # "send_register" /\ clear # "send"
  /\ \A r \in Listeners : lpc[r] \notin {"add_send", "remove_send"}

Nothing == [events |-> {}, values |-> FALSE]

-------------------------------------------------------------------------------
Init ==
  /\ ConnInit
  /\ lpc = [r \in Listeners |-> "new"]
  /\ clear = "idle"
  /\ regs = {}
  /\ id = [r \in Listeners |-> 0]
  /\ last_id = 0
  /\ send_values = FALSE
  /\ todo = {}
  /\ uplink = << >>
  /\ subscription = Nothing
  /\ late = [r \in Listeners |-> 0]

-------------------------------------------------------------------------------
(* RegisterEvents.                                                         *)

\* The order in which the two vectors are walked: ids grow with insertion.
Earlier(r, s) ==
  \/ r \notin BinaryListeners /\ s \in BinaryListeners
  \/ (r \in BinaryListeners <=> s \in BinaryListeners) /\ id[r] < id[s]

First(S) == CHOOSE r \in S : \A s \in S \ {r} : Earlier(r, s)

\* The string two names are joined to; different pairs may give the same.
EventKey(p) == p[1] \o <<"|">> \o p[2]

SameKey(r) == {s \in regs : EventKey(Pattern[s]) = EventKey(Pattern[r])}

\* The message: of the registrations with one event key the first is listed.
\* (send_values_ is read without the lock that is held here: whoever sets it
\* then registers itself.)
RegisterMessage ==
  [events |-> {Pattern[First(SameKey(r))] : r \in regs}, values |-> send_values]

\* Its send, to the end of the call that made it.
SendMessage == uplink' = Append(uplink, RegisterMessage)

-------------------------------------------------------------------------------
(* The calls of the application.                                           *)

\* No call is made on a destroyed connection.
Usable == Alive /\ close # "destroyed"

\* Seeded bug: the flag is forgotten.
FlagDropped(r) ==
  /\ Usable /\ lpc[r] = "new" /\ r \in ValueListeners
  /\ lpc' = [lpc EXCEPT ![r] = "flagged"]
  /\ UNCHANGED <<connVars, clear, tableVars, serverVars, dispatchVars>>

\* add_listener sets send_values_ before it takes the mutex.
SetSendValues(r) ==
  /\ Usable /\ lpc[r] = "new" /\ r \in ValueListeners
  /\ lpc' = [lpc EXCEPT ![r] = "flagged"]
  /\ send_values' = TRUE
  /\ UNCHANGED <<connVars, clear, regs, id, last_id, serverVars, dispatchVars>>

\* The mutex is taken, the registration stored; RegisterEvents returns at once
\* when disconnected.
AddListener(r) ==
  /\ Usable /\ EventsMutexFree
  /\ lpc[r] = IF r \in ValueListeners THEN "flagged" ELSE "new"
  /\ last_id' = last_id + 1
  /\ id' = [id EXCEPT ![r] = last_id + 1]
  /\ regs' = regs \cup {r}
  /\ lpc' = [lpc EXCEPT ![r] = IF connected THEN "add_send" ELSE "added"]
  /\ UNCHANGED <<connVars, clear, send_values, serverVars, dispatchVars>>

\* Seeded bug: a send that fails returns -1 for an id.
AddSendErrorId(r) ==
  /\ Alive /\ lpc[r] = "add_send"
  /\ IF ws = "open"
       THEN SendMessage /\ UNCHANGED id
       ELSE UNCHANGED uplink /\ id' = [id EXCEPT ![r] = -1]
  /\ lpc' = [lpc EXCEPT ![r] = "added"]
  /\ UNCHANGED <<connVars, clear, regs, last_id, send_values, subscription, dispatchVars>>

\* The send of RegisterEvents; when it throws the id is never returned.
AddSend(r) ==
  /\ Alive /\ lpc[r] = "add_send"
  /\ IF ws = "open"
       THEN SendMessage /\ lpc' = [lpc EXCEPT ![r] = "added"]
       ELSE UNCHANGED uplink /\ lpc' = [lpc EXCEPT ![r] = "orphan"]
  /\ UNCHANGED <<connVars, clear, tableVars, subscription, dispatchVars>>

\* Seeded bug: the registration stays in its vector.
RemoveKeepsEntry(r) ==
  /\ Usable /\ EventsMutexFree /\ lpc[r] = "added"
  /\ lpc' = [lpc EXCEPT ![r] = IF connected THEN "remove_send" ELSE "removed"]
  /\ UNCHANGED <<connVars, clear, tableVars, serverVars, dispatchVars>>

\* remove_listener and remove_binary_listener.
RemoveListener(r) ==
  /\ Usable /\ EventsMutexFree /\ lpc[r] = "added"
  /\ regs' = regs \ {r}
  /\ lpc' = [lpc EXCEPT ![r] = IF connected THEN "remove_send" ELSE "removed"]
  /\ UNCHANGED <<connVars, clear, id, last_id, send_values, serverVars, dispatchVars>>

\* Seeded bug: on a lost link the removal waits for the next one.
RemoveSendWaits(r) ==
  /\ Alive /\ lpc[r] = "remove_send" /\ ws = "open"
  /\ SendMessage
  /\ lpc' = [lpc EXCEPT ![r] = "removed"]
  /\ UNCHANGED <<connVars, clear, tableVars, subscription, dispatchVars>>

RemoveSend(r) ==
  /\ Alive /\ lpc[r] = "remove_send"
  /\ IF ws = "open"
       THEN SendMessage /\ lpc' = [lpc EXCEPT ![r] = "removed"]
       ELSE UNCHANGED uplink /\ lpc' = [lpc EXCEPT ![r] = "remove_threw"]
  /\ UNCHANGED <<connVars, clear, tableVars, subscription, dispatchVars>>

RemoveAllListeners ==
  /\ Usable /\ EventsMutexFree /\ clear = "idle"
  /\ regs' = {}
  /\ clear' = IF connected THEN "send" ELSE "done"
  /\ UNCHANGED <<connVars, lpc, id, last_id, send_values, serverVars, dispatchVars>>

RemoveAllSend ==
  /\ Alive /\ clear = "send"
  /\ IF ws = "open"
       THEN SendMessage /\ clear' = "done"
       ELSE UNCHANGED uplink /\ clear' = "threw"
  /\ UNCHANGED <<connVars, lpc, tableVars, subscription, dispatchVars>>

-------------------------------------------------------------------------------
(* The server: a message replaces what it held for the link.               *)

ServerSubscribe ==
  /\ Alive /\ ws = "open" /\ uplink # << >>
  /\ subscription' = Head(uplink)
  /\ uplink' = Tail(uplink)
  /\ UNCHANGED <<connVars, callVars, tableVars, dispatchVars>>

-------------------------------------------------------------------------------
(* ProcessStringMessage and ProcessBinaryMessage on the I/O thread.        *)

Matches(p, e) == \A i \in {1, 2} : p[i] \in {Wildcard, e[i]}

\* An event arrives and the matching callbacks are copied under the mutex.
\* (The server may have sent it under an earlier subscription.)
Collect(e, kind) ==
  /\ EventsMutexFree
  /\ OnEvent
  /\ todo' = {r \in regs : /\ r \in BinaryListeners <=> kind = "binary"
                           /\ Matches(Pattern[r], e)}
  /\ UNCHANGED <<callVars, tableVars, serverVars, late>>

\* The next callback is run, without the mutex.  An exception of a text callback
\* is caught outside the loop: the remaining callbacks are skipped.
RunCallback(r) ==
  /\ Alive /\ io = "callback" /\ r \in todo /\ r = First(todo)
  /\ late' = [late EXCEPT ![r] = IF lpc[r] \in {"removed", "remove_threw"} THEN @ + 1 ELSE @]
  /\ \/ todo' = todo \ {r}
     \/ r \notin BinaryListeners /\ todo' = {}
  /\ UNCHANGED <<connVars, callVars, tableVars, serverVars>>

CallbacksDone ==
  /\ todo = {}
  /\ CallbackReturn
  /\ UNCHANGED listenerVars

\* An exception of a binary callback is not caught.
BinaryThrow ==
  /\ todo \cap BinaryListeners # {}
  /\ BinaryCallbackThrows
  /\ UNCHANGED listenerVars

-------------------------------------------------------------------------------
(* The life cycle's steps that touch the listeners.                        *)

\* The server forgets a link with its subscription.
LoseLink ==
  /\ WsLost \/ CloseWs
  /\ uplink' = << >>
  /\ subscription' = Nothing
  /\ UNCHANGED <<callVars, tableVars, dispatchVars>>

\* OnOpen takes the mutex for RegisterEvents.
OpenRegister == EventsMutexFree /\ OnOpenRegister /\ UNCHANGED listenerVars

\* Seeded bug: OnOpen registers nothing.
OpenSendsNothing == OnOpenSendRegister /\ UNCHANGED listenerVars

OpenSendRegister ==
  /\ OnOpenSendRegister
  /\ IF ws = "open" THEN SendMessage ELSE UNCHANGED uplink
  /\ UNCHANGED <<callVars, tableVars, subscription, dispatchVars>>

\* No call is under way when the connection is destroyed.
Destroy ==
  /\ clear # "send"
  /\ \A r \in Listeners : lpc[r] \notin {"flagged", "add_send", "remove_send"}
  /\ Destruct(FALSE)
  /\ uplink' = << >> /\ subscription' = Nothing
  /\ UNCHANGED <<callVars, tableVars, dispatchVars>>

\* The steps that leave the listeners alone; there are no requests here.
ConnOnly ==
  /\ \/ WsOpen \/ OnFail \/ OnClose \/ IoExit
     \/ OnOpenMark \/ OnOpenLock \/ OnOpenDone
     \/ DownTest \/ RetryTest \/ StartFlags \/ StartConnect
     \/ TimeoutCheck \/ TimeoutScan(FALSE) \/ PingThread
     \/ CloseBegin \/ CloseDisconnect \/ CloseJoinPing \/ CloseStop
     \/ CloseJoinIo \/ CloseJoinTimeout \/ CloseClear(FALSE)
  /\ UNCHANGED listenerVars

-------------------------------------------------------------------------------
Sends == \E r \in Listeners : AddSend(r) \/ RemoveSend(r)

Next ==
  \/ \E r \in Listeners : SetSendValues(r) \/ AddListener(r) \/ RemoveListener(r)
  \/ Sends
  \/ RemoveAllListeners \/ RemoveAllSend
  \/ ServerSubscribe
  \/ \E e \in Events, kind \in {"text", "binary"} : Collect(e, kind)
  \/ \E r \in Listeners : RunCallback(r)
  \/ CallbacksDone \/ BinaryThrow
  \/ LoseLink \/ OpenRegister \/ OpenSendRegister \/ Destroy
  \/ ConnOnly

IoSteps ==
  \/ \E r \in Listeners : RunCallback(r)
  \/ CallbacksDone \/ OpenRegister \/ OpenSendRegister
  \/ IoHandler /\ ConnOnly

SafeSpec == Init /\ [][Next]_vars

(***************************************************************************)
(* As in ConnFairness; also callbacks return, calls go on, and a server    *)
(* that is sent a subscription again and again receives it before the link *)
(* is lost.                                                                *)
(***************************************************************************)
Fairness ==
  /\ WF_vars(IoSteps)
  /\ WF_vars(Sends \/ RemoveAllSend)
  /\ WF_vars(TimeoutThread /\ ConnOnly)
  /\ WF_vars(PingThread /\ ConnOnly)
  /\ WF_vars((CloseWs /\ LoseLink) \/ (CloseCall /\ ConnOnly))
  /\ WF_vars((WsOpen \/ OnFail) /\ UNCHANGED listenerVars)
  /\ SF_vars(WsOpen /\ UNCHANGED listenerVars)
  /\ SF_vars(ServerSubscribe)

Spec == SafeSpec /\ Fairness

-------------------------------------------------------------------------------
(* Properties.                                                             *)

\* What the server will hold once it has read the link.
LastSubscription == IF uplink = << >> THEN subscription ELSE uplink[Len(uplink)]

\* The link is up and nobody is about to register.
Settled == connected /\ ws = "open" /\ EventsMutexFree /\ io # "register"

(***************************************************************************)
(* The server's subscription follows the registrations, however calls,     *)
(* drops and OnOpen interleave: on a link that is up, what was last sent   *)
(* lists the event key of every registration and no other pair, and asks   *)
(* for values if a registered listener wants them.                         *)
(***************************************************************************)
SubscriptionAgrees ==
  Settled =>
    /\ \A r \in regs : \E p \in LastSubscription.events : EventKey(p) = EventKey(Pattern[r])
    /\ \A p \in LastSubscription.events : \E r \in regs : Pattern[r] = p
    /\ regs \cap ValueListeners # {} => LastSubscription.values

(***************************************************************************)
(* Once the removal of a listener has returned its callback is started at  *)
(* most once more, for an event that was being dispatched.                 *)
(***************************************************************************)
LateAtMostOnce == \A r \in Listeners : late[r] <= 1

(***************************************************************************)
(* What Fairness asks, with the guards spelled out: the threads go on, a   *)
(* call that holds the mutex returns it, and the server catches up with    *)
(* what is sent to it unless the link is lost first, and not every time.   *)
(***************************************************************************)
ListenersGoOn ==
  /\ ThreadsGoOn
  /\ []<>(EventsMutexFree \/ ~Alive)
  /\ []<>(uplink = << >> \/ ~Alive)
  /\ <>[]~(Alive /\ ws = "open" /\ uplink # << >>) \/ []<><<ServerSubscribe>>_vars

(***************************************************************************)
(* The server hears of every listener in the end, across failed attempts   *)
(* and lost links, unless it is removed, the URL was malformed, the        *)
(* application closes the connection, or the process dies.                 *)
(***************************************************************************)
ListenersGetSubscribed ==
  \A r \in Listeners :
    r \in regs ~> \/ \E p \in subscription.events : EventKey(p) = EventKey(Pattern[r])
                  \/ r \notin regs \/ ws = "absent" \/ CloseBegun \/ ~Alive
===============================================================================
