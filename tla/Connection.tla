------------------------------ MODULE Connection ------------------------------
(***************************************************************************)
(* The life cycle of a CachearooConnection: the threads it owns (the asio  *)
(* I/O thread, the request-timeout thread, the ping thread), the thread    *)
(* that calls close(), the two atomic flags they share and the WebSocket   *)
(* underneath.  The request table is abstracted here to the two ways it    *)
(* can end a thread (the arguments of TimeoutScan and CloseClear); module  *)
(* Requests extends this one and makes the table concrete.                 *)
(***************************************************************************)

CONSTANT EnablePing    \* CachearooSettings::enable_ping

ASSUME EnablePingAssumption == EnablePing \in BOOLEAN

VARIABLES
  connected,       \* connected_
  skip_reconnect,  \* skip_reconnect_
  ws,              \* the WebSocket connection_hdl_ names
  stopped,         \* the asio event loop has been told to stop
  io,              \* where the I/O thread is
  tmo,             \* where the request-timeout thread is
  ping,            \* where the ping thread is
  close,           \* the last step of close() that was completed
  crash            \* the thread whose uncaught exception ended the process

connVars == <<connected, skip_reconnect, ws, stopped, io, tmo, ping, close, crash>>

WsStates == {"absent", "connecting", "open", "closing", "gone"}

\* "run" is the asio loop between two handlers, "none" a thread never started.
IoStates == {"none", "run", "opening", "register", "send_register", "lock", "flush",
             "down", "retry", "start", "connect", "callback", "exit"}

\* "destroyed" is past the destructor, which calls close() a second time.
CloseSteps == {"idle", "skip_set", "disconnected", "ping_joined", "ws_closed", "stopped",
               "io_joined", "timeout_joined", "done", "threw", "destroyed"}

(***************************************************************************)
(* The one type invariant of the module: every variable keeps to the       *)
(* states the code's members and program points can be in.                 *)
(***************************************************************************)
ConnTypeOK ==
  /\ connected \in BOOLEAN
  /\ skip_reconnect \in BOOLEAN
  /\ ws \in WsStates
  /\ stopped \in BOOLEAN
  /\ io \in IoStates
  /\ tmo \in {"check", "sleep", "exit"}
  /\ ping \in {"none", "check", "wait", "test", "send", "exit"}
  /\ close \in CloseSteps
  /\ crash \in {"none", "ping", "register", "timeout", "callback", "destructor"}

Alive == crash = "none"

\* close() has set skip_reconnect_.
CloseBegun == close # "idle"

\* close() has returned, normally or by the exception of its last step.
CloseEnded == close \in {"done", "threw", "destroyed"}

\* A thread close() may join: it ended, or was never started.
Ended(thread) == thread \in {"none", "exit"}

-------------------------------------------------------------------------------
\* Seeded bug: the constructor forgets to start the timeout thread.
ConnInitNoTimeoutThread ==
  /\ connected = FALSE
  /\ skip_reconnect = FALSE
  /\ ws = "connecting" /\ io = "run"
  /\ stopped = FALSE
  /\ tmo = "none"
  /\ ping = IF EnablePing THEN "check" ELSE "none"
  /\ close = "idle"
  /\ crash = "none"

(***************************************************************************)
(* After the constructor: StartConnection has run on the caller's thread   *)
(* and the helper threads exist.  get_connection rejects a malformed URL,  *)
(* the same one on every attempt: then no I/O thread is ever started.      *)
(***************************************************************************)
ConnInit ==
  /\ connected = FALSE
  /\ skip_reconnect = FALSE
  /\ \/ ws = "connecting" /\ io = "run"
     \/ ws = "absent" /\ io = "none"
  /\ stopped = FALSE
  /\ tmo = "check"
  /\ ping = IF EnablePing THEN "check" ELSE "none"
  /\ close = "idle"
  /\ crash = "none"

-------------------------------------------------------------------------------
(* websocketpp on the I/O thread: what the transport reports.              *)

\* The asio loop is free to run a handler.
LoopFree == Alive /\ ~stopped /\ io = "run"

\* The handshake succeeded: the open handler is entered and stores the handle.
WsOpen ==
  /\ LoopFree /\ ws = "connecting"
  /\ ws' = "open"
  /\ io' = "opening"
  /\ UNCHANGED <<connected, skip_reconnect, stopped, tmo, ping, close, crash>>

\* Seeded bug: OnFail reports the error and does not retry.
OnFailNoRetry ==
  /\ LoopFree /\ ws = "connecting"
  /\ ws' = "gone"
  /\ UNCHANGED <<connected, skip_reconnect, stopped, io, tmo, ping, close, crash>>

\* The connection attempt failed: OnFail is entered.
OnFail ==
  /\ LoopFree /\ ws = "connecting"
  /\ ws' = "gone"
  /\ io' = "down"
  /\ UNCHANGED <<connected, skip_reconnect, stopped, tmo, ping, close, crash>>

\* Seeded bug: a second thread runs the asio loop beside the handlers.
WsLostBesideHandler ==
  /\ Alive /\ ~stopped /\ ws = "open"
  /\ ws' = "closing"
  /\ UNCHANGED <<connected, skip_reconnect, stopped, io, tmo, ping, close, crash>>

\* The link dropped or the peer closed: sends fail from here on, and the
\* close handler is still to come.
WsLost ==
  /\ LoopFree /\ ws = "open"
  /\ ws' = "closing"
  /\ UNCHANGED <<connected, skip_reconnect, stopped, io, tmo, ping, close, crash>>

\* OnClose up to the test of skip_reconnect_.
OnClose ==
  /\ LoopFree /\ ws = "closing"
  /\ ws' = "gone"
  /\ connected' = FALSE
  /\ io' = "down"
  /\ UNCHANGED <<skip_reconnect, stopped, tmo, ping, close, crash>>

\* A message runs the application's callback on the I/O thread.
OnEvent ==
  /\ LoopFree /\ ws = "open"
  /\ io' = "callback"
  /\ UNCHANGED <<connected, skip_reconnect, ws, stopped, tmo, ping, close, crash>>

CallbackReturn ==
  /\ Alive /\ io = "callback"
  /\ io' = "run"
  /\ UNCHANGED <<connected, skip_reconnect, ws, stopped, tmo, ping, close, crash>>

\* ProcessBinaryMessage, unlike ProcessStringMessage, catches nothing: an
\* exception of a binary callback leaves the I/O thread.
BinaryCallbackThrows ==
  /\ Alive /\ io = "callback"
  /\ crash' = "callback"
  /\ UNCHANGED <<connected, skip_reconnect, ws, stopped, io, tmo, ping, close>>

\* run() returns once stopped or out of work; the thread ends.
IoExit ==
  /\ Alive /\ io = "run"
  /\ stopped \/ ws = "gone"
  /\ io' = "exit"
  /\ UNCHANGED <<connected, skip_reconnect, ws, stopped, tmo, ping, close, crash>>

-------------------------------------------------------------------------------
(* OnOpen, after its sleep.                                                *)

OnOpenMark ==
  /\ Alive /\ io = "opening"
  /\ connected' = TRUE
  /\ io' = "register"
  /\ UNCHANGED <<skip_reconnect, ws, stopped, tmo, ping, close, crash>>

\* RegisterEvents: its test of connected_ ...
OnOpenRegister ==
  /\ Alive /\ io = "register"
  /\ io' = IF connected THEN "send_register" ELSE "lock"
  /\ UNCHANGED <<connected, skip_reconnect, ws, stopped, tmo, ping, close, crash>>

\* ... and its send, which throws on a link that is no longer open; nothing
\* above it catches.
OnOpenSendRegister ==
  /\ Alive /\ io = "send_register"
  /\ IF ws = "open"
       THEN io' = "lock" /\ UNCHANGED crash
       ELSE crash' = "register" /\ UNCHANGED io
  /\ UNCHANGED <<connected, skip_reconnect, ws, stopped, tmo, ping, close>>

\* pending_message_mutex_ is taken.
OnOpenLock ==
  /\ Alive /\ io = "lock"
  /\ io' = "flush"
  /\ UNCHANGED <<connected, skip_reconnect, ws, stopped, tmo, ping, close, crash>>

\* The queue is empty: the mutex is released and the handler returns.
OnOpenDone ==
  /\ Alive /\ io = "flush"
  /\ io' = "run"
  /\ UNCHANGED <<connected, skip_reconnect, ws, stopped, tmo, ping, close, crash>>

-------------------------------------------------------------------------------
(* Reconnecting: the common tail of OnClose and OnFail, and StartConnection. *)

\* The first test of skip_reconnect_, before the three-second sleep.
DownTest ==
  /\ Alive /\ io = "down"
  /\ io' = IF skip_reconnect THEN "run" ELSE "retry"
  /\ UNCHANGED <<connected, skip_reconnect, ws, stopped, tmo, ping, close, crash>>

\* The second test, after the sleep.
RetryTest ==
  /\ Alive /\ io = "retry"
  /\ io' = IF skip_reconnect THEN "run" ELSE "start"
  /\ UNCHANGED <<connected, skip_reconnect, ws, stopped, tmo, ping, close, crash>>

\* StartConnection resets both flags, whatever close() did in between.
StartFlags ==
  /\ Alive /\ io = "start"
  /\ skip_reconnect' = FALSE
  /\ connected' = FALSE
  /\ io' = "connect"
  /\ UNCHANGED <<ws, stopped, tmo, ping, close, crash>>

\* Seeded bug: the retry loops without waiting for its attempt to end.
StartConnectTwice ==
  /\ Alive /\ io = "connect"
  /\ ws' = "connecting"
  /\ io' = "down"
  /\ UNCHANGED <<connected, skip_reconnect, stopped, tmo, ping, close, crash>>

\* ... and replaces connection_hdl_ by a connection that is being made.
StartConnect ==
  /\ Alive /\ io = "connect"
  /\ ws' = "connecting"
  /\ io' = "run"
  /\ UNCHANGED <<connected, skip_reconnect, stopped, tmo, ping, close, crash>>

-------------------------------------------------------------------------------
(* CheckRequestTimeouts, on its own thread.                                *)

TimeoutCheck ==
  /\ Alive /\ tmo = "check"
  /\ tmo' = IF skip_reconnect THEN "exit" ELSE "sleep"
  /\ UNCHANGED <<connected, skip_reconnect, ws, stopped, io, ping, close, crash>>

\* One pass over the table; set_exception on a satisfied promise throws, and
\* nothing on this thread catches.
TimeoutScan(throws) ==
  /\ Alive /\ tmo = "sleep"
  /\ IF throws
       THEN crash' = "timeout" /\ UNCHANGED tmo
       ELSE tmo' = "check" /\ UNCHANGED crash
  /\ UNCHANGED <<connected, skip_reconnect, ws, stopped, io, ping, close>>

-------------------------------------------------------------------------------
(* The ping thread.                                                        *)

PingCheck ==
  /\ Alive /\ ping = "check"
  /\ ping' = IF skip_reconnect THEN "exit" ELSE "wait"
  /\ UNCHANGED <<connected, skip_reconnect, ws, stopped, io, tmo, close, crash>>

\* wait_for ends, by its interval or by close()'s notification.
PingWake ==
  /\ Alive /\ ping = "wait"
  /\ ping' = "test"
  /\ UNCHANGED <<connected, skip_reconnect, ws, stopped, io, tmo, close, crash>>

PingTest ==
  /\ Alive /\ ping = "test"
  /\ ping' = IF ~skip_reconnect /\ connected THEN "send" ELSE "check"
  /\ UNCHANGED <<connected, skip_reconnect, ws, stopped, io, tmo, close, crash>>

\* The throwing overload of send, outside any try block.
PingSend ==
  /\ Alive /\ ping = "send"
  /\ IF ws = "open"
       THEN ping' = "check" /\ UNCHANGED crash
       ELSE crash' = "ping" /\ UNCHANGED ping
  /\ UNCHANGED <<connected, skip_reconnect, ws, stopped, io, tmo, close>>

-------------------------------------------------------------------------------
(* close(), on a thread of the application.                                *)

CloseBegin ==
  /\ Alive /\ close = "idle"
  /\ skip_reconnect' = TRUE
  /\ close' = "skip_set"
  /\ UNCHANGED <<connected, ws, stopped, io, tmo, ping, crash>>

CloseDisconnect ==
  /\ Alive /\ close = "skip_set"
  /\ connected' = FALSE
  /\ close' = "disconnected"
  /\ UNCHANGED <<skip_reconnect, ws, stopped, io, tmo, ping, crash>>

\* Seeded bug: close() notifies the ping thread and does not join it.
CloseNotifyPing ==
  /\ Alive /\ close = "disconnected"
  /\ close' = "ping_joined"
  /\ UNCHANGED <<connected, skip_reconnect, ws, stopped, io, tmo, ping, crash>>

CloseJoinPing ==
  /\ Alive /\ close = "disconnected" /\ Ended(ping)
  /\ close' = "ping_joined"
  /\ UNCHANGED <<connected, skip_reconnect, ws, stopped, io, tmo, ping, crash>>

\* Only an open link starts its closing handshake; other errors are swallowed.
CloseWs ==
  /\ Alive /\ close = "ping_joined"
  /\ ws' = IF ws = "open" THEN "closing" ELSE ws
  /\ close' = "ws_closed"
  /\ UNCHANGED <<connected, skip_reconnect, stopped, io, tmo, ping, crash>>

\* Seeded bug: close() relies on the closing handshake to end the loop.
CloseNoStop ==
  /\ Alive /\ close = "ws_closed"
  /\ close' = "stopped"
  /\ UNCHANGED <<connected, skip_reconnect, ws, stopped, io, tmo, ping, crash>>

CloseStop ==
  /\ Alive /\ close = "ws_closed"
  /\ stopped' = TRUE
  /\ close' = "stopped"
  /\ UNCHANGED <<connected, skip_reconnect, ws, io, tmo, ping, crash>>

CloseJoinIo ==
  /\ Alive /\ close = "stopped" /\ Ended(io)
  /\ close' = "io_joined"
  /\ UNCHANGED <<connected, skip_reconnect, ws, stopped, io, tmo, ping, crash>>

\* Seeded bug: close() does not wait for the timeout thread.
CloseDetachTimeout ==
  /\ Alive /\ close = "io_joined"
  /\ close' = "timeout_joined"
  /\ UNCHANGED <<connected, skip_reconnect, ws, stopped, io, tmo, ping, crash>>

CloseJoinTimeout ==
  /\ Alive /\ close = "io_joined" /\ Ended(tmo)
  /\ close' = "timeout_joined"
  /\ UNCHANGED <<connected, skip_reconnect, ws, stopped, io, tmo, ping, crash>>

\* The table is failed and cleared; a satisfied promise in it makes close throw.
CloseClear(throws) ==
  /\ Alive /\ close = "timeout_joined"
  /\ close' = IF throws THEN "threw" ELSE "done"
  /\ UNCHANGED <<connected, skip_reconnect, ws, stopped, io, tmo, ping, crash>>

\* ~CachearooConnection after close(): the flags are set again, every thread is
\* gone, and a satisfied promise throws out of a destructor.
Destruct(throws) ==
  /\ Alive /\ close \in {"done", "threw"}
  /\ skip_reconnect' = TRUE
  /\ connected' = FALSE
  /\ ws' = IF ws = "open" THEN "closing" ELSE ws
  /\ IF throws
       THEN crash' = "destructor" /\ UNCHANGED close
       ELSE close' = "destroyed" /\ UNCHANGED crash
  /\ UNCHANGED <<stopped, io, tmo, ping>>

-------------------------------------------------------------------------------
Transport == WsOpen \/ OnFail \/ WsLost \/ OnEvent

IoHandler ==
  \/ OnClose \/ CallbackReturn \/ IoExit
  \/ OnOpenMark \/ OnOpenRegister \/ OnOpenSendRegister \/ OnOpenLock \/ OnOpenDone
  \/ DownTest \/ RetryTest \/ StartFlags \/ StartConnect

TimeoutThread == TimeoutCheck \/ \E throws \in BOOLEAN : TimeoutScan(throws)

PingThread == PingCheck \/ PingWake \/ PingTest \/ PingSend

\* close() once it has been called.
CloseCall ==
  \/ CloseDisconnect \/ CloseJoinPing \/ CloseWs \/ CloseStop
  \/ CloseJoinIo \/ CloseJoinTimeout
  \/ \E throws \in BOOLEAN : CloseClear(throws)

ConnNext ==
  \/ Transport \/ IoHandler \/ TimeoutThread \/ PingThread
  \/ BinaryCallbackThrows
  \/ CloseBegin \/ CloseCall
  \/ \E throws \in BOOLEAN : Destruct(throws)

(***************************************************************************)
(* The operating system schedules every thread; an attempt to connect      *)
(* succeeds or fails; and a server that could be reached again and again   *)
(* is reached at last.  Nobody owes a lost link, a message or a close().   *)
(***************************************************************************)
ConnFairness ==
  /\ WF_connVars(IoHandler)
  /\ WF_connVars(TimeoutThread)
  /\ WF_connVars(PingThread)
  /\ WF_connVars(CloseCall)
  /\ WF_connVars(WsOpen \/ OnFail)
  /\ SF_connVars(WsOpen)

ConnSafeSpec == ConnInit /\ [][ConnNext]_connVars

ConnSpec == ConnSafeSpec /\ ConnFairness

\* What ConnFairness asks of the threads, with the guards spelled out.
IoReady ==
  Alive /\ ~Ended(io) /\ (io = "run" => stopped \/ ws \in {"closing", "gone"})

CloseReady ==
  /\ Alive
  /\ \/ close \in {"skip_set", "ping_joined", "ws_closed", "timeout_joined"}
     \/ close = "disconnected" /\ Ended(ping)
     \/ close = "stopped" /\ Ended(io)
     \/ close = "io_joined" /\ Ended(tmo)

ConnectReady == LoopFree /\ ws = "connecting"

-------------------------------------------------------------------------------
(* Properties.                                                             *)

(***************************************************************************)
(* connected_ never outlives its link: while it reads true the handle is   *)
(* open, or it was lost so recently that OnClose has not run yet.          *)
(***************************************************************************)
ConnectedHasLink == connected => ws \in {"open", "closing"}

(***************************************************************************)
(* A reconnect never replaces a live connection: from the moment a handler *)
(* decides to reconnect until connect() is called, the previous link is    *)
(* gone and connected_ is false.                                           *)
(***************************************************************************)
NoLinkReplaced ==
  io \in {"down", "retry", "start", "connect"} => ws = "gone" /\ ~connected

(***************************************************************************)
(* The throwing send of RegisterEvents in OnOpen ends the process only     *)
(* when close() took the link away under it; a drop alone cannot, because  *)
(* the I/O thread that would notice it is the one inside OnOpen.           *)
(***************************************************************************)
RegisterCrashNeedsClose ==
  crash = "register" => close \in {"ws_closed", "stopped"}

(***************************************************************************)
(* The ping thread's uncaught throw needs a drop the handlers have not     *)
(* finished with: close() cannot provoke it, since it joins the ping       *)
(* thread before it touches the link.                                      *)
(***************************************************************************)
PingNotKilledByClose ==
  close \in {"ping_joined", "ws_closed", "stopped", "io_joined",
             "timeout_joined", "done", "threw", "destroyed"} => Ended(ping) /\ crash # "ping"

(***************************************************************************)
(* When close() returns every thread of the connection has ended, so the   *)
(* members they use may be destroyed.                                      *)
(***************************************************************************)
NoThreadOutlivesClose == CloseEnded => Ended(io) /\ Ended(tmo) /\ Ended(ping)

(***************************************************************************)
(* Every thread of the connection goes on as long as the process lives: a  *)
(* handler, a pass of a helper thread or a step of close() that could be   *)
(* taken is taken, also where a mutex is in the way; an attempt to connect *)
(* ends, and does not fail for ever.                                       *)
(***************************************************************************)
ThreadsGoOn ==
  /\ []<>~IoReady \/ []<><<IoHandler>>_connVars
  /\ []<>~(Alive /\ ~Ended(tmo)) \/ []<><<TimeoutThread>>_connVars
  /\ []<>~(Alive /\ ~Ended(ping)) \/ []<><<PingThread>>_connVars
  /\ []<>~CloseReady \/ []<><<CloseCall>>_connVars
  /\ []<>~ConnectReady \/ []<><<WsOpen \/ OnFail>>_connVars
  /\ <>[]~ConnectReady \/ []<><<WsOpen>>_connVars

(***************************************************************************)
(* Automatic reconnection: a connection that is down comes up again unless *)
(* the application closes it or the process dies.                          *)
(***************************************************************************)
Reconnects == ws = "gone" ~> (connected \/ CloseBegun \/ ~Alive)

(***************************************************************************)
(* The documented clean shutdown (README.md: "Always call close()", "Clean *)
(* shutdown"): a call of close() returns.                                  *)
(***************************************************************************)
CloseReturns == CloseBegun ~> (CloseEnded \/ ~Alive)

(***************************************************************************)
(* What the code gives of it: close() returns provided no StartConnection  *)
(* undoes its flag on the way.                                             *)
(***************************************************************************)
CloseReturnsIfFlagKept == [](CloseBegun => skip_reconnect) => CloseReturns
=============================================================================
