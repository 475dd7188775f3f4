--------------------------- MODULE ConnectionProofs ---------------------------
(***************************************************************************)
(* The properties of module Connection, for a connection with or without   *)
(* pings.  ConnInv is inductive: it adds to the safety properties where    *)
(* the handlers' link can be, and which threads each step of close() has   *)
(* already outlived.  The liveness properties follow from ThreadsGoOn, the *)
(* progress of each thread that the fairness of ConnSpec gives.            *)
(***************************************************************************)
EXTENDS Connection, TLAPS

\* A handler or callback of an opened link runs on that link or its remains.
HandlerHasLink ==
  io \in {"opening", "register", "send_register", "lock", "flush", "callback"} => ws \in {"open", "closing"}

\* Until OnOpen has registered the events, only close() can take its link.
OpeningLinkIsOpen ==
  io \in {"opening", "register", "send_register"} =>
    ws = "open" \/ close \in {"ws_closed", "stopped"}

\* The uncaught throw of RegisterEvents leaves the I/O thread where it was.
RegisterCrashInHandler == crash = "register" => io = "send_register" /\ ws # "open"

\* What each join of close() has established.
JoinsHold ==
  /\ close \in {"io_joined", "timeout_joined", "done", "threw", "destroyed"} => Ended(io)
  /\ close \in {"timeout_joined", "done", "threw", "destroyed"} => Ended(tmo)

ConnInv ==
  /\ ConnTypeOK
  /\ ConnectedHasLink
  /\ NoLinkReplaced
  /\ HandlerHasLink
  /\ OpeningLinkIsOpen
  /\ RegisterCrashInHandler
  /\ PingNotKilledByClose
  /\ JoinsHold

(***************************************************************************)
(* The invariant carries the properties the runs check.                    *)
(***************************************************************************)
LEMMA ConnInvImplies ==
  ConnInv => RegisterCrashNeedsClose /\ NoThreadOutlivesClose
<1> SUFFICES ASSUME ConnInv
             PROVE  RegisterCrashNeedsClose /\ NoThreadOutlivesClose
  OBVIOUS
<1>1. RegisterCrashNeedsClose
  BY DEF ConnInv, RegisterCrashNeedsClose, RegisterCrashInHandler, OpeningLinkIsOpen
<1>2. NoThreadOutlivesClose
  BY DEF ConnInv, NoThreadOutlivesClose, JoinsHold, PingNotKilledByClose, CloseEnded
<1>3. QED
  BY <1>1, <1>2

(***************************************************************************)
(* The constructor establishes the invariant.                              *)
(***************************************************************************)
LEMMA ConnInvInit == ConnInit => ConnInv
BY EnablePingAssumption
   DEF ConnInit, ConnInv, ConnTypeOK, WsStates, IoStates, CloseSteps, ConnectedHasLink,
       NoLinkReplaced, HandlerHasLink, OpeningLinkIsOpen, RegisterCrashInHandler,
       PingNotKilledByClose, JoinsHold

(***************************************************************************)
(* What websocketpp reports preserves it: each report finds the I/O thread *)
(* between two handlers.                                                   *)
(***************************************************************************)
LEMMA TransportStep == ConnInv /\ Transport => ConnInv'
<1> SUFFICES ASSUME ConnInv, Transport
             PROVE  ConnInv'
  OBVIOUS
<1> USE DEF ConnInv, ConnTypeOK, WsStates, IoStates, CloseSteps, ConnectedHasLink,
            NoLinkReplaced, HandlerHasLink, OpeningLinkIsOpen, RegisterCrashInHandler,
            PingNotKilledByClose, JoinsHold, Ended, LoopFree, Alive
<1>1. CASE WsOpen  BY <1>1 DEF WsOpen
<1>2. CASE OnFail  BY <1>2 DEF OnFail
<1>3. CASE WsLost  BY <1>3 DEF WsLost
<1>4. CASE OnEvent BY <1>4 DEF OnEvent
<1>5. QED
  BY <1>1, <1>2, <1>3, <1>4 DEF Transport

(***************************************************************************)
(* Whoever clears connected_ preserves it: OnClose, StartConnection,       *)
(* close() and the destructor.                                             *)
(***************************************************************************)
LEMMA DisconnectStep ==
  ASSUME ConnInv,
         \/ OnClose \/ StartFlags \/ CloseDisconnect
         \/ \E throws \in BOOLEAN : Destruct(throws)
  PROVE  ConnInv'
<1>1. connected' = FALSE
  BY DEF OnClose, StartFlags, CloseDisconnect, Destruct
<1>2. /\ skip_reconnect' \in BOOLEAN /\ ws' \in WsStates /\ io' \in IoStates
      /\ close' \in CloseSteps
      /\ crash' \in {"none", "ping", "register", "timeout", "callback", "destructor"}
      /\ UNCHANGED <<stopped, tmo, ping>>
  BY DEF OnClose, StartFlags, CloseDisconnect, Destruct, ConnInv, ConnTypeOK, WsStates, IoStates,
         CloseSteps
<1>3. ConnTypeOK'
  BY <1>1, <1>2 DEF ConnInv, ConnTypeOK
<1>4. ConnectedHasLink'
  BY <1>1 DEF ConnectedHasLink
<1>5. CASE OnClose
  BY <1>1, <1>3, <1>4, <1>5
     DEF OnClose, LoopFree, Alive, ConnInv, ConnTypeOK, NoLinkReplaced, HandlerHasLink,
         OpeningLinkIsOpen, RegisterCrashInHandler, PingNotKilledByClose, JoinsHold, Ended
<1>6. CASE StartFlags \/ CloseDisconnect
  BY <1>1, <1>3, <1>4, <1>6
     DEF StartFlags, CloseDisconnect, Alive, ConnInv, ConnTypeOK, NoLinkReplaced,
         HandlerHasLink, OpeningLinkIsOpen, RegisterCrashInHandler, PingNotKilledByClose,
         JoinsHold, Ended
<1>7. CASE \E throws \in BOOLEAN : Destruct(throws)
  <2>1. /\ close \in {"done", "threw"} /\ crash = "none"
        /\ close' \in {"done", "threw", "destroyed"} /\ crash' \in {"none", "destructor"}
        /\ UNCHANGED <<io, tmo, ping>>
    BY <1>7 DEF Destruct, Alive
  <2>2. Ended(io) /\ Ended(tmo) /\ Ended(ping)
    BY <2>1 DEF ConnInv, JoinsHold, PingNotKilledByClose
  <2>3. NoLinkReplaced' /\ HandlerHasLink' /\ OpeningLinkIsOpen' /\ RegisterCrashInHandler'
    BY <2>1, <2>2 DEF Ended, NoLinkReplaced, HandlerHasLink, OpeningLinkIsOpen,
                      RegisterCrashInHandler
  <2>4. PingNotKilledByClose' /\ JoinsHold'
    BY <2>1, <2>2 DEF Ended, PingNotKilledByClose, JoinsHold
  <2>5. QED
    BY <1>3, <1>4, <2>3, <2>4 DEF ConnInv
<1>8. QED
  BY <1>5, <1>6, <1>7

(***************************************************************************)
(* The handlers preserve it: OnOpen sets connected_ on its own link only,  *)
(* OnClose clears it before a reconnect is considered.                     *)
(***************************************************************************)
LEMMA IoHandlerStep == ConnInv /\ (IoHandler \/ BinaryCallbackThrows) => ConnInv'
<1> SUFFICES ASSUME ConnInv, IoHandler \/ BinaryCallbackThrows
             PROVE  ConnInv'
  OBVIOUS
<1> USE DEF ConnInv, ConnTypeOK, WsStates, IoStates, CloseSteps, ConnectedHasLink,
            NoLinkReplaced, HandlerHasLink, OpeningLinkIsOpen, RegisterCrashInHandler,
            PingNotKilledByClose, JoinsHold, Ended, LoopFree, Alive
<1>1. CASE OnClose         BY ONLY ConnInv, <1>1, DisconnectStep
<1>2. CASE CallbackReturn  BY <1>2 DEF CallbackReturn
<1>3. CASE IoExit          BY <1>3 DEF IoExit
<1>4. CASE OnOpenMark      BY <1>4 DEF OnOpenMark
<1>5. CASE OnOpenRegister  BY <1>5 DEF OnOpenRegister
<1>6. CASE OnOpenLock      BY <1>6 DEF OnOpenLock
<1>7. CASE OnOpenDone      BY <1>7 DEF OnOpenDone
<1>8. CASE DownTest        BY <1>8 DEF DownTest
<1>9. CASE RetryTest       BY <1>9 DEF RetryTest
<1>10. CASE StartFlags     BY ONLY ConnInv, <1>10, DisconnectStep
<1>11. CASE StartConnect   BY <1>11 DEF StartConnect
<1>12. CASE OnOpenSendRegister BY <1>12 DEF OnOpenSendRegister
<1>13. CASE BinaryCallbackThrows BY <1>13 DEF BinaryCallbackThrows
<1>14. QED
  BY <1>1, <1>2, <1>3, <1>4, <1>5, <1>6, <1>7, <1>8, <1>9, <1>10, <1>11, <1>12, <1>13
     DEF IoHandler

(***************************************************************************)
(* The timeout and ping threads preserve it.                               *)
(***************************************************************************)
LEMMA HelperThreadStep == ConnInv /\ (TimeoutThread \/ PingThread) => ConnInv'
<1> SUFFICES ASSUME ConnInv, TimeoutThread \/ PingThread
             PROVE  ConnInv'
  OBVIOUS
<1> USE DEF ConnInv, ConnTypeOK, WsStates, IoStates, CloseSteps, ConnectedHasLink,
            NoLinkReplaced, HandlerHasLink, OpeningLinkIsOpen, RegisterCrashInHandler,
            PingNotKilledByClose, JoinsHold, Ended, Alive
<1>1. CASE TimeoutCheck BY <1>1 DEF TimeoutCheck
<1>2. ASSUME NEW throws \in BOOLEAN, TimeoutScan(throws)
      PROVE  ConnInv'
  BY <1>2 DEF TimeoutScan
<1>3. CASE PingCheck BY <1>3 DEF PingCheck
<1>4. CASE PingWake  BY <1>4 DEF PingWake
<1>5. CASE PingTest  BY <1>5 DEF PingTest
<1>6. CASE PingSend  BY <1>6 DEF PingSend
<1>7. QED
  BY <1>1, <1>2, <1>3, <1>4, <1>5, <1>6 DEF TimeoutThread, PingThread

(***************************************************************************)
(* close() preserves it: a join is passed only by a thread that ended, and *)
(* an ended thread stays ended.  The destructor finds no thread at all.    *)
(***************************************************************************)
LEMMA CloseStep ==
  ASSUME ConnInv, CloseBegin \/ CloseCall \/ \E throws \in BOOLEAN : Destruct(throws)
  PROVE  ConnInv'
<1> USE DEF ConnInv, ConnTypeOK, WsStates, IoStates, CloseSteps, ConnectedHasLink,
            NoLinkReplaced, HandlerHasLink, OpeningLinkIsOpen, RegisterCrashInHandler,
            PingNotKilledByClose, JoinsHold, Ended, Alive
<1>1. CASE CloseBegin       BY <1>1 DEF CloseBegin
<1>2. CASE CloseDisconnect  BY ONLY ConnInv, <1>2, DisconnectStep
<1>3. CASE CloseJoinPing    BY <1>3 DEF CloseJoinPing
<1>4. CASE CloseWs          BY <1>4 DEF CloseWs
<1>5. CASE CloseStop        BY <1>5 DEF CloseStop
<1>6. CASE CloseJoinIo      BY <1>6 DEF CloseJoinIo
<1>7. CASE CloseJoinTimeout BY <1>7 DEF CloseJoinTimeout
<1>8. ASSUME NEW throws \in BOOLEAN, CloseClear(throws)
      PROVE  ConnInv'
  BY <1>8 DEF CloseClear
<1>9. ASSUME NEW throws \in BOOLEAN, Destruct(throws)
      PROVE  ConnInv'
  BY ONLY ConnInv, <1>9, DisconnectStep
<1>10. QED
  BY <1>1, <1>2, <1>3, <1>4, <1>5, <1>6, <1>7, <1>8, <1>9 DEF CloseCall

(***************************************************************************)
(* Every step preserves the invariant.                                     *)
(***************************************************************************)
LEMMA ConnInvStep == ConnInv /\ [ConnNext]_connVars => ConnInv'
<1> SUFFICES ASSUME ConnInv, [ConnNext]_connVars
             PROVE  ConnInv'
  OBVIOUS
<1>1. CASE Transport  BY <1>1, TransportStep
<1>2. CASE IoHandler \/ BinaryCallbackThrows  BY <1>2, IoHandlerStep
<1>3. CASE TimeoutThread \/ PingThread  BY <1>3, HelperThreadStep
<1>4. CASE CloseBegin \/ CloseCall \/ \E throws \in BOOLEAN : Destruct(throws)
  BY <1>4, CloseStep
<1>5. CASE UNCHANGED connVars
  BY <1>5 DEF connVars, ConnInv, ConnTypeOK, ConnectedHasLink, NoLinkReplaced,
              HandlerHasLink, OpeningLinkIsOpen, RegisterCrashInHandler,
              PingNotKilledByClose, JoinsHold, Ended
<1>6. QED
  BY <1>1, <1>2, <1>3, <1>4, <1>5 DEF ConnNext

(***************************************************************************)
(* The invariant holds throughout.                                         *)
(***************************************************************************)
THEOREM ConnInvHolds == ConnSafeSpec => []ConnInv
<1>1. ConnInit => ConnInv
  BY ConnInvInit
<1>2. ConnInv /\ [ConnNext]_connVars => ConnInv'
  BY ConnInvStep
<1>3. QED
  BY <1>1, <1>2, PTL DEF ConnSafeSpec

(***************************************************************************)
(* Every variable keeps its type.                                          *)
(***************************************************************************)
THEOREM ConnTypeCorrect == ConnSafeSpec => []ConnTypeOK
<1>1. ConnInv => ConnTypeOK
  BY DEF ConnInv
<1>2. QED
  BY <1>1, ConnInvHolds, PTL

(***************************************************************************)
(* connected_ is never true without an open or just-lost link.             *)
(***************************************************************************)
THEOREM ConnectedImpliesLink == ConnSafeSpec => []ConnectedHasLink
<1>1. ConnInv => ConnectedHasLink
  BY DEF ConnInv
<1>2. QED
  BY <1>1, ConnInvHolds, PTL

(***************************************************************************)
(* StartConnection never replaces a live link on a reconnect.              *)
(***************************************************************************)
THEOREM ReconnectReplacesNothing == ConnSafeSpec => []NoLinkReplaced
<1>1. ConnInv => NoLinkReplaced
  BY DEF ConnInv
<1>2. QED
  BY <1>1, ConnInvHolds, PTL

(***************************************************************************)
(* OnOpen's uncaught throw needs a close() in flight.                      *)
(***************************************************************************)
THEOREM RegisterCrashCause == ConnSafeSpec => []RegisterCrashNeedsClose
<1>1. ConnInv => RegisterCrashNeedsClose
  BY ConnInvImplies
<1>2. QED
  BY <1>1, ConnInvHolds, PTL

(***************************************************************************)
(* close() cannot make the ping thread throw.                              *)
(***************************************************************************)
THEOREM PingOutOfReach == ConnSafeSpec => []PingNotKilledByClose
<1>1. ConnInv => PingNotKilledByClose
  BY DEF ConnInv
<1>2. QED
  BY <1>1, ConnInvHolds, PTL

(***************************************************************************)
(* After close() the connection has no thread left.                        *)
(***************************************************************************)
THEOREM CloseLeavesNoThread == ConnSafeSpec => []NoThreadOutlivesClose
<1>1. ConnInv => NoThreadOutlivesClose
  BY ConnInvImplies
<1>2. QED
  BY <1>1, ConnInvHolds, PTL

-------------------------------------------------------------------------------
(***************************************************************************)
(* Liveness.  Fairness enters as ThreadsGoOn, whose guards are spelled out *)
(* because the prover knows nothing of ENABLED.                            *)
(***************************************************************************)

\* Before close() neither flag of it is set, and a link that is gone is being
\* replaced.
RetryInv ==
  /\ skip_reconnect \/ stopped => CloseBegun
  /\ ws = "gone" /\ ~CloseBegun => io \in {"down", "retry", "start", "connect"}

LEMMA RetryInvHolds == ConnSafeSpec => []RetryInv
<1>1. ConnInit => RetryInv
  BY DEF ConnInit, RetryInv
<1>2. ConnInv /\ RetryInv /\ [ConnNext]_connVars => RetryInv'
  <2> SUFFICES ASSUME ConnInv, RetryInv, [ConnNext]_connVars
               PROVE  RetryInv'
    OBVIOUS
  <2> USE DEF RetryInv, CloseBegun
  <2>1. CASE Transport
    BY <2>1 DEF Transport, WsOpen, OnFail, WsLost, OnEvent, LoopFree
  <2>2. CASE IoHandler \/ BinaryCallbackThrows
    BY <2>2 DEF ConnInv, HandlerHasLink, IoHandler, BinaryCallbackThrows, OnClose, CallbackReturn, IoExit, OnOpenMark,
                OnOpenRegister, OnOpenSendRegister, OnOpenLock, OnOpenDone, DownTest, RetryTest,
                StartFlags, StartConnect, LoopFree
  <2>3. CASE TimeoutThread \/ PingThread
    BY <2>3 DEF TimeoutThread, TimeoutCheck, TimeoutScan, PingThread, PingCheck, PingWake,
                PingTest, PingSend
  <2>4. CASE CloseBegin \/ CloseCall \/ \E throws \in BOOLEAN : Destruct(throws)
    BY <2>4 DEF CloseBegin, CloseCall, CloseDisconnect, CloseJoinPing, CloseWs, CloseStop,
                CloseJoinIo, CloseJoinTimeout, CloseClear, Destruct
  <2>5. CASE UNCHANGED connVars
    BY <2>5 DEF connVars
  <2>6. QED
    BY <2>1, <2>2, <2>3, <2>4, <2>5 DEF ConnNext
<1>3. QED
  BY <1>1, <1>2, ConnInvHolds, PTL DEF ConnSafeSpec

\* Where a reconnect can be: in its handler, under way, or in OnOpen.
Retrying(i) == Alive /\ ~CloseBegun /\ io = i /\ ws = "gone"
Connecting == Alive /\ ~CloseBegun /\ io = "run" /\ ws = "connecting"
Opening == Alive /\ io = "opening"
UpOrOver == connected \/ CloseBegun \/ ~Alive

(***************************************************************************)
(* The steps that can leave a reconnect where it is, and the ones that     *)
(* take it further.                                                        *)
(***************************************************************************)
LEMMA ReconnectSteps ==
  ASSUME ConnInv, RetryInv, [ConnNext]_connVars
  PROVE  /\ Retrying("down") => \/ Retrying("down")' /\ ~<<IoHandler>>_connVars
                                \/ Retrying("retry")' \/ UpOrOver'
         /\ Retrying("retry") => \/ Retrying("retry")' /\ ~<<IoHandler>>_connVars
                                 \/ Retrying("start")' \/ UpOrOver'
         /\ Retrying("start") => \/ Retrying("start")' /\ ~<<IoHandler>>_connVars
                                 \/ Retrying("connect")' \/ UpOrOver'
         /\ Retrying("connect") => \/ Retrying("connect")' /\ ~<<IoHandler>>_connVars
                                   \/ Connecting' \/ UpOrOver'
         /\ Connecting => \/ Connecting' /\ ~<<WsOpen \/ OnFail>>_connVars
                          \/ Retrying("down")' \/ Opening' \/ UpOrOver'
         /\ <<WsOpen>>_connVars => Opening'
         /\ Opening => (Opening' /\ ~<<IoHandler>>_connVars) \/ UpOrOver'
<1> USE DEF ConnInv, ConnTypeOK, RetryInv, CloseBegun, Retrying, Connecting, Opening, UpOrOver, Alive
<1>1. CASE Transport
  BY <1>1 DEF Transport, WsOpen, OnFail, WsLost, OnEvent, LoopFree, IoHandler, OnClose,
              CallbackReturn, IoExit, OnOpenMark, OnOpenRegister, OnOpenSendRegister,
              OnOpenLock, OnOpenDone, DownTest, RetryTest, StartFlags, StartConnect
<1>2. CASE IoHandler \/ BinaryCallbackThrows
  BY <1>2 DEF IoHandler, BinaryCallbackThrows, OnClose, CallbackReturn, IoExit, OnOpenMark,
              OnOpenRegister, OnOpenSendRegister, OnOpenLock, OnOpenDone, DownTest, RetryTest,
              StartFlags, StartConnect, LoopFree, WsOpen, OnFail
<1>3. CASE TimeoutThread \/ PingThread
  BY <1>3 DEF TimeoutThread, TimeoutCheck, TimeoutScan, PingThread, PingCheck, PingWake,
              PingTest, PingSend, WsOpen, OnFail, LoopFree, IoHandler, OnClose,
              CallbackReturn, IoExit, OnOpenMark, OnOpenRegister, OnOpenSendRegister,
              OnOpenLock, OnOpenDone, DownTest, RetryTest, StartFlags, StartConnect
<1>4. CASE CloseBegin \/ CloseCall \/ \E throws \in BOOLEAN : Destruct(throws)
  BY <1>4 DEF CloseBegin, CloseCall, CloseDisconnect, CloseJoinPing, CloseWs, CloseStop,
              CloseJoinIo, CloseJoinTimeout, CloseClear, Destruct, WsOpen
<1>5. CASE UNCHANGED connVars
  BY <1>5 DEF connVars
<1>6. QED
  BY <1>1, <1>2, <1>3, <1>4, <1>5 DEF ConnNext

(***************************************************************************)
(* A connection that is down comes up again: the handler that noticed it   *)
(* retries after each failed attempt, and not all attempts fail.           *)
(***************************************************************************)
THEOREM ConnectionComesBack == ConnSafeSpec /\ ThreadsGoOn => Reconnects
<1>1. RetryInv /\ ws = "gone" =>
        \/ Retrying("down") \/ Retrying("retry") \/ Retrying("start") \/ Retrying("connect")
        \/ UpOrOver
  BY DEF RetryInv, Retrying, UpOrOver
<1>2. /\ Retrying("down") \/ Retrying("retry") \/ Retrying("start") \/ Retrying("connect")
           \/ Opening => IoReady
      /\ ConnInv /\ RetryInv /\ Connecting => ConnectReady \/ UpOrOver
  BY DEF Retrying, Opening, Connecting, UpOrOver, IoReady, ConnectReady, RetryInv, LoopFree, Ended
<1>3. ConnInv /\ RetryInv /\ [ConnNext]_connVars =>
        /\ Retrying("down") => \/ Retrying("down")' /\ ~<<IoHandler>>_connVars
                               \/ Retrying("retry")' \/ UpOrOver'
        /\ Retrying("retry") => \/ Retrying("retry")' /\ ~<<IoHandler>>_connVars
                                \/ Retrying("start")' \/ UpOrOver'
        /\ Retrying("start") => \/ Retrying("start")' /\ ~<<IoHandler>>_connVars
                                \/ Retrying("connect")' \/ UpOrOver'
        /\ Retrying("connect") => \/ Retrying("connect")' /\ ~<<IoHandler>>_connVars
                                  \/ Connecting' \/ UpOrOver'
        /\ Connecting => \/ Connecting' /\ ~<<WsOpen \/ OnFail>>_connVars
                         \/ Retrying("down")' \/ Opening' \/ UpOrOver'
        /\ <<WsOpen>>_connVars => Opening'
        /\ Opening => (Opening' /\ ~<<IoHandler>>_connVars) \/ UpOrOver'
  BY ReconnectSteps
<1>4. QED
  BY <1>1, <1>2, <1>3, ConnInvHolds, RetryInvHolds, PTL
     DEF ConnSafeSpec, ThreadsGoOn, Reconnects, UpOrOver

-------------------------------------------------------------------------------
(* close() with its flag kept: the threads end one after the other.        *)

FlagKept == CloseBegun => skip_reconnect

\* The loop is told to stop before the I/O thread is joined.
StopInv == close \in {"stopped", "io_joined", "timeout_joined"} => stopped

LEMMA StopInvHolds == ConnSafeSpec => []StopInv
<1>1. ConnInit => StopInv
  BY DEF ConnInit, StopInv
<1>2. StopInv /\ [ConnNext]_connVars => StopInv'
  BY DEF StopInv, ConnNext, Transport, WsOpen, OnFail, WsLost, OnEvent, IoHandler,
         BinaryCallbackThrows, OnClose, CallbackReturn, IoExit, OnOpenMark, OnOpenRegister,
         OnOpenSendRegister, OnOpenLock, OnOpenDone, DownTest, RetryTest, StartFlags,
         StartConnect, TimeoutThread, TimeoutCheck, TimeoutScan, PingThread, PingCheck, PingWake,
         PingTest, PingSend, CloseBegin, CloseCall, CloseDisconnect, CloseJoinPing, CloseWs,
         CloseStop, CloseJoinIo, CloseJoinTimeout, CloseClear, Destruct, connVars
<1>3. QED
  BY <1>1, <1>2, PTL DEF ConnSafeSpec

\* A thread's place while close() runs.
PingAt(p) == Alive /\ CloseBegun /\ ping = p
TimeoutAt(t) == Alive /\ CloseBegun /\ tmo = t
IoAt(i) == Alive /\ CloseBegun /\ stopped /\ io = i
CloseAt(c) == Alive /\ close = c

(***************************************************************************)
(* What the steps of one kind leave alone.                                 *)
(***************************************************************************)
LEMMA StepsByKind ==
  /\ Transport \/ IoHandler \/ BinaryCallbackThrows => UNCHANGED <<tmo, ping, close, stopped>>
  /\ TimeoutThread => UNCHANGED <<connected, skip_reconnect, ws, stopped, io, ping, close>>
  /\ PingThread => UNCHANGED <<connected, skip_reconnect, ws, stopped, io, tmo, close>>
  /\ CloseBegin \/ CloseCall \/ (\E throws \in BOOLEAN : Destruct(throws)) =>
       UNCHANGED <<io, tmo, ping>> /\ CloseBegun' /\ (stopped => stopped')
  /\ ConnNext => Alive
BY DEF Transport, WsOpen, OnFail, WsLost, OnEvent, LoopFree, IoHandler, BinaryCallbackThrows,
       OnClose, CallbackReturn, IoExit, OnOpenMark, OnOpenRegister, OnOpenSendRegister, OnOpenLock,
       OnOpenDone, DownTest, RetryTest, StartFlags, StartConnect, TimeoutThread, TimeoutCheck,
       TimeoutScan, PingThread, PingCheck, PingWake, PingTest, PingSend, CloseBegun, CloseBegin,
       CloseCall, CloseDisconnect, CloseJoinPing, CloseWs, CloseStop, CloseJoinIo,
       CloseJoinTimeout, CloseClear, Destruct, ConnNext

(***************************************************************************)
(* Only a thread moves itself, and close() goes one way.                   *)
(***************************************************************************)
LEMMA OwnSteps ==
  ASSUME [ConnNext]_connVars
  PROVE  /\ ping' # ping => PingThread
         /\ tmo' # tmo => TimeoutThread
         /\ io' # io => Transport \/ IoHandler
         /\ CloseBegun => CloseBegun'
         /\ stopped => stopped'
         /\ ~Alive => UNCHANGED connVars
<1>1. CASE Transport \/ IoHandler \/ TimeoutThread \/ PingThread
  BY <1>1, StepsByKind DEF CloseBegun, ConnNext
<1>2. CASE BinaryCallbackThrows
  BY <1>2, StepsByKind DEF BinaryCallbackThrows, CloseBegun, ConnNext
<1>3. CASE CloseBegin \/ CloseCall \/ \E throws \in BOOLEAN : Destruct(throws)
  BY <1>3, StepsByKind DEF ConnNext
<1>4. CASE UNCHANGED connVars
  BY <1>4 DEF connVars, CloseBegun
<1>5. QED
  BY <1>1, <1>2, <1>3, <1>4 DEF ConnNext

(***************************************************************************)
(* The ping thread ends: with the flag set, each of its steps brings it    *)
(* closer to its test of the flag.                                         *)
(***************************************************************************)
PingOver == Ended(ping) \/ ~Alive

LEMMA PingEnds == ConnSafeSpec /\ []FlagKept /\ ThreadsGoOn => (CloseBegun ~> PingOver)
<1>1. ConnInv /\ CloseBegun =>
        \/ PingAt("check") \/ PingAt("wait") \/ PingAt("test") \/ PingAt("send") \/ PingOver
  BY DEF ConnInv, ConnTypeOK, PingAt, PingOver, Ended
<1>2. [ConnNext]_connVars =>
        /\ PingAt("check") => PingAt("check")' \/ PingThread \/ PingOver'
        /\ PingAt("wait") => PingAt("wait")' \/ PingThread \/ PingOver'
        /\ PingAt("test") => PingAt("test")' \/ PingThread \/ PingOver'
        /\ PingAt("send") => PingAt("send")' \/ PingThread \/ PingOver'
  BY OwnSteps DEF PingAt, PingOver
<1>3. FlagKept /\ PingThread =>
        /\ PingAt("check") => PingOver'
        /\ PingAt("wait") => PingAt("test")'
        /\ PingAt("test") => PingAt("check")'
        /\ PingAt("send") => PingAt("check")' \/ PingOver'
  BY DEF FlagKept, PingAt, PingOver, Ended, Alive, CloseBegun, PingThread, PingCheck, PingWake,
         PingTest, PingSend
<1>4. /\ PingAt("check") \/ PingAt("wait") \/ PingAt("test") \/ PingAt("send") =>
           Alive /\ ~Ended(ping)
      /\ <<PingThread>>_connVars => PingThread
  BY DEF PingAt, Ended
<1>5. QED
  BY <1>1, <1>2, <1>3, <1>4, ConnInvHolds, PTL DEF ConnSafeSpec, ThreadsGoOn

(***************************************************************************)
(* The timeout thread ends likewise.                                       *)
(***************************************************************************)
TimeoutOver == Ended(tmo) \/ ~Alive

LEMMA TimeoutEnds == ConnSafeSpec /\ []FlagKept /\ ThreadsGoOn => (CloseBegun ~> TimeoutOver)
<1>1. ConnInv /\ CloseBegun => TimeoutAt("check") \/ TimeoutAt("sleep") \/ TimeoutOver
  BY DEF ConnInv, ConnTypeOK, TimeoutAt, TimeoutOver, Ended
<1>2. [ConnNext]_connVars =>
        /\ TimeoutAt("check") => TimeoutAt("check")' \/ TimeoutThread \/ TimeoutOver'
        /\ TimeoutAt("sleep") => TimeoutAt("sleep")' \/ TimeoutThread \/ TimeoutOver'
  BY OwnSteps DEF TimeoutAt, TimeoutOver
<1>3. FlagKept /\ TimeoutThread =>
        /\ TimeoutAt("check") => TimeoutOver'
        /\ TimeoutAt("sleep") => TimeoutAt("check")' \/ TimeoutOver'
  BY DEF FlagKept, TimeoutAt, TimeoutOver, Ended, Alive, CloseBegun, TimeoutThread, TimeoutCheck,
         TimeoutScan
<1>4. /\ TimeoutAt("check") \/ TimeoutAt("sleep") => Alive /\ ~Ended(tmo)
      /\ <<TimeoutThread>>_connVars => TimeoutThread
  BY DEF TimeoutAt, Ended
<1>5. QED
  BY <1>1, <1>2, <1>3, <1>4, ConnInvHolds, PTL DEF ConnSafeSpec, ThreadsGoOn

(***************************************************************************)
(* The I/O thread ends once the loop is told to stop: it leaves the        *)
(* handler it is in, a reconnect gives up at its test of the flag, and the *)
(* step of StartConnection that would reset the flag is excluded.          *)
(***************************************************************************)
LoopOver == Ended(io) \/ ~Alive

LEMMA LoopEnds == ConnSafeSpec /\ []FlagKept /\ ThreadsGoOn => (CloseBegun /\ stopped ~> LoopOver)
<1>1. ConnInv /\ CloseBegun /\ stopped =>
        \/ IoAt("run") \/ IoAt("callback")
        \/ IoAt("opening") \/ IoAt("register") \/ IoAt("send_register") \/ IoAt("lock")
        \/ IoAt("flush")
        \/ IoAt("down") \/ IoAt("retry") \/ IoAt("start") \/ IoAt("connect")
        \/ LoopOver
  BY DEF ConnInv, ConnTypeOK, IoStates, IoAt, LoopOver, Ended
<1>2. [ConnNext]_connVars =>
        /\ IoAt("run") => IoAt("run")' \/ IoHandler \/ LoopOver'
        /\ IoAt("callback") => IoAt("callback")' \/ IoHandler \/ LoopOver'
        /\ IoAt("opening") => IoAt("opening")' \/ IoHandler \/ LoopOver'
        /\ IoAt("register") => IoAt("register")' \/ IoHandler \/ LoopOver'
        /\ IoAt("send_register") => IoAt("send_register")' \/ IoHandler \/ LoopOver'
        /\ IoAt("lock") => IoAt("lock")' \/ IoHandler \/ LoopOver'
        /\ IoAt("flush") => IoAt("flush")' \/ IoHandler \/ LoopOver'
        /\ IoAt("down") => IoAt("down")' \/ IoHandler \/ LoopOver'
        /\ IoAt("retry") => IoAt("retry")' \/ IoHandler \/ LoopOver'
        /\ IoAt("start") => IoAt("start")' \/ IoHandler \/ LoopOver'
        /\ IoAt("connect") => IoAt("connect")' \/ IoHandler \/ LoopOver'
  <2> SUFFICES ASSUME [ConnNext]_connVars, NEW i, IoAt(i)
               PROVE  IoAt(i)' \/ IoHandler \/ LoopOver'
    OBVIOUS
  <2>1. ~Transport
    BY DEF IoAt, Transport, WsOpen, OnFail, WsLost, OnEvent, LoopFree
  <2>2. QED
    BY <2>1, OwnSteps DEF IoAt, LoopOver
<1>3. FlagKept /\ FlagKept' /\ IoHandler =>
        /\ IoAt("run") => LoopOver'
        /\ IoAt("callback") => IoAt("run")'
        /\ IoAt("opening") => IoAt("register")'
        /\ IoAt("register") => IoAt("send_register")' \/ IoAt("lock")'
        /\ IoAt("send_register") => IoAt("lock")' \/ LoopOver'
        /\ IoAt("lock") => IoAt("flush")'
        /\ IoAt("flush") => IoAt("run")'
        /\ IoAt("down") => IoAt("run")'
        /\ IoAt("retry") => IoAt("run")'
        /\ ~IoAt("start")
        /\ IoAt("connect") => IoAt("run")'
  BY DEF FlagKept, IoAt, LoopOver, Ended, Alive, CloseBegun, IoHandler, OnClose, CallbackReturn,
         IoExit, OnOpenMark, OnOpenRegister, OnOpenSendRegister, OnOpenLock, OnOpenDone, DownTest,
         RetryTest, StartFlags, StartConnect, LoopFree
<1>4. /\ IoAt("run") \/ IoAt("callback") \/ IoAt("opening") \/ IoAt("register")
           \/ IoAt("send_register") \/ IoAt("lock") \/ IoAt("flush") \/ IoAt("down")
           \/ IoAt("retry") \/ IoAt("start") \/ IoAt("connect") => IoReady
      /\ <<IoHandler>>_connVars => IoHandler
  BY DEF IoAt, IoReady, Ended
<1>5. QED
  BY <1>1, <1>2, <1>3, <1>4, ConnInvHolds, PTL DEF ConnSafeSpec, ThreadsGoOn

(***************************************************************************)
(* close() returns, or the process dies, provided no StartConnection       *)
(* undoes its flag on the way: each join finds its thread ending.          *)
(***************************************************************************)
THEOREM CloseReturnsUnlessUndone == ConnSafeSpec /\ ThreadsGoOn => CloseReturnsIfFlagKept
<1> DEFINE Over == CloseEnded \/ ~Alive
<1>1. ConnInv /\ CloseBegun =>
        \/ CloseAt("skip_set") \/ CloseAt("disconnected") \/ CloseAt("ping_joined")
        \/ CloseAt("ws_closed") \/ CloseAt("stopped") \/ CloseAt("io_joined")
        \/ CloseAt("timeout_joined") \/ Over
  BY DEF ConnInv, ConnTypeOK, CloseSteps, CloseBegun, CloseAt, CloseEnded
<1>2. [ConnNext]_connVars =>
        /\ CloseAt("skip_set") => CloseAt("skip_set")' \/ CloseCall \/ Over'
        /\ CloseAt("disconnected") => CloseAt("disconnected")' \/ CloseCall \/ Over'
        /\ CloseAt("ping_joined") => CloseAt("ping_joined")' \/ CloseCall \/ Over'
        /\ CloseAt("ws_closed") => CloseAt("ws_closed")' \/ CloseCall \/ Over'
        /\ CloseAt("stopped") => CloseAt("stopped")' \/ CloseCall \/ Over'
        /\ CloseAt("io_joined") => CloseAt("io_joined")' \/ CloseCall \/ Over'
        /\ CloseAt("timeout_joined") => CloseAt("timeout_joined")' \/ CloseCall \/ Over'
  <2> SUFFICES ASSUME [ConnNext]_connVars,
                      NEW c \in {"skip_set", "disconnected", "ping_joined", "ws_closed",
                                 "stopped", "io_joined", "timeout_joined"},
                      CloseAt(c), ~CloseCall
               PROVE  CloseAt(c)' \/ Over'
    OBVIOUS
  <2>1. ~CloseBegin /\ ~\E throws \in BOOLEAN : Destruct(throws)
    BY DEF CloseAt, CloseBegin, Destruct
  <2>2. close' = close
    BY <2>1, StepsByKind DEF ConnNext, connVars
  <2>3. QED
    BY <2>2 DEF CloseAt
<1>3. CloseCall =>
        /\ CloseAt("skip_set") => CloseAt("disconnected")'
        /\ CloseAt("disconnected") => CloseAt("ping_joined")'
        /\ CloseAt("ping_joined") => CloseAt("ws_closed")'
        /\ CloseAt("ws_closed") => CloseAt("stopped")'
        /\ CloseAt("stopped") => CloseAt("io_joined")'
        /\ CloseAt("io_joined") => CloseAt("timeout_joined")'
        /\ CloseAt("timeout_joined") => Over'
  BY DEF CloseAt, Alive, CloseEnded, CloseCall, CloseDisconnect, CloseJoinPing, CloseWs, CloseStop,
         CloseJoinIo, CloseJoinTimeout, CloseClear
<1>4. /\ CloseAt("skip_set") \/ CloseAt("ping_joined") \/ CloseAt("ws_closed")
           \/ CloseAt("timeout_joined") => CloseReady
      /\ CloseAt("disconnected") /\ PingOver => CloseReady
      /\ CloseAt("stopped") /\ LoopOver => CloseReady
      /\ CloseAt("io_joined") /\ TimeoutOver => CloseReady
      /\ <<CloseCall>>_connVars => CloseCall
  BY DEF CloseAt, CloseReady, PingOver, LoopOver, TimeoutOver
<1>5. /\ CloseAt("disconnected") => CloseBegun
      /\ StopInv /\ CloseAt("stopped") => CloseBegun /\ stopped
      /\ CloseAt("io_joined") => CloseBegun
  BY DEF CloseAt, CloseBegun, StopInv
<1>6. [ConnNext]_connVars =>
        /\ PingOver => PingOver' \/ PingThread
        /\ TimeoutOver => TimeoutOver' \/ TimeoutThread
        /\ LoopOver => LoopOver' \/ Transport \/ IoHandler
  BY OwnSteps DEF PingOver, TimeoutOver, LoopOver, connVars, Alive
<1>7. /\ PingThread => ~PingOver
      /\ TimeoutThread => ~TimeoutOver
      /\ Transport \/ IoHandler => ~LoopOver
  BY DEF PingOver, TimeoutOver, LoopOver, Ended, Alive, LoopFree, Transport, WsOpen, OnFail, WsLost,
         OnEvent, IoHandler, OnClose, CallbackReturn, IoExit, OnOpenMark, OnOpenRegister,
         OnOpenSendRegister, OnOpenLock, OnOpenDone, DownTest, RetryTest, StartFlags, StartConnect,
         TimeoutThread, TimeoutCheck, TimeoutScan, PingThread, PingCheck, PingWake, PingTest,
         PingSend
<1>8. ConnSafeSpec /\ ThreadsGoOn /\ []FlagKept => (CloseBegun ~> Over)
  BY <1>1, <1>2, <1>3, <1>4, <1>5, <1>6, <1>7, PingEnds, LoopEnds, TimeoutEnds, ConnInvHolds,
     StopInvHolds, PTL
     DEF ConnSafeSpec, ThreadsGoOn
<1>9. QED
  BY <1>8, PTL DEF CloseReturnsIfFlagKept, CloseReturns, FlagKept

(***************************************************************************)
(* The timeout thread ends only for close().                               *)
(***************************************************************************)
TimeoutRuns == ~CloseBegun => tmo \in {"check", "sleep"}

LEMMA TimeoutRunsHolds == ConnSafeSpec => []TimeoutRuns
<1>1. ConnInit => TimeoutRuns
  BY DEF ConnInit, TimeoutRuns
<1>2. RetryInv /\ TimeoutRuns /\ [ConnNext]_connVars => TimeoutRuns'
  <2> SUFFICES ASSUME RetryInv, TimeoutRuns, [ConnNext]_connVars, ~CloseBegun'
               PROVE  tmo' \in {"check", "sleep"}
    BY DEF TimeoutRuns
  <2>1. ~CloseBegun /\ (tmo' # tmo => TimeoutThread)
    BY OwnSteps
  <2>2. TimeoutThread => tmo' \in {"check", "sleep"}
    BY <2>1 DEF RetryInv, TimeoutRuns, TimeoutThread, TimeoutCheck, TimeoutScan
  <2>3. QED
    BY <2>1, <2>2 DEF TimeoutRuns
<1>3. QED
  BY <1>1, <1>2, RetryInvHolds, PTL DEF ConnSafeSpec
===============================================================================
