---------------------------- MODULE RequestsProofs ----------------------------
(***************************************************************************)
(* The properties of module Requests, for any set of calls and any         *)
(* timeout.  First the request path is shown to implement the life cycle   *)
(* of Connection, whose invariant it inherits; then the table, the queue   *)
(* and the outcomes are related by an inductive invariant of their own.    *)
(* That waits end follows from TimeoutsGoOn; that numbers which are taken  *)
(* one at a time keep calls apart closes the module.                       *)
(***************************************************************************)
EXTENDS Requests, ConnectionProofs

(***************************************************************************)
(* Every step of the request path is a step of the life cycle, or leaves   *)
(* it alone.                                                               *)
(***************************************************************************)
LEMMA StepRefines == [Next]_vars => [ConnNext]_connVars
<1> SUFFICES ASSUME [Next]_vars
             PROVE  ConnNext \/ UNCHANGED connVars
  OBVIOUS
<1> USE DEF ConnNext, Transport, IoHandler, TimeoutThread, CloseCall
<1>1. ASSUME NEW k \in Calls, Call(k)
      PROVE  ConnNext \/ UNCHANGED connVars
  <2>1. CASE LoadCounter(k)  BY <2>1 DEF LoadCounter
  <2>2. CASE StoreCounter(k) BY <2>2 DEF StoreCounter
  <2>3. CASE Register(k)     BY <2>3 DEF Register
  <2>4. CASE CheckLink(k)    BY <2>4 DEF CheckLink
  <2>5. CASE Send(k)         BY <2>5 DEF Send
  <2>6. CASE Return(k)       BY <2>6 DEF Return
  <2>7. QED
    BY <1>1, <2>1, <2>2, <2>3, <2>4, <2>5, <2>6 DEF Call
<1>2. ASSUME NEW k \in Calls, ServerAnswer(k) \/ HandleResponse(k)
      PROVE  UNCHANGED connVars
  BY <1>2 DEF ServerAnswer, HandleResponse
<1>3. CASE Tick
  BY <1>3 DEF Tick
<1>4. CASE ScanTimeouts
  <2>1. (Expired \cap Satisfied # {}) \in BOOLEAN
    OBVIOUS
  <2>2. QED
    BY <1>4, <2>1 DEF ScanTimeouts
<1>5. CASE LoseLink
  BY <1>5 DEF LoseLink
<1>6. CASE TakeMessageMutex \/ FlushOne \/ FlushDone
  BY <1>6 DEF TakeMessageMutex, FlushOne, FlushDone
<1>7. CASE FailPending
  <2>1. (Satisfied # {}) \in BOOLEAN
    OBVIOUS
  <2>2. QED
    BY <1>7, <2>1 DEF FailPending
<1>8. CASE ConnOnly
  BY <1>8 DEF ConnOnly
<1>9. CASE UNCHANGED vars
  BY <1>9 DEF vars
<1>10. CASE Destroy
  <2>1. (Satisfied # {}) \in BOOLEAN
    OBVIOUS
  <2>2. QED
    BY <1>10, <2>1 DEF Destroy
<1>11. QED
  BY <1>1, <1>2, <1>3, <1>4, <1>5, <1>6, <1>7, <1>8, <1>9, <1>10 DEF Next

(***************************************************************************)
(* The request path implements the life cycle: whatever the calls do, the  *)
(* threads and the link behave as Connection specifies.                    *)
(***************************************************************************)
THEOREM RequestsRefineConnection == SafeSpec => ConnSafeSpec
<1>1. Init => ConnInit
  BY DEF Init
<1>2. [Next]_vars => [ConnNext]_connVars
  BY StepRefines
<1>3. QED
  BY <1>1, <1>2, PTL DEF SafeSpec, ConnSafeSpec

(***************************************************************************)
(* ... and so keeps its invariant.                                         *)
(***************************************************************************)
THEOREM RequestsKeepConnInv == SafeSpec => []ConnInv
BY RequestsRefineConnection, ConnInvHolds, PTL

-------------------------------------------------------------------------------
(***************************************************************************)
(* Type correctness is inductive given the life cycle's.                   *)
(***************************************************************************)
LEMMA TypeStep == TypeOK /\ ConnTypeOK' /\ [Next]_vars => TypeOK'
<1> SUFFICES ASSUME TypeOK, ConnTypeOK', [Next]_vars
             PROVE  TypeOK'
  OBVIOUS
<1> USE CallsAssumption DEF TypeOK, CallStates, Outcomes, callVars, tableVars, wireVars, reqVars
<1>1. ASSUME NEW k \in Calls, Call(k)
      PROVE  TypeOK'
  <2>1. CASE LoadCounter(k)  BY <2>1 DEF LoadCounter
  <2>2. CASE StoreCounter(k) BY <2>2 DEF StoreCounter
  <2>3. CASE Register(k)
    <3>1. /\ pc' \in [Calls -> CallStates] /\ entry' \in [Calls -> {"absent", "waiting", "satisfied"}]
          /\ age' \in [Calls -> 0 .. RequestTimeout + 1] /\ outcome' \in [Calls -> Outcomes]
      BY <2>3 DEF SetOn, Register
    <3>2. UNCHANGED <<counter, reqId, queue, uplink, downlink, sends>>
      BY <2>3 DEF Register
    <3>3. QED
      BY <3>1, <3>2
  <2>4. CASE CheckLink(k)
    <3>1. Append(queue, k) \in Seq(Calls)
      OBVIOUS
    <3>2. QED
      BY <2>4, <3>1 DEF CheckLink
  <2>5. CASE Send(k)
    <3>1. CASE ws = "open"
      <4>1. sends[k] + 1 \in Nat /\ sends' = [sends EXCEPT ![k] = sends[k] + 1]
        BY <2>5, <3>1 DEF Send
      <4>2. sends' \in [Calls -> Nat]
        BY <4>1
      <4>3. QED
        BY <2>5, <3>1, <4>2 DEF Send
    <3>2. CASE ws # "open"  BY <2>5, <3>2 DEF Send, SetOn
    <3>3. QED
      BY <3>1, <3>2
  <2>6. CASE Return(k)       BY <2>6 DEF Return
  <2>7. QED
    BY <1>1, <2>1, <2>2, <2>3, <2>4, <2>5, <2>6 DEF Call
<1>2. ASSUME NEW k \in Calls, ServerAnswer(k)
      PROVE  TypeOK'
  <2>1. uplink' \subseteq Calls /\ downlink' \subseteq Calls
    BY <1>2 DEF ServerAnswer
  <2>2. UNCHANGED <<pc, counter, reqId, entry, age, outcome, queue, sends>>
    BY <1>2 DEF ServerAnswer
  <2>3. QED
    BY <2>1, <2>2
<1>3. ASSUME NEW k \in Calls, HandleResponse(k)
      PROVE  TypeOK'
  <2>1. /\ entry' \in [Calls -> {"absent", "waiting", "satisfied"}]
        /\ age' \in [Calls -> 0 .. RequestTimeout + 1]
    BY <1>3 DEF SetOn, HandleResponse
  <2>2. outcome' \in [Calls -> Outcomes] /\ downlink' \subseteq Calls
    BY <1>3 DEF HandleResponse
  <2>3. UNCHANGED <<pc, counter, reqId, queue, uplink, sends>>
    BY <1>3 DEF HandleResponse
  <2>4. QED
    BY <2>1, <2>2, <2>3
<1>4. CASE Tick
  <2>1. age' \in [Calls -> 0 .. RequestTimeout + 1]
    BY <1>4 DEF Tick
  <2>2. UNCHANGED <<pc, counter, reqId, entry, outcome, queue, uplink, downlink, sends>>
    BY <1>4 DEF Tick
  <2>3. QED
    BY <2>1, <2>2
<1>5. CASE ScanTimeouts
  <2>1. CASE Expired \cap Satisfied = {}
    <3>1. entry' \in [Calls -> {"absent", "waiting", "satisfied"}]
      BY <1>5, <2>1 DEF ScanTimeouts, SetOn
    <3>2. age' \in [Calls -> 0 .. RequestTimeout + 1]
      <4>1. 0 \in 0 .. RequestTimeout + 1 /\ age' = SetOn(age, Expired, 0)
        BY <1>5, <2>1 DEF ScanTimeouts
      <4>2. QED
        BY <4>1 DEF SetOn
    <3>3. outcome' \in [Calls -> Outcomes]
      BY <1>5, <2>1 DEF ScanTimeouts, SetOn
    <3>4. QED
      BY <1>5, <3>1, <3>2, <3>3 DEF ScanTimeouts
  <2>2. CASE Expired \cap Satisfied # {}  BY <1>5, <2>2 DEF ScanTimeouts
  <2>3. QED
    BY <2>1, <2>2
<1>6. CASE LoseLink
  BY <1>6 DEF LoseLink
<1>7. CASE TakeMessageMutex \/ FlushDone \/ ConnOnly
  BY <1>7 DEF TakeMessageMutex, FlushDone, ConnOnly
<1>8. CASE FlushOne
  <2>1. queue \in Seq(Calls) /\ queue # << >>
    BY <1>8 DEF FlushOne
  <2>2. Head(queue) \in Calls /\ Tail(queue) \in Seq(Calls)
    BY <2>1
  <2>3. CASE ws = "open"
    <3> DEFINE k == Head(queue)
    <3>1. sends[k] + 1 \in Nat /\ sends' = [sends EXCEPT ![k] = sends[k] + 1]
      <4>1. sends \in [Calls -> Nat] /\ k \in Calls
        BY <2>2
      <4>2. sends[k] + 1 \in Nat
        BY ONLY <4>1
      <4>3. sends' = [sends EXCEPT ![k] = sends[k] + 1]
        BY ONLY <1>8, <2>3 DEF FlushOne
      <4>4. QED
        BY <4>2, <4>3
    <3>2. sends' \in [Calls -> Nat]
      BY <2>2, <3>1
    <3>3. uplink' = uplink \cup {k} /\ queue' = Tail(queue)
      BY ONLY <1>8, <2>3 DEF FlushOne
    <3>4. UNCHANGED <<pc, counter, reqId, entry, age, outcome, downlink>>
      BY ONLY <1>8, <2>3 DEF FlushOne, callVars, tableVars
    <3>5. uplink' \subseteq Calls /\ queue' \in Seq(Calls)
      BY <2>2, <3>3
    <3>6. QED
      BY <3>2, <3>4, <3>5
  <2>4. CASE ws # "open"  BY <1>8, <2>2, <2>4 DEF FlushOne
  <2>5. QED
    BY <2>3, <2>4
<1>9. CASE FailPending
  BY <1>9 DEF SetOn, FailPending
<1>10. CASE Destroy
  <2>1. UNCHANGED <<callVars, queue, sends>> /\ uplink' = {} /\ downlink' = {}
    BY <1>10 DEF Destroy
  <2>2. CASE Satisfied = {}
    <3>1. entry' = [k \in Calls |-> "absent"] /\ age' = [k \in Calls |-> 0]
      BY <1>10, <2>2 DEF Destroy
    <3>2. outcome' \in [Calls -> Outcomes]
      BY <1>10, <2>2 DEF Destroy, SetOn
    <3>3. QED
      BY <2>1, <3>1, <3>2
  <2>3. CASE Satisfied # {}
    <3>1. UNCHANGED tableVars
      BY <1>10, <2>3 DEF Destroy
    <3>2. QED
      BY <2>1, <3>1
  <2>4. QED
    BY <2>2, <2>3
<1>11. CASE UNCHANGED vars
  BY <1>11 DEF vars
<1>12. QED
  BY <1>1, <1>2, <1>3, <1>4, <1>5, <1>6, <1>7, <1>8, <1>9, <1>10, <1>11 DEF Next

-------------------------------------------------------------------------------
(***************************************************************************)
(* The table against the promises.                                         *)
(***************************************************************************)

\* A call that has not registered yet left no trace.
FreshCalls ==
  \A k \in Calls : pc[k] \in {"idle", "loaded", "numbered"}
                     => entry[k] = "absent" /\ outcome[k] = "none"

\* From its registration on, an undecided call has its entry.
RegisteredHaveEntry ==
  \A k \in Calls :
    pc[k] \in {"registered", "sending", "waiting"} /\ outcome[k] = "none"
      => entry[k] = "waiting"

TableInv == FreshCalls /\ RegisteredHaveEntry /\ EntryMatchesPromise

(***************************************************************************)
(* close() that has returned stays so.                                     *)
(***************************************************************************)
LEMMA CloseStaysEnded == [ConnNext]_connVars /\ CloseEnded => CloseEnded'
<1> SUFFICES ASSUME [ConnNext]_connVars, CloseEnded
             PROVE  CloseEnded'
  OBVIOUS
<1>1. CASE Transport
  BY <1>1 DEF CloseEnded, Transport, WsOpen, OnFail, WsLost, OnEvent
<1>2. CASE IoHandler
  BY <1>2 DEF CloseEnded, IoHandler, OnClose, CallbackReturn, IoExit, OnOpenMark,
              OnOpenRegister, OnOpenSendRegister, OnOpenLock, OnOpenDone, DownTest,
              RetryTest, StartFlags, StartConnect
<1>3. CASE TimeoutThread \/ PingThread
  BY <1>3 DEF CloseEnded, TimeoutThread, PingThread, TimeoutCheck, TimeoutScan, PingCheck,
              PingWake, PingTest, PingSend
<1>4. CASE CloseBegin \/ CloseCall
  BY <1>4 DEF CloseEnded, CloseBegin, CloseCall, CloseDisconnect, CloseJoinPing, CloseWs,
              CloseStop, CloseJoinIo, CloseJoinTimeout, CloseClear
<1>5. CASE BinaryCallbackThrows \/ \E throws \in BOOLEAN : Destruct(throws)
  BY <1>5 DEF CloseEnded, BinaryCallbackThrows, Destruct
<1>6. CASE UNCHANGED connVars
  BY <1>6 DEF CloseEnded, connVars
<1>7. QED
  BY <1>1, <1>2, <1>3, <1>4, <1>5, <1>6 DEF ConnNext

(***************************************************************************)
(* Every step keeps table and promises together: what leaves the table     *)
(* undecided is decided in the same step.                                  *)
(***************************************************************************)
LEMMA TableStep == TypeOK /\ TableInv /\ [Next]_vars => TableInv'
<1> SUFFICES ASSUME TypeOK, TableInv, [Next]_vars
             PROVE  TableInv'
  OBVIOUS
<1>0. CloseEnded => CloseEnded'
  BY StepRefines, CloseStaysEnded
<1> USE <1>0 DEF TypeOK, TableInv, FreshCalls, RegisteredHaveEntry, EntryMatchesPromise,
                 callVars, tableVars, reqVars, Waiting
<1>1. ASSUME NEW k \in Calls, Call(k)
      PROVE  TableInv'
  <2>1. CASE LoadCounter(k)  BY <2>1 DEF LoadCounter
  <2>2. CASE StoreCounter(k) BY <2>2 DEF StoreCounter
  <2>3. CASE Register(k)
    <3>1. pc[k] = "numbered" /\ k \notin Found(k)
      BY <2>3 DEF Register, Found
    <3>2. FreshCalls'
      BY <2>3, <3>1 DEF Register, SetOn
    <3>3. RegisteredHaveEntry'
      BY <2>3, <3>1 DEF Register, SetOn
    <3>4. EntryMatchesPromise'
      BY <2>3, <3>1 DEF Register, SetOn
    <3>5. QED
      BY <3>2, <3>3, <3>4
  <2>4. CASE CheckLink(k)    BY <2>4 DEF CheckLink
  <2>5. CASE Send(k)
    <3>1. CASE ws = "open"
      BY <2>5, <3>1 DEF Send
    <3>2. CASE ws # "open"
      <4>1. /\ pc' = [pc EXCEPT ![k] = "waiting"]
            /\ entry' = SetOn(entry, Found(k), "satisfied")
            /\ outcome' = SetOn(outcome, Found(k) \cap Waiting, "send_failed")
        BY <2>5, <3>2 DEF Send
      <4>2. \A j \in Calls : j \in Found(k) => entry[j] # "absent"
        BY DEF Found
      <4>3. \A j \in Calls : entry'[j] = IF j \in Found(k) THEN "satisfied" ELSE entry[j]
        BY <4>1 DEF SetOn
      <4>4. \A j \in Calls : outcome'[j] = IF j \in Found(k) \cap Waiting THEN "send_failed"
                                                                         ELSE outcome[j]
        BY <4>1 DEF SetOn
      <4>5. \A j \in Calls : j \notin Found(k) => entry'[j] = entry[j] /\ outcome'[j] = outcome[j]
        BY <4>3, <4>4
      <4>6. \A j \in Found(k) : /\ entry'[j] = "satisfied"
                               /\ entry[j] \in {"waiting", "satisfied"}
        BY <4>3 DEF Found
      <4>7. \A j \in Found(k) : outcome'[j] = IF entry[j] = "waiting" THEN "send_failed"
                                                                    ELSE outcome[j]
        BY <4>4 DEF Found
      <4>8. EntryMatchesPromise'
        BY <4>5, <4>6, <4>7, <1>0 DEF Found
      <4>9. FreshCalls'
        BY <2>5, <4>1, <4>2, <4>3, <4>4 DEF Send
      <4>10. \A j \in Calls : /\ pc'[j] = IF j = k THEN "waiting" ELSE pc[j]
                              /\ pc[k] = "sending"
        BY <2>5, <4>1 DEF Send
      <4>11. \A j \in Found(k) : outcome'[j] # "none"
        BY <4>6, <4>7 DEF Found
      <4>12. RegisteredHaveEntry'
        <5> SUFFICES ASSUME NEW j \in Calls, pc'[j] \in {"registered", "sending", "waiting"},
                            outcome'[j] = "none"
                     PROVE  entry'[j] = "waiting"
          OBVIOUS
        <5>1. j \notin Found(k) /\ entry'[j] = entry[j] /\ outcome[j] = "none"
          BY <4>5, <4>11
        <5>2. pc[j] \in {"registered", "sending", "waiting"}
          BY <4>10
        <5>3. QED
          BY <5>1, <5>2, <1>0
      <4>13. QED
        BY <4>8, <4>9, <4>12
    <3>3. QED
      BY <3>1, <3>2
  <2>6. CASE Return(k)       BY <2>6 DEF Return
  <2>7. QED
    BY <1>1, <2>1, <2>2, <2>3, <2>4, <2>5, <2>6 DEF Call
<1>2. ASSUME NEW k \in Calls, ServerAnswer(k)
      PROVE  TableInv'
  BY <1>2 DEF ServerAnswer
<1>3. ASSUME NEW k \in Calls, HandleResponse(k)
      PROVE  TableInv'
  BY <1>3 DEF HandleResponse, SetOn
<1>4. CASE Tick
  BY <1>4 DEF Tick
<1>5. CASE ScanTimeouts
  <2>1. CASE Expired \cap Satisfied = {}
    <3>1. \A k \in Expired : entry[k] = "waiting"
      BY <2>1 DEF Expired, Satisfied
    <3>2. QED
      BY <1>5, <2>1, <3>1 DEF ScanTimeouts, SetOn
  <2>2. CASE Expired \cap Satisfied # {}
    BY <1>5, <2>2 DEF ScanTimeouts
  <2>3. QED
    BY <2>1, <2>2
<1>6. CASE LoseLink
  BY <1>6 DEF LoseLink
<1>7. CASE TakeMessageMutex \/ FlushDone \/ ConnOnly
  BY <1>7 DEF TakeMessageMutex, FlushDone, ConnOnly
<1>8. CASE FlushOne
  BY <1>8 DEF FlushOne
<1>9. CASE FailPending
  <2>1. CloseEnded'
    BY <1>9 DEF FailPending, CloseClear, CloseEnded
  <2>2. CASE Satisfied = {}
    BY <1>9, <2>1, <2>2 DEF FailPending, SetOn
  <2>3. CASE Satisfied # {}
    BY <1>9, <2>1, <2>3 DEF FailPending, SetOn
  <2>4. QED
    BY <2>2, <2>3
<1>10. CASE Destroy
  <2>1. CloseEnded' /\ UNCHANGED pc
    BY <1>10 DEF Destroy, Destruct, CloseEnded
  <2>2. CASE Satisfied = {}
    BY <1>10, <2>1, <2>2 DEF Destroy, SetOn
  <2>3. CASE Satisfied # {}
    BY <1>10, <2>1, <2>3 DEF Destroy
  <2>4. QED
    BY <2>2, <2>3
<1>11. CASE UNCHANGED vars
  BY <1>11 DEF vars
<1>12. QED
  BY <1>1, <1>2, <1>3, <1>4, <1>5, <1>6, <1>7, <1>8, <1>9, <1>10, <1>11 DEF Next

(***************************************************************************)
(* Types, life cycle and table hold together throughout.                   *)
(***************************************************************************)
ReqInv == TypeOK /\ ConnInv /\ TableInv

THEOREM ReqInvHolds == SafeSpec => []ReqInv
<1>1. Init => ReqInv
  <2> SUFFICES ASSUME Init
               PROVE  ReqInv
    OBVIOUS
  <2>1. ConnInv
    BY ConnInvInit DEF Init
  <2>2. TypeOK
    BY <2>1, CallsAssumption DEF Init, TypeOK, ConnInv, CallStates, Outcomes
  <2>3. TableInv
    BY DEF Init, TableInv, FreshCalls, RegisteredHaveEntry, EntryMatchesPromise
  <2>4. QED
    BY <2>1, <2>2, <2>3 DEF ReqInv
<1>2. ReqInv /\ [Next]_vars => ReqInv'
  <2> SUFFICES ASSUME ReqInv, [Next]_vars
               PROVE  ReqInv'
    OBVIOUS
  <2>1. ConnInv'
    BY StepRefines, ConnInvStep DEF ReqInv
  <2>2. TypeOK'
    BY <2>1, TypeStep DEF ReqInv, ConnInv
  <2>3. TableInv'
    BY TableStep DEF ReqInv
  <2>4. QED
    BY <2>1, <2>2, <2>3 DEF ReqInv
<1>3. QED
  BY <1>1, <1>2, PTL DEF SafeSpec

(***************************************************************************)
(* Every variable keeps its type.                                          *)
(***************************************************************************)
THEOREM TypeCorrect == SafeSpec => []TypeOK
<1>1. ReqInv => TypeOK
  BY DEF ReqInv
<1>2. QED
  BY <1>1, ReqInvHolds, PTL

(***************************************************************************)
(* Satisfied promises stay in the table only after a failed send or a      *)
(* close() that threw.                                                     *)
(***************************************************************************)
THEOREM TableMatchesPromises == SafeSpec => []EntryMatchesPromise
<1>1. ReqInv => EntryMatchesPromise
  BY DEF ReqInv, TableInv
<1>2. QED
  BY <1>1, ReqInvHolds, PTL

(***************************************************************************)
(* What a caller was told is never replaced: the steps that decide an      *)
(* outcome decide those of waiting entries, which have none.               *)
(***************************************************************************)
LEMMA OutcomeStep ==
  ReqInv /\ [Next]_vars => \A k \in Calls : outcome[k] # "none" => outcome'[k] = outcome[k]
<1> SUFFICES ASSUME ReqInv, [Next]_vars, NEW c \in Calls, outcome[c] # "none"
             PROVE  outcome'[c] = outcome[c]
  OBVIOUS
<1> USE DEF ReqInv, TypeOK, TableInv, EntryMatchesPromise, callVars, tableVars, reqVars, Waiting
<1>0. c \notin Waiting
  OBVIOUS
<1>1. ASSUME NEW k \in Calls, Call(k)
      PROVE  outcome'[c] = outcome[c]
  BY <1>0, <1>1 DEF Call, LoadCounter, StoreCounter, Register, CheckLink, Send, Return, SetOn
<1>2. ASSUME NEW k \in Calls, ServerAnswer(k) \/ HandleResponse(k)
      PROVE  outcome'[c] = outcome[c]
  BY <1>0, <1>2 DEF ServerAnswer, HandleResponse
<1>3. CASE Tick \/ LoseLink \/ TakeMessageMutex \/ FlushOne \/ FlushDone \/ ConnOnly
  BY <1>3 DEF Tick, LoseLink, TakeMessageMutex, FlushOne, FlushDone, ConnOnly
<1>4. CASE ScanTimeouts
  <2>1. Expired \cap Satisfied = {} => c \notin Expired
    BY <1>0 DEF Expired, Satisfied
  <2>2. QED
    BY <1>4, <2>1 DEF ScanTimeouts, SetOn
<1>5. CASE FailPending \/ Destroy
  BY <1>0, <1>5 DEF FailPending, Destroy, SetOn
<1>6. CASE UNCHANGED vars
  BY <1>6 DEF vars
<1>7. QED
  BY <1>1, <1>2, <1>3, <1>4, <1>5, <1>6 DEF Next

(***************************************************************************)
(* A promise is decided once.                                              *)
(***************************************************************************)
THEOREM OutcomesAreFinal == SafeSpec => OutcomeIsFinal
<1>1. ReqInv /\ [Next]_vars => [\A k \in Calls : outcome[k] # "none" => outcome'[k] = outcome[k]]_vars
  BY OutcomeStep
<1>2. QED
  BY <1>1, ReqInvHolds, PTL DEF SafeSpec, OutcomeIsFinal

(***************************************************************************)
(* Only calls move themselves.                                             *)
(***************************************************************************)
LEMMA OthersKeepPc ==
  ASSUME [Next]_vars, ~\E k \in Calls : Call(k)
  PROVE  pc' = pc
<1>1. ASSUME NEW k \in Calls, ServerAnswer(k) \/ HandleResponse(k)
      PROVE  pc' = pc
  BY <1>1 DEF ServerAnswer, HandleResponse, callVars
<1>2. CASE \/ Tick \/ ScanTimeouts \/ LoseLink \/ TakeMessageMutex \/ FlushOne \/ FlushDone
           \/ FailPending \/ Destroy \/ ConnOnly \/ UNCHANGED vars
  BY <1>2 DEF Tick, ScanTimeouts, LoseLink, TakeMessageMutex, FlushOne, FlushDone, FailPending,
              Destroy, ConnOnly, callVars, reqVars, vars
<1>3. QED
  BY <1>1, <1>2 DEF Next

-------------------------------------------------------------------------------
(***************************************************************************)
(* Nobody is left behind.                                                  *)
(***************************************************************************)

\* The destructor runs when no call is under way, and ends those that wait.
DestroyedLeavesNone ==
  close = "destroyed" =>
    \A k \in Calls : pc[k] \in {"idle", "waiting", "returned"}
                      /\ (pc[k] = "waiting" => outcome[k] # "none")

(***************************************************************************)
(* Only the destructor destroys.                                           *)
(***************************************************************************)
LEMMA OnlyDestroyDestroys ==
  ASSUME Next, ~Destroy
  PROVE  close' = "destroyed" => close = "destroyed"
<1>1. ASSUME NEW k \in Calls, Call(k) \/ ServerAnswer(k) \/ HandleResponse(k)
      PROVE  close' = close
  BY <1>1 DEF Call, LoadCounter, StoreCounter, Register, CheckLink, Send, Return,
              ServerAnswer, HandleResponse, OnEvent, CallbackReturn, connVars
<1>2. CASE \/ Tick \/ ScanTimeouts \/ LoseLink \/ TakeMessageMutex \/ FlushOne \/ FlushDone
           \/ FailPending
  BY <1>2 DEF Tick, ScanTimeouts, TimeoutScan, LoseLink, WsLost, CloseWs, TakeMessageMutex,
              OnOpenLock, FlushOne, FlushDone, OnOpenDone, FailPending, CloseClear, connVars
<1>3. CASE ConnOnly
  <2>1. CASE WsOpen \/ OnFail \/ OnClose \/ IoExit \/ OnOpenMark \/ OnOpenRegister \/ OnOpenSendRegister
    BY <2>1 DEF WsOpen, OnFail, OnClose, IoExit, OnOpenMark, OnOpenRegister, OnOpenSendRegister
  <2>2. CASE DownTest \/ RetryTest \/ StartFlags \/ StartConnect \/ TimeoutCheck \/ PingThread
    BY <2>2 DEF DownTest, RetryTest, StartFlags, StartConnect, TimeoutCheck, PingThread,
                PingCheck, PingWake, PingTest, PingSend
  <2>3. CASE \/ CloseBegin \/ CloseDisconnect \/ CloseJoinPing \/ CloseStop
             \/ CloseJoinIo \/ CloseJoinTimeout
    BY <2>3 DEF CloseBegin, CloseDisconnect, CloseJoinPing, CloseStop, CloseJoinIo,
                CloseJoinTimeout
  <2>4. QED
    BY <1>3, <2>1, <2>2, <2>3 DEF ConnOnly
<1>4. QED
  BY <1>1, <1>2, <1>3 DEF Next

LEMMA DestroyedStep ==
  ReqInv /\ DestroyedLeavesNone /\ [Next]_vars => DestroyedLeavesNone'
<1> SUFFICES ASSUME ReqInv, DestroyedLeavesNone, [Next]_vars, close' = "destroyed",
                    NEW k \in Calls
             PROVE  /\ pc'[k] \in {"idle", "waiting", "returned"}
                    /\ pc'[k] = "waiting" => outcome'[k] # "none"
  BY DEF DestroyedLeavesNone
<1>1. outcome[k] # "none" => outcome'[k] # "none"
  BY OutcomeStep
<1>2. CASE Destroy
  <2>1. Satisfied = {} /\ pc' = pc
    BY <1>2 DEF Destroy, Destruct, callVars
  <2>2. outcome' = SetOn(outcome, Waiting, "closed")
    BY <1>2, <2>1 DEF Destroy
  <2>3. pc[k] = "waiting" /\ outcome[k] = "none" => k \in Waiting
    BY DEF ReqInv, TableInv, RegisteredHaveEntry, Waiting
  <2>4. pc[k] \in {"idle", "waiting", "returned"}
    BY <1>2 DEF Destroy
  <2>5. k \in Waiting => outcome'[k] = "closed"
    BY <2>2 DEF SetOn, ReqInv, TypeOK, Outcomes
  <2>6. QED
    BY <1>1, <2>1, <2>3, <2>4, <2>5
<1>3. CASE Next /\ ~Destroy
  <2>1. close = "destroyed"
    BY <1>3, OnlyDestroyDestroys
  <2>2. /\ \A j \in Calls : pc[j] \in {"idle", "waiting", "returned"}
        /\ pc[k] = "waiting" => outcome[k] # "none"
    BY <2>1 DEF DestroyedLeavesNone
  <2>3. CASE \E j \in Calls : Call(j)
    <3>1. PICK j \in Calls : Return(j)
      BY <2>1, <2>2, <2>3 DEF Call, LoadCounter, StoreCounter, Register, CheckLink, Send
    <3>2. pc' = [pc EXCEPT ![j] = "returned"]
      BY <3>1 DEF Return
    <3>3. QED
      BY <1>1, <2>2, <3>2 DEF ReqInv, TypeOK
  <2>4. CASE ~\E j \in Calls : Call(j)
    BY <1>1, <2>2, <2>4, OthersKeepPc
  <2>5. QED
    BY <2>3, <2>4
<1>4. CASE UNCHANGED vars
  BY <1>1, <1>4 DEF DestroyedLeavesNone, vars, connVars, reqVars, callVars
<1>5. QED
  BY <1>2, <1>3, <1>4

(***************************************************************************)
(* Every call that waits undecided has an entry through which an answer,   *)
(* the timeout scan or close() will end it, and the destructor leaves no   *)
(* such call.                                                              *)
(***************************************************************************)
THEOREM WaitersAreNotLost == SafeSpec => []NoLostWaiter
<1>1. Init => DestroyedLeavesNone
  BY DEF Init, ConnInit, DestroyedLeavesNone
<1>2. ReqInv /\ DestroyedLeavesNone /\ [Next]_vars => DestroyedLeavesNone'
  BY DestroyedStep
<1>3. ReqInv /\ DestroyedLeavesNone => NoLostWaiter
  BY DEF ReqInv, TableInv, RegisteredHaveEntry, DestroyedLeavesNone, NoLostWaiter
<1>4. QED
  BY <1>1, <1>2, <1>3, ReqInvHolds, PTL DEF SafeSpec

-------------------------------------------------------------------------------
(***************************************************************************)
(* The queue and the transmissions.                                        *)
(***************************************************************************)

\* Before its send or its queueing a message is in neither place.
UnsentBefore ==
  \A k \in Calls : pc[k] \in {"idle", "loaded", "numbered", "registered", "sending"}
                     => sends[k] = 0 /\ k \notin Range(queue)

\* A queued message was not transmitted, and is queued once.
QueuedUnsent == \A k \in Calls : k \in Range(queue) => sends[k] = 0
QueuedOnce == \A i, j \in 1 .. Len(queue) : queue[i] = queue[j] => i = j

SentOnce == \A k \in Calls : sends[k] <= 1

QueueInv == UnsentBefore /\ QueuedUnsent /\ QueuedOnce /\ SentOnce

(***************************************************************************)
(* Appending a new element and removing the head, for a queue without      *)
(* repetitions.                                                            *)
(***************************************************************************)
LEMMA AppendFacts ==
  ASSUME NEW S, NEW q \in Seq(S), NEW x \in S, x \notin Range(q),
         \A i, j \in 1 .. Len(q) : q[i] = q[j] => i = j
  PROVE  /\ Range(Append(q, x)) = Range(q) \cup {x}
         /\ \A i, j \in 1 .. Len(Append(q, x)) : Append(q, x)[i] = Append(q, x)[j] => i = j
<1> DEFINE r == Append(q, x)
<1>1. /\ DOMAIN q = 1 .. Len(q) /\ Len(q) \in Nat
      /\ DOMAIN r = 1 .. Len(q) + 1 /\ Len(r) = Len(q) + 1
  OBVIOUS
<1>2. \A i \in 1 .. Len(q) : r[i] = q[i]
  OBVIOUS
<1>3. r[Len(q) + 1] = x
  OBVIOUS
<1>4. \A i \in 1 .. Len(q) : q[i] # x
  BY <1>1 DEF Range
<1> HIDE DEF r
<1>5. Range(r) = Range(q) \cup {x}
  BY <1>1, <1>2, <1>3 DEF Range
<1>6. \A i, j \in 1 .. Len(r) : r[i] = r[j] => i = j
  <2>1. \A i \in 1 .. Len(r) : i \in 1 .. Len(q) \/ i = Len(q) + 1
    BY <1>1
  <2>2. QED
    BY <1>2, <1>3, <1>4, <2>1
<1>7. QED
  BY <1>5, <1>6 DEF r

LEMMA TailFacts ==
  ASSUME NEW S, NEW q \in Seq(S), q # << >>,
         \A i, j \in 1 .. Len(q) : q[i] = q[j] => i = j
  PROVE  /\ Head(q) \in Range(q)
         /\ Range(Tail(q)) = Range(q) \ {Head(q)}
         /\ \A i, j \in 1 .. Len(Tail(q)) : Tail(q)[i] = Tail(q)[j] => i = j
<1>1. DOMAIN q = 1 .. Len(q) /\ Len(q) \in Nat \ {0} /\ Head(q) = q[1]
  OBVIOUS
<1>2. Tail(q) \in Seq(S) /\ Len(Tail(q)) = Len(q) - 1 /\ DOMAIN Tail(q) = 1 .. Len(q) - 1
  OBVIOUS
<1>3. \A i \in 1 .. Len(q) - 1 : Tail(q)[i] = q[i + 1]
  OBVIOUS
<1>4. Head(q) \in Range(q)
  BY <1>1 DEF Range
<1>5. ASSUME NEW x \in Range(Tail(q))
      PROVE  x \in Range(q) \ {Head(q)}
  <2>1. PICK i \in 1 .. Len(q) - 1 : x = Tail(q)[i]
    BY <1>2 DEF Range
  <2>2. i + 1 \in 1 .. Len(q) /\ x = q[i + 1] /\ i + 1 # 1
    BY <1>1, <1>3, <2>1
  <2>3. QED
    BY <1>1, <2>2 DEF Range
<1>6. ASSUME NEW x \in Range(q) \ {Head(q)}
      PROVE  x \in Range(Tail(q))
  <2>1. PICK i \in 1 .. Len(q) : x = q[i]
    BY <1>1 DEF Range
  <2>2. i - 1 \in 1 .. Len(q) - 1 /\ x = Tail(q)[i - 1]
    BY <1>1, <1>3, <2>1
  <2>3. QED
    BY <1>2, <2>2 DEF Range
<1>7. ASSUME NEW i \in 1 .. Len(Tail(q)), NEW j \in 1 .. Len(Tail(q)), Tail(q)[i] = Tail(q)[j]
      PROVE  i = j
  <2>1. i + 1 \in 1 .. Len(q) /\ j + 1 \in 1 .. Len(q) /\ q[i + 1] = q[j + 1]
    BY <1>1, <1>2, <1>3, <1>7
  <2>2. QED
    BY <1>1, <1>2, <2>1
<1>8. QED
  BY <1>4, <1>5, <1>6, <1>7

(***************************************************************************)
(* Every step keeps transmissions and queue apart.                         *)
(***************************************************************************)
LEMMA QueueStep == TypeOK /\ QueueInv /\ [Next]_vars => QueueInv'
<1> SUFFICES ASSUME TypeOK, QueueInv, [Next]_vars
             PROVE  QueueInv'
  OBVIOUS
<1> USE DEF TypeOK, QueueInv, UnsentBefore, QueuedUnsent, QueuedOnce, SentOnce,
            callVars, reqVars
<1>1. ASSUME NEW k \in Calls, Call(k)
      PROVE  QueueInv'
  <2>1. CASE LoadCounter(k)  BY <2>1 DEF LoadCounter
  <2>2. CASE StoreCounter(k) BY <2>2 DEF StoreCounter
  <2>3. CASE Register(k)     BY <2>3 DEF Register
  <2>4. CASE CheckLink(k)
    <3>1. CASE connected
      BY <2>4, <3>1 DEF CheckLink
    <3>2. CASE ~connected
      <4>1. /\ k \notin Range(queue) /\ sends[k] = 0 /\ sends' = sends
            /\ queue' = Append(queue, k) /\ pc' = [pc EXCEPT ![k] = "waiting"]
        BY <2>4, <3>2 DEF CheckLink
      <4>2. /\ Range(Append(queue, k)) = Range(queue) \cup {k}
            /\ \A i, j \in 1 .. Len(Append(queue, k)) :
                 Append(queue, k)[i] = Append(queue, k)[j] => i = j
        <5>1. queue \in Seq(Calls) /\ k \notin Range(queue)
          BY <4>1
        <5>2. \A i, j \in 1 .. Len(queue) : queue[i] = queue[j] => i = j
          OBVIOUS
        <5>3. QED
          BY ONLY <1>1, <5>1, <5>2, AppendFacts
      <4>3. QueuedOnce'
        BY <4>1, <4>2
      <4>4. UnsentBefore' /\ QueuedUnsent' /\ SentOnce'
        BY <4>1, <4>2
      <4>5. QED
        BY <4>3, <4>4
    <3>3. QED
      BY <3>1, <3>2
  <2>5. CASE Send(k)
    <3>1. pc[k] = "sending" /\ sends[k] = 0 /\ k \notin Range(queue)
      BY <2>5 DEF Send
    <3>2. CASE ws = "open"
      <4>1. /\ pc' = [pc EXCEPT ![k] = "waiting"] /\ queue' = queue
            /\ sends' = [sends EXCEPT ![k] = sends[k] + 1]
        BY <2>5, <3>2 DEF Send
      <4>2. sends'[k] = 1 /\ \A j \in Calls \ {k} : sends'[j] = sends[j]
        BY <3>1, <4>1
      <4>3. pc'[k] = "waiting" /\ \A j \in Calls \ {k} : pc'[j] = pc[j]
        BY <4>1
      <4>4. UnsentBefore' /\ QueuedUnsent' /\ SentOnce'
        BY <3>1, <4>1, <4>2, <4>3
      <4>5. QueuedOnce'
        BY <4>1
      <4>6. QED
        BY <4>4, <4>5
    <3>3. CASE ws # "open"
      BY <2>5, <3>1, <3>3 DEF Send
    <3>4. QED
      BY <3>2, <3>3
  <2>6. CASE Return(k)       BY <2>6 DEF Return
  <2>7. QED
    BY <1>1, <2>1, <2>2, <2>3, <2>4, <2>5, <2>6 DEF Call
<1>2. ASSUME NEW k \in Calls, ServerAnswer(k) \/ HandleResponse(k)
      PROVE  QueueInv'
  BY <1>2 DEF ServerAnswer, HandleResponse
<1>3. CASE \/ Tick \/ ScanTimeouts \/ LoseLink \/ TakeMessageMutex \/ FlushDone
           \/ FailPending \/ Destroy \/ ConnOnly
  BY <1>3 DEF Tick, ScanTimeouts, LoseLink, TakeMessageMutex, FlushDone, FailPending, Destroy,
              ConnOnly
<1>4. CASE FlushOne
  <2> DEFINE k == Head(queue)
  <2>1. queue # << >> /\ queue' = Tail(queue) /\ pc' = pc /\ queue \in Seq(Calls)
    BY <1>4 DEF FlushOne
  <2>2. k \in Calls /\ k \in Range(queue) /\ Range(queue') = Range(queue) \ {k} /\ QueuedOnce'
    <3>1. \A i, j \in 1 .. Len(queue) : queue[i] = queue[j] => i = j
      OBVIOUS
    <3>2. /\ k \in Range(queue) /\ Range(Tail(queue)) = Range(queue) \ {k}
          /\ \A i, j \in 1 .. Len(Tail(queue)) : Tail(queue)[i] = Tail(queue)[j] => i = j
      BY ONLY <2>1, <3>1, TailFacts
    <3>3. k \in Calls
      BY ONLY <2>1
    <3>4. QED
      BY <2>1, <3>2, <3>3
  <2>3. sends[k] = 0 /\ pc[k] \notin {"idle", "loaded", "numbered", "registered", "sending"}
    BY <2>2
  <2>4. sends' = sends \/ sends' = [sends EXCEPT ![k] = sends[k] + 1]
    BY <1>4 DEF FlushOne
  <2>5. sends'[k] <= 1 /\ \A j \in Calls \ {k} : sends'[j] = sends[j]
    BY <2>2, <2>3, <2>4
  <2>6. UnsentBefore' /\ QueuedUnsent' /\ SentOnce'
    BY <2>1, <2>2, <2>3, <2>5
  <2>7. QED
    BY <2>2, <2>6
<1>5. CASE UNCHANGED vars
  BY <1>5 DEF vars
<1>6. QED
  BY <1>1, <1>2, <1>3, <1>4, <1>5 DEF Next

(***************************************************************************)
(* No message is transmitted twice, however often the link comes back.     *)
(***************************************************************************)
THEOREM MessagesAreSentOnce == SafeSpec => []SentAtMostOnce
<1>1. Init => QueueInv
  BY DEF Init, QueueInv, UnsentBefore, QueuedUnsent, QueuedOnce, SentOnce, Range
<1>2. TypeOK /\ QueueInv /\ [Next]_vars => QueueInv'
  BY QueueStep
<1>3. TypeOK /\ QueueInv => SentAtMostOnce
  BY DEF TypeOK, QueueInv, QueuedUnsent, SentOnce, SentAtMostOnce
<1>4. QED
  BY <1>1, <1>2, <1>3, TypeCorrect, PTL DEF SafeSpec

-------------------------------------------------------------------------------
(***************************************************************************)
(* A queue and an open link: only while OnOpen is about to flush.          *)
(***************************************************************************)
LEMMA StrandedStep == TypeOK /\ NoStrandedMessage /\ [Next]_vars => NoStrandedMessage'
<1> SUFFICES ASSUME TypeOK, NoStrandedMessage, [Next]_vars
             PROVE  NoStrandedMessage'
  OBVIOUS
<1> USE DEF NoStrandedMessage, connVars
<1>1. ASSUME NEW k \in Calls, Call(k)
      PROVE  NoStrandedMessage'
  <2>1. CASE CheckLink(k)  BY <2>1 DEF CheckLink
  <2>2. CASE LoadCounter(k) \/ Return(k)
    BY <2>2 DEF LoadCounter, Return, OnEvent, CallbackReturn, LoopFree
  <2>3. CASE StoreCounter(k) \/ Register(k) \/ Send(k)
    BY <2>3 DEF StoreCounter, Register, Send
  <2>4. QED
    BY <1>1, <2>1, <2>2, <2>3 DEF Call
<1>2. ASSUME NEW k \in Calls, ServerAnswer(k) \/ HandleResponse(k)
      PROVE  NoStrandedMessage'
  BY <1>2 DEF ServerAnswer, HandleResponse
<1>3. CASE Tick \/ ScanTimeouts \/ LoseLink \/ FailPending \/ Destroy
  BY <1>3 DEF Tick, ScanTimeouts, TimeoutScan, LoseLink, WsLost, CloseWs, FailPending, CloseClear,
              Destroy, Destruct
<1>4. CASE TakeMessageMutex
  BY <1>4 DEF TakeMessageMutex, OnOpenLock, reqVars
<1>5. CASE FlushOne
  BY <1>5 DEF FlushOne
<1>6. CASE FlushDone
  BY <1>6 DEF FlushDone, OnOpenDone, reqVars
<1>7. CASE ConnOnly
  <2>1. queue' = queue
    BY <1>7 DEF ConnOnly, reqVars
  <2>2. CASE WsOpen \/ OnFail \/ OnClose \/ IoExit
    BY <2>1, <2>2 DEF WsOpen, OnFail, OnClose, IoExit, LoopFree
  <2>3. CASE OnOpenMark \/ OnOpenRegister \/ OnOpenSendRegister
    BY <2>1, <2>3 DEF OnOpenMark, OnOpenRegister,
                OnOpenSendRegister
  <2>4. CASE DownTest \/ RetryTest \/ StartFlags \/ StartConnect
    BY <2>1, <2>4 DEF DownTest, RetryTest, StartFlags, StartConnect
  <2>5. CASE TimeoutCheck \/ PingThread
    BY <2>1, <2>5 DEF TimeoutCheck, PingThread, PingCheck, PingWake, PingTest, PingSend
  <2>6. CASE \/ CloseBegin \/ CloseDisconnect \/ CloseJoinPing \/ CloseStop
             \/ CloseJoinIo \/ CloseJoinTimeout
    BY <2>1, <2>6 DEF CloseBegin, CloseDisconnect, CloseJoinPing, CloseStop, CloseJoinIo,
                      CloseJoinTimeout
  <2>7. QED
    BY <1>7, <2>2, <2>3, <2>4, <2>5, <2>6 DEF ConnOnly
<1>8. CASE UNCHANGED vars
  BY <1>8 DEF vars, reqVars
<1>9. QED
  BY <1>1, <1>2, <1>3, <1>4, <1>5, <1>6, <1>7, <1>8 DEF Next

(***************************************************************************)
(* Messages queued while disconnected are flushed by the next OnOpen.      *)
(***************************************************************************)
THEOREM QueueIsFlushed == SafeSpec => []NoStrandedMessage
<1>1. Init => NoStrandedMessage
  BY DEF Init, ConnInit, NoStrandedMessage
<1>2. TypeOK /\ NoStrandedMessage /\ [Next]_vars => NoStrandedMessage'
  BY StrandedStep
<1>3. QED
  BY <1>1, <1>2, TypeCorrect, PTL DEF SafeSpec

-------------------------------------------------------------------------------
(***************************************************************************)
(* The timeout thread's death.                                             *)
(***************************************************************************)

\* A process that died takes no step.
LEMMA NextNeedsAlive == Next => Alive
<1> SUFFICES ASSUME Next
             PROVE  Alive
  OBVIOUS
<1>1. ASSUME NEW k \in Calls, Call(k) \/ ServerAnswer(k) \/ HandleResponse(k)
      PROVE  Alive
  BY <1>1 DEF Call, LoadCounter, StoreCounter, Register, CheckLink, Send, Return, ServerAnswer,
              HandleResponse, LoopFree
<1>2. CASE Tick \/ ScanTimeouts \/ LoseLink \/ TakeMessageMutex
  BY <1>2 DEF Tick, ScanTimeouts, TimeoutScan, LoseLink, WsLost, CloseWs, LoopFree,
              TakeMessageMutex, OnOpenLock
<1>3. CASE FlushOne \/ FlushDone \/ FailPending \/ Destroy
  BY <1>3 DEF FlushOne, FlushDone, OnOpenDone, FailPending, CloseClear, Destroy, Destruct
<1>4. CASE ConnOnly
  <2>1. CASE WsOpen \/ OnFail \/ OnClose \/ IoExit \/ OnOpenMark \/ OnOpenRegister \/ OnOpenSendRegister
    BY <2>1 DEF WsOpen, OnFail, OnClose, IoExit, LoopFree, OnOpenMark, OnOpenRegister,
                OnOpenSendRegister
  <2>2. CASE DownTest \/ RetryTest \/ StartFlags \/ StartConnect \/ TimeoutCheck \/ PingThread
    BY <2>2 DEF DownTest, RetryTest, StartFlags, StartConnect, TimeoutCheck, PingThread,
                PingCheck, PingWake, PingTest, PingSend
  <2>3. CASE \/ CloseBegin \/ CloseDisconnect \/ CloseJoinPing \/ CloseStop
             \/ CloseJoinIo \/ CloseJoinTimeout
    BY <2>3 DEF CloseBegin, CloseDisconnect, CloseJoinPing, CloseStop, CloseJoinIo,
                CloseJoinTimeout
  <2>4. QED
    BY <1>4, <2>1, <2>2, <2>3 DEF ConnOnly
<1>5. QED
  BY <1>1, <1>2, <1>3, <1>4 DEF Next

\* Only the scan makes the timeout thread throw.
LEMMA OnlyScanCrashes == Next /\ crash' = "timeout" => ScanTimeouts
<1> SUFFICES ASSUME Next, crash' = "timeout", ~ScanTimeouts
             PROVE  FALSE
  OBVIOUS
<1>0. crash # "timeout"
  BY NextNeedsAlive DEF Alive
<1>1. ASSUME NEW k \in Calls, Call(k) \/ ServerAnswer(k) \/ HandleResponse(k)
      PROVE  FALSE
  BY <1>0, <1>1 DEF Call, LoadCounter, StoreCounter, Register, CheckLink, Send, Return,
                    ServerAnswer, HandleResponse, OnEvent, CallbackReturn, connVars
<1>2. CASE \/ Tick \/ LoseLink \/ TakeMessageMutex \/ FlushOne \/ FlushDone
           \/ FailPending \/ Destroy
  BY <1>0, <1>2 DEF Tick, LoseLink, WsLost, CloseWs, TakeMessageMutex, OnOpenLock, FlushOne,
                    FlushDone, OnOpenDone, FailPending, CloseClear, Destroy, Destruct, connVars
<1>3. CASE ConnOnly
  <2>1. CASE WsOpen \/ OnFail \/ OnClose \/ IoExit \/ OnOpenMark \/ OnOpenRegister \/ OnOpenSendRegister
    BY <1>0, <2>1 DEF WsOpen, OnFail, OnClose, IoExit, OnOpenMark, OnOpenRegister,
                OnOpenSendRegister
  <2>2. CASE DownTest \/ RetryTest \/ StartFlags \/ StartConnect \/ TimeoutCheck \/ PingThread
    BY <1>0, <2>2 DEF DownTest, RetryTest, StartFlags, StartConnect, TimeoutCheck, PingThread,
                      PingCheck, PingWake, PingTest, PingSend
  <2>3. CASE \/ CloseBegin \/ CloseDisconnect \/ CloseJoinPing \/ CloseStop
             \/ CloseJoinIo \/ CloseJoinTimeout
    BY <1>0, <2>3 DEF CloseBegin, CloseDisconnect, CloseJoinPing, CloseStop, CloseJoinIo,
                      CloseJoinTimeout
  <2>4. QED
    BY <1>3, <2>1, <2>2, <2>3 DEF ConnOnly
<1>4. QED
  BY <1>1, <1>2, <1>3 DEF Next

(***************************************************************************)
(* The timeout thread throws only at an entry a failed send left behind:   *)
(* those of close() come after the thread was joined.                      *)
(***************************************************************************)
LEMMA TimeoutCrashStep ==
  ReqInv /\ TimeoutCrashNeedsFailedSend /\ [Next]_vars => TimeoutCrashNeedsFailedSend'
<1> SUFFICES ASSUME ReqInv, TimeoutCrashNeedsFailedSend, [Next]_vars, crash' = "timeout"
             PROVE  \E k \in Calls : outcome'[k] = "send_failed" /\ age'[k] > RequestTimeout
  BY DEF TimeoutCrashNeedsFailedSend
<1>1. CASE ScanTimeouts
  <2>1. tmo = "sleep" /\ crash = "none" /\ Expired \cap Satisfied # {}
    BY <1>1 DEF ScanTimeouts, TimeoutScan, Alive
  <2>2. ~CloseEnded
    BY <2>1 DEF ReqInv, ConnInv, JoinsHold, CloseEnded, Ended
  <2>3. PICK k \in Expired \cap Satisfied : TRUE
    BY <2>1
  <2>4. k \in Calls /\ entry[k] = "satisfied" /\ age[k] > RequestTimeout
    BY <2>3 DEF Expired, Satisfied
  <2>5. outcome[k] = "send_failed"
    BY <2>2, <2>4 DEF ReqInv, TableInv, EntryMatchesPromise
  <2>6. UNCHANGED <<age, outcome>>
    BY <1>1, <2>1 DEF ScanTimeouts, tableVars
  <2>7. QED
    BY <2>4, <2>5, <2>6
<1>2. CASE UNCHANGED vars
  BY <1>2 DEF vars, connVars, reqVars, tableVars, TimeoutCrashNeedsFailedSend
<1>3. QED
  BY <1>1, <1>2, OnlyScanCrashes

(***************************************************************************)
(* Without a failed send the timeout thread lives until close() joins it.  *)
(***************************************************************************)
THEOREM TimeoutCrashCause == SafeSpec => []TimeoutCrashNeedsFailedSend
<1>1. Init => TimeoutCrashNeedsFailedSend
  BY DEF Init, ConnInit, TimeoutCrashNeedsFailedSend
<1>2. ReqInv /\ TimeoutCrashNeedsFailedSend /\ [Next]_vars => TimeoutCrashNeedsFailedSend'
  BY TimeoutCrashStep
<1>3. QED
  BY <1>1, <1>2, ReqInvHolds, PTL DEF SafeSpec

-------------------------------------------------------------------------------
(***************************************************************************)
(* The throws of close() and of the destructor.                            *)
(***************************************************************************)

FailedSend == \E k \in Calls : outcome[k] = "send_failed"

\* The first satisfied entry is a failed send's; close() adds others only when
\* it meets one.
SatisfiedNeedsFailedSend == Satisfied # {} => FailedSend

\* No other step ends a shutdown by a throw.
LEMMA OnlyClearingThrows ==
  ASSUME Next, ~FailPending, ~Destroy
  PROVE  (close' = "threw" => close = "threw") /\ crash' # "destructor"
<1>0. crash # "destructor"
  BY NextNeedsAlive DEF Alive
<1>1. ASSUME NEW k \in Calls, Call(k) \/ ServerAnswer(k) \/ HandleResponse(k)
      PROVE  (close' = "threw" => close = "threw") /\ crash' # "destructor"
  BY <1>0, <1>1 DEF Call, LoadCounter, StoreCounter, Register, CheckLink, Send, Return,
                    ServerAnswer, HandleResponse, OnEvent, CallbackReturn, connVars
<1>2. CASE Tick \/ ScanTimeouts \/ LoseLink \/ TakeMessageMutex \/ FlushOne \/ FlushDone
  BY <1>0, <1>2 DEF Tick, ScanTimeouts, TimeoutScan, LoseLink, WsLost, CloseWs, TakeMessageMutex,
                    OnOpenLock, FlushOne, FlushDone, OnOpenDone, connVars
<1>3. CASE ConnOnly
  <2>1. CASE WsOpen \/ OnFail \/ OnClose \/ IoExit \/ OnOpenMark \/ OnOpenRegister \/ OnOpenSendRegister
    BY <1>0, <2>1 DEF WsOpen, OnFail, OnClose, IoExit, OnOpenMark, OnOpenRegister,
                      OnOpenSendRegister
  <2>2. CASE DownTest \/ RetryTest \/ StartFlags \/ StartConnect \/ TimeoutCheck \/ PingThread
    BY <1>0, <2>2 DEF DownTest, RetryTest, StartFlags, StartConnect, TimeoutCheck, PingThread,
                      PingCheck, PingWake, PingTest, PingSend
  <2>3. CASE \/ CloseBegin \/ CloseDisconnect \/ CloseJoinPing \/ CloseStop
             \/ CloseJoinIo \/ CloseJoinTimeout
    BY <1>0, <2>3 DEF CloseBegin, CloseDisconnect, CloseJoinPing, CloseStop, CloseJoinIo,
                      CloseJoinTimeout
  <2>4. QED
    BY <1>3, <2>1, <2>2, <2>3 DEF ConnOnly
<1>4. QED
  BY <1>1, <1>2, <1>3 DEF Next

(***************************************************************************)
(* Only a failed send brings the first satisfied entry into the table.     *)
(***************************************************************************)
LEMMA SatisfiedStep ==
  ReqInv /\ SatisfiedNeedsFailedSend /\ [Next]_vars => SatisfiedNeedsFailedSend'
<1> SUFFICES ASSUME ReqInv, SatisfiedNeedsFailedSend, [Next]_vars, Satisfied' # {}
             PROVE  FailedSend'
  BY DEF SatisfiedNeedsFailedSend
<1>0. FailedSend => FailedSend'
  BY OutcomeStep DEF FailedSend
<1> SUFFICES ASSUME ~FailedSend
             PROVE  FailedSend'
  BY <1>0
<1>1. \A k \in Calls : entry[k] # "satisfied"
  BY DEF SatisfiedNeedsFailedSend, Satisfied
<1>2. PICK c \in Calls : entry'[c] = "satisfied"
  BY DEF Satisfied
<1> USE DEF ReqInv, TypeOK, callVars, tableVars, reqVars
<1>3. ASSUME NEW k \in Calls, Send(k)
      PROVE  FailedSend'
  <2>1. ws # "open"
    BY <1>1, <1>2, <1>3 DEF Send
  <2>2. c \in Found(k) \cap Waiting
    BY <1>1, <1>2, <1>3, <2>1 DEF Send, SetOn, Found, Waiting
  <2>3. outcome'[c] = "send_failed"
    BY <1>3, <2>1, <2>2 DEF Send, SetOn
  <2>4. QED
    BY <2>3 DEF FailedSend
<1>4. ASSUME NEW k \in Calls, Call(k), ~Send(k)
      PROVE  FALSE
  BY <1>1, <1>2, <1>4 DEF Call, LoadCounter, StoreCounter, Register, CheckLink, Return, SetOn
<1>5. ASSUME NEW k \in Calls, ServerAnswer(k) \/ HandleResponse(k)
      PROVE  FALSE
  BY <1>1, <1>2, <1>5 DEF ServerAnswer, HandleResponse, SetOn
<1>6. CASE Tick \/ LoseLink \/ TakeMessageMutex \/ FlushOne \/ FlushDone \/ ConnOnly
  BY <1>1, <1>2, <1>6 DEF Tick, LoseLink, TakeMessageMutex, FlushOne, FlushDone, ConnOnly
<1>7. CASE ScanTimeouts \/ FailPending \/ Destroy
  <2>1. Satisfied = {}
    BY <1>1 DEF Satisfied
  <2>2. entry'[c] \in {entry[c], "absent"}
    <3>1. CASE ScanTimeouts
      <4>1. Expired \cap Satisfied = {}
        BY <2>1
      <4>2. entry' = SetOn(entry, Expired, "absent")
        BY <3>1, <4>1 DEF ScanTimeouts
      <4>3. QED
        BY <4>2 DEF SetOn
    <3>2. CASE FailPending
      BY <2>1, <3>2 DEF FailPending
    <3>3. CASE Destroy
      BY <2>1, <3>3 DEF Destroy
    <3>4. QED
      BY <1>7, <3>1, <3>2, <3>3
  <2>3. QED
    BY <1>1, <1>2, <2>2
<1>8. CASE UNCHANGED vars
  BY <1>1, <1>2, <1>8 DEF vars
<1>9. QED
  BY <1>3, <1>4, <1>5, <1>6, <1>7, <1>8 DEF Next

(***************************************************************************)
(* Without a failed send neither close() nor the destructor throws.        *)
(***************************************************************************)
THEOREM ShutdownThrowCause == SafeSpec => []ShutdownThrowNeedsFailedSend
<1> DEFINE I == SatisfiedNeedsFailedSend /\ ShutdownThrowNeedsFailedSend
<1>1. Init => I
  BY DEF Init, ConnInit, SatisfiedNeedsFailedSend, Satisfied, ShutdownThrowNeedsFailedSend
<1>2. ReqInv /\ I /\ [Next]_vars => I'
  <2> SUFFICES ASSUME ReqInv, I, [Next]_vars, close' = "threw" \/ crash' = "destructor"
               PROVE  FailedSend'
    BY SatisfiedStep DEF ShutdownThrowNeedsFailedSend, FailedSend
  <2>1. FailedSend => FailedSend'
    BY OutcomeStep DEF FailedSend
  <2>2. CASE FailPending \/ Destroy
    <3>1. close = "threw" \/ Satisfied # {}
      <4>1. crash = "none"
        BY <2>2, NextNeedsAlive DEF Next, Alive
      <4>2. QED
        BY <2>2, <4>1 DEF FailPending, CloseClear, Destroy, Destruct
    <3>2. QED
      BY <2>1, <3>1 DEF SatisfiedNeedsFailedSend, ShutdownThrowNeedsFailedSend, FailedSend
  <2>3. CASE Next /\ ~FailPending /\ ~Destroy
    BY <2>1, <2>3, OnlyClearingThrows DEF ShutdownThrowNeedsFailedSend, FailedSend
  <2>4. CASE UNCHANGED vars
    BY <2>1, <2>4 DEF vars, connVars, ShutdownThrowNeedsFailedSend, FailedSend
  <2>5. QED
    BY <2>2, <2>3, <2>4
<1>3. QED
  BY <1>1, <1>2, ReqInvHolds, PTL DEF SafeSpec

-------------------------------------------------------------------------------
(***************************************************************************)
(* Crossed answers.                                                        *)
(***************************************************************************)

\* The table is keyed by number.
KeysUnique ==
  \A j, k \in Calls : entry[j] # "absent" /\ entry[k] # "absent" /\ reqId[j] = reqId[k]
                        => j = k

OnWire == uplink \cup downlink

\* What is on the wire was transmitted, and is a question or an answer.
WireWasSent == uplink \cap downlink = {} /\ \A k \in OnWire : sends[k] = 1

\* The one answer to k's message was used up.
AnswerSpent(k) == sends[k] = 1 /\ k \notin OnWire

AnsweredIsSpent == \A k \in Calls : outcome[k] = "answered" => AnswerSpent(k)

CrossedHasOwner ==
  \A k \in Calls : outcome[k] = "crossed" =>
    \E j \in Calls \ {k} : reqId[j] = reqId[k] /\ outcome[j] # "answered" /\ AnswerSpent(j)

CrossInv == KeysUnique /\ WireWasSent /\ AnsweredIsSpent /\ CrossedHasOwner

(***************************************************************************)
(* A step that decides no outcome, numbers no call and puts nothing spent  *)
(* back on the wire keeps the owners of crossed answers.                   *)
(***************************************************************************)
LEMMA OwnersKept ==
  ASSUME ReqInv, CrossInv, ReqInv',
         \A k \in Calls : outcome'[k] \in {"answered", "crossed"} => outcome'[k] = outcome[k],
         \A k \in Calls : outcome[k] = "crossed" => outcome'[k] = "crossed",
         \A k \in Calls : sends[k] = 1 => reqId'[k] = reqId[k],
         \A k \in Calls : outcome[k] # "none" => reqId'[k] = reqId[k],
         \A k \in Calls : AnswerSpent(k) => AnswerSpent(k)'
  PROVE  AnsweredIsSpent' /\ CrossedHasOwner'
<1>1. AnsweredIsSpent'
  BY DEF CrossInv, AnsweredIsSpent
<1>2. ASSUME NEW k \in Calls, outcome'[k] = "crossed"
      PROVE  \E j \in Calls \ {k} : reqId'[j] = reqId'[k] /\ outcome'[j] # "answered" /\ AnswerSpent(j)'
  <2>1. outcome[k] = "crossed"
    BY <1>2
  <2>2. PICK j \in Calls \ {k} : reqId[j] = reqId[k] /\ outcome[j] # "answered" /\ AnswerSpent(j)
    BY <2>1 DEF CrossInv, CrossedHasOwner
  <2>3. reqId'[j] = reqId[j] /\ reqId'[k] = reqId[k] /\ outcome'[j] # "answered" /\ AnswerSpent(j)'
    BY <2>1, <2>2 DEF AnswerSpent
  <2>4. QED
    BY <2>2, <2>3
<1>3. QED
  BY <1>1, <1>2 DEF CrossedHasOwner

(***************************************************************************)
(* Every step keeps the wire, the keys and the owners of crossed answers.  *)
(***************************************************************************)
LEMMA CrossStep == ReqInv /\ ReqInv' /\ QueueInv /\ CrossInv /\ [Next]_vars => CrossInv'
<1> SUFFICES ASSUME ReqInv, ReqInv', QueueInv, CrossInv, [Next]_vars
             PROVE  CrossInv'
  OBVIOUS
<1>0. /\ TypeOK /\ FreshCalls /\ UnsentBefore /\ QueuedUnsent
      /\ KeysUnique /\ WireWasSent /\ AnsweredIsSpent /\ CrossedHasOwner
  BY DEF ReqInv, TableInv, QueueInv, CrossInv
<1> USE <1>0 DEF TypeOK, FreshCalls, UnsentBefore, KeysUnique, WireWasSent, OnWire,
                 AnswerSpent, callVars, tableVars, wireVars, reqVars, Waiting
<1>1. ASSUME NEW k \in Calls, LoadCounter(k)
      PROVE  CrossInv'
  <2>1. KeysUnique' /\ WireWasSent'
    BY <1>1 DEF LoadCounter
  <2>2. AnsweredIsSpent' /\ CrossedHasOwner'
    BY <1>1, OwnersKept DEF LoadCounter
  <2>3. QED
    BY <2>1, <2>2 DEF CrossInv
<1>2. ASSUME NEW k \in Calls, StoreCounter(k) \/ CheckLink(k) \/ Return(k)
      PROVE  CrossInv'
  <2>1. UNCHANGED <<reqId, entry, outcome, uplink, downlink, sends>>
    BY <1>2 DEF StoreCounter, CheckLink, Return
  <2>2. QED
    BY <2>1 DEF CrossInv, AnsweredIsSpent, CrossedHasOwner
<1>3. ASSUME NEW k \in Calls, Register(k)
      PROVE  CrossInv'
  <2>1. KeysUnique' /\ WireWasSent'
    BY <1>3 DEF Register, SetOn, Found
  <2>2. UNCHANGED <<reqId, uplink, downlink, sends>>
    BY <1>3 DEF Register
  <2>3. \A j \in Calls : outcome'[j] = outcome[j] \/ outcome'[j] = "broken"
    BY <1>3 DEF Register, SetOn
  <2>4. \A j \in Calls : outcome[j] # "none" => outcome'[j] = outcome[j]
    BY OutcomeStep
  <2>5. AnsweredIsSpent' /\ CrossedHasOwner'
    BY <2>2, <2>3, <2>4, OwnersKept
  <2>6. QED
    BY <2>1, <2>5 DEF CrossInv
<1>4. ASSUME NEW k \in Calls, Send(k)
      PROVE  CrossInv'
  <2>1. pc[k] = "sending" /\ sends[k] = 0
    BY <1>4 DEF Send
  <2>2. CASE ws = "open"
    <3>1. /\ uplink' = uplink \cup {k} /\ sends' = [sends EXCEPT ![k] = sends[k] + 1]
          /\ UNCHANGED <<reqId, entry, outcome, downlink>>
      BY <1>4, <2>2 DEF Send
    <3>2. sends'[k] = 1 /\ \A j \in Calls \ {k} : sends'[j] = sends[j]
      BY <2>1, <3>1
    <3>3. k \notin uplink /\ k \notin downlink
      BY <2>1
    <3>4. KeysUnique' /\ WireWasSent'
      BY <3>1, <3>2, <3>3
    <3>5. \A j \in Calls : AnswerSpent(j) => AnswerSpent(j)'
      BY <2>1, <3>1, <3>2
    <3>6. AnsweredIsSpent' /\ CrossedHasOwner'
      BY <3>1, <3>5, OwnersKept
    <3>7. QED
      BY <3>4, <3>6 DEF CrossInv
  <2>3. CASE ws # "open"
    <3>1. /\ entry' = SetOn(entry, Found(k), "satisfied")
          /\ outcome' = SetOn(outcome, Found(k) \cap Waiting, "send_failed")
          /\ UNCHANGED <<reqId, uplink, downlink, sends>>
      BY <1>4, <2>3 DEF Send
    <3>2. \A j \in Calls : entry'[j] # "absent" => entry[j] # "absent"
      BY <3>1 DEF SetOn, Found
    <3>3. KeysUnique' /\ WireWasSent'
      BY <3>1, <3>2
    <3>4. \A j \in Calls : outcome'[j] = outcome[j] \/ outcome'[j] = "send_failed"
      BY <3>1 DEF SetOn
    <3>5. \A j \in Calls : outcome[j] # "none" => outcome'[j] = outcome[j]
      BY OutcomeStep
    <3>6. AnsweredIsSpent' /\ CrossedHasOwner'
      BY <3>1, <3>4, <3>5, OwnersKept
    <3>7. QED
      BY <3>3, <3>6 DEF CrossInv
  <2>4. QED
    BY <2>2, <2>3
<1>5. ASSUME NEW k \in Calls, ServerAnswer(k)
      PROVE  CrossInv'
  <2>1. KeysUnique' /\ WireWasSent'
    BY <1>5 DEF ServerAnswer
  <2>2. AnsweredIsSpent' /\ CrossedHasOwner'
    BY <1>5, OwnersKept DEF ServerAnswer
  <2>3. QED
    BY <2>1, <2>2 DEF CrossInv
<1>6. ASSUME NEW j \in Calls, HandleResponse(j)
      PROVE  CrossInv'
  <2> DEFINE resolved == Found(j) \cap Waiting
  <2>1. /\ j \in downlink /\ downlink' = downlink \ {j}
        /\ UNCHANGED <<reqId, uplink, sends>>
        /\ entry' = SetOn(entry, resolved, "absent")
        /\ outcome' = [c \in Calls |-> IF c \notin resolved THEN outcome[c]
                                       ELSE IF c = j THEN "answered" ELSE "crossed"]
    BY <1>6 DEF HandleResponse
  <2>2. sends[j] = 1 /\ AnswerSpent(j)' /\ outcome[j] # "answered"
    BY <2>1 DEF AnsweredIsSpent
  <2>3. \A c \in Calls : AnswerSpent(c) => AnswerSpent(c)'
    BY <2>1
  <2>4. KeysUnique' /\ WireWasSent'
    BY <2>1 DEF SetOn
  <2>5. AnsweredIsSpent'
    BY <2>1, <2>2, <2>3 DEF AnsweredIsSpent
  <2>6. ASSUME NEW k \in Calls, outcome'[k] = "crossed"
        PROVE  \E c \in Calls \ {k} : reqId'[c] = reqId'[k] /\ outcome'[c] # "answered" /\ AnswerSpent(c)'
    <3>1. CASE k \in resolved
      <4>1. k # j /\ reqId[j] = reqId[k] /\ entry[k] = "waiting"
        BY <2>1, <2>6, <3>1 DEF Found
      <4>2. j \notin resolved
        BY <4>1 DEF Found
      <4>3. outcome'[j] = outcome[j]
        BY <2>1, <4>2
      <4>4. QED
        BY <2>1, <2>2, <4>1, <4>3
    <3>2. CASE k \notin resolved
      <4>1. outcome[k] = "crossed"
        BY <2>1, <2>6, <3>2
      <4>2. PICK c \in Calls \ {k} : reqId[c] = reqId[k] /\ outcome[c] # "answered" /\ AnswerSpent(c)
        BY <4>1 DEF CrossedHasOwner
      <4>3. c # j
        BY <2>1, <4>2
      <4>4. outcome'[c] # "answered"
        BY <2>1, <4>2, <4>3
      <4>5. QED
        BY <2>1, <2>3, <4>2, <4>4
    <3>3. QED
      BY <3>1, <3>2
  <2>7. QED
    BY <2>4, <2>5, <2>6 DEF CrossInv, CrossedHasOwner
<1>7. CASE ScanTimeouts \/ FailPending \/ Destroy
  <2>1. /\ UNCHANGED <<reqId, sends>> /\ uplink' \in {uplink, {}} /\ downlink' \in {downlink, {}}
    BY <1>7 DEF ScanTimeouts, FailPending, Destroy
  <2>2. \A k \in Calls : outcome'[k] = outcome[k] \/ outcome'[k] \in {"timeout", "closed"}
    BY <1>7 DEF ScanTimeouts, FailPending, Destroy, SetOn
  <2>3. \A k \in Calls : outcome[k] # "none" => outcome'[k] = outcome[k]
    BY OutcomeStep
  <2>4. \A k \in Calls : entry'[k] # "absent" => entry[k] # "absent"
    BY <1>7 DEF ScanTimeouts, FailPending, Destroy, SetOn
  <2>5. KeysUnique' /\ WireWasSent'
    BY <2>1, <2>4
  <2>6. AnsweredIsSpent' /\ CrossedHasOwner'
    BY <2>1, <2>2, <2>3, OwnersKept
  <2>7. QED
    BY <2>5, <2>6 DEF CrossInv
<1>8. CASE Tick \/ TakeMessageMutex \/ FlushDone \/ ConnOnly \/ UNCHANGED vars
  <2>1. UNCHANGED <<reqId, entry, outcome, uplink, downlink, sends>>
    BY <1>8 DEF Tick, TakeMessageMutex, FlushDone, ConnOnly, vars
  <2>2. QED
    BY <2>1 DEF CrossInv, AnsweredIsSpent, CrossedHasOwner
<1>9. CASE LoseLink
  <2>1. KeysUnique' /\ WireWasSent'
    BY <1>9 DEF LoseLink
  <2>2. AnsweredIsSpent' /\ CrossedHasOwner'
    BY <1>9, OwnersKept DEF LoseLink
  <2>3. QED
    BY <2>1, <2>2 DEF CrossInv
<1>10. CASE FlushOne
  <2> DEFINE k == Head(queue)
  <2>1. queue # << >> /\ queue \in Seq(Calls) /\ UNCHANGED <<reqId, entry, outcome, downlink>>
    BY <1>10 DEF FlushOne
  <2>2. k \in Calls /\ sends[k] = 0
    BY <2>1, TailFacts DEF QueueInv, QueuedOnce, QueuedUnsent
  <2>3. CASE ws = "open"
    <3>1. uplink' = uplink \cup {k} /\ sends' = [sends EXCEPT ![k] = sends[k] + 1]
      BY <1>10, <2>3 DEF FlushOne
    <3>2. sends'[k] = 1 /\ \A j \in Calls \ {k} : sends'[j] = sends[j]
      BY <2>2, <3>1
    <3>3. k \notin uplink /\ k \notin downlink
      BY <2>2
    <3>4. KeysUnique' /\ WireWasSent'
      BY <2>1, <2>2, <3>1, <3>2, <3>3
    <3>5. \A j \in Calls : AnswerSpent(j) => AnswerSpent(j)'
      BY <2>1, <2>2, <3>1, <3>2
    <3>6. AnsweredIsSpent' /\ CrossedHasOwner'
      BY <2>1, <3>5, OwnersKept
    <3>7. QED
      BY <3>4, <3>6 DEF CrossInv
  <2>4. CASE ws # "open"
    <3>1. UNCHANGED <<reqId, entry, outcome, uplink, downlink, sends>>
      BY <1>10, <2>1, <2>4 DEF FlushOne
    <3>2. QED
      BY <3>1 DEF CrossInv, AnsweredIsSpent, CrossedHasOwner
  <2>5. QED
    BY <2>3, <2>4
<1>11. QED
  BY <1>1, <1>2, <1>3, <1>4, <1>5, <1>6, <1>7, <1>8, <1>9, <1>10 DEF Next, Call

(***************************************************************************)
(* A call is given another call's answer only when the two took the same   *)
(* number off the unsynchronised counter.                                  *)
(***************************************************************************)
THEOREM CrossedNeedsSharedNumber == SafeSpec => []CrossedOnlyBySharedNumber
<1>1. Init => CrossInv
  BY DEF Init, CrossInv, KeysUnique, WireWasSent, OnWire, AnsweredIsSpent, CrossedHasOwner
<1>2. Init => QueueInv
  BY DEF Init, QueueInv, UnsentBefore, QueuedUnsent, QueuedOnce, SentOnce, Range
<1>3. ReqInv /\ QueueInv /\ [Next]_vars => QueueInv'
  BY QueueStep DEF ReqInv
<1>4. ReqInv /\ ReqInv' /\ QueueInv /\ CrossInv /\ [Next]_vars => CrossInv'
  BY CrossStep
<1>5. CrossInv => CrossedOnlyBySharedNumber
  BY DEF CrossInv, CrossedHasOwner, CrossedOnlyBySharedNumber
<1>6. QED
  BY <1>1, <1>2, <1>3, <1>4, <1>5, ReqInvHolds, PTL DEF SafeSpec

-------------------------------------------------------------------------------
(***************************************************************************)
(* Callbacks: a call made in one holds the I/O thread until it returns.    *)
(***************************************************************************)

Active(k) == pc[k] \notin {"idle", "returned"}

\* An active call of a callback holds the I/O thread ...
ActiveHoldsIo == \A k \in CallbackCalls : Active(k) => io = "callback"

\* ... alone.
OneActive == \A j, k \in CallbackCalls : Active(j) /\ Active(k) => j = k

\* A call returns with an outcome.
ReturnedWasTold == \A k \in Calls : pc[k] = "returned" => outcome[k] # "none"

CallbackInv == ActiveHoldsIo /\ OneActive /\ ReturnedWasTold /\ CallbackCallsUnanswered

(***************************************************************************)
(* Only the return of a callback's call takes the I/O thread out of a      *)
(* callback.                                                               *)
(***************************************************************************)
LEMMA CallbackHoldsIo ==
  [Next]_vars /\ io = "callback" => io' = "callback" \/ \E k \in CallbackCalls : Return(k)
<1> SUFFICES ASSUME [Next]_vars, io = "callback"
             PROVE  io' = "callback" \/ \E k \in CallbackCalls : Return(k)
  OBVIOUS
<1> USE DEF connVars, reqVars
<1>1. ASSUME NEW k \in Calls, Call(k)
      PROVE  io' = "callback" \/ \E j \in CallbackCalls : Return(j)
  <2>1. CASE Return(k)
    BY <2>1 DEF Return
  <2>2. CASE ~Return(k)
    BY <1>1, <2>2 DEF Call, LoadCounter, OnEvent, StoreCounter, Register, CheckLink, Send
  <2>3. QED
    BY <2>1, <2>2
<1>2. ASSUME NEW k \in Calls, ServerAnswer(k) \/ HandleResponse(k)
      PROVE  io' = "callback"
  BY <1>2 DEF ServerAnswer, HandleResponse
<1>3. CASE Tick \/ FlushOne
  BY <1>3 DEF Tick, FlushOne
<1>4. CASE ScanTimeouts \/ FailPending \/ Destroy
  <2>1. CASE ScanTimeouts
    BY <2>1 DEF ScanTimeouts, TimeoutScan
  <2>2. CASE FailPending \/ Destroy
    BY <2>2 DEF FailPending, CloseClear, Destroy, Destruct
  <2>3. QED
    BY <1>4, <2>1, <2>2
<1>5. CASE LoseLink \/ TakeMessageMutex \/ FlushDone
  BY <1>5 DEF LoseLink, WsLost, LoopFree, CloseWs, TakeMessageMutex, OnOpenLock, FlushDone,
              OnOpenDone
<1>6. CASE ConnOnly
  <2>1. CASE WsOpen \/ OnFail \/ OnClose \/ IoExit \/ OnOpenMark \/ OnOpenRegister \/ OnOpenSendRegister
    BY <2>1 DEF WsOpen, OnFail, OnClose, LoopFree, IoExit, OnOpenMark, OnOpenRegister,
                OnOpenSendRegister
  <2>2. CASE DownTest \/ RetryTest \/ StartFlags \/ StartConnect
    BY <2>2 DEF DownTest, RetryTest, StartFlags, StartConnect
  <2>3. CASE TimeoutCheck \/ PingThread
    BY <2>3 DEF TimeoutCheck, PingThread, PingCheck, PingWake, PingTest, PingSend
  <2>4. CASE CloseBegin \/ CloseDisconnect \/ CloseJoinPing \/ CloseStop \/ CloseJoinIo \/ CloseJoinTimeout
    BY <2>4 DEF CloseBegin, CloseDisconnect, CloseJoinPing, CloseStop, CloseJoinIo,
                CloseJoinTimeout
  <2>5. QED
    BY <1>6, <2>1, <2>2, <2>3, <2>4 DEF ConnOnly
<1>7. CASE UNCHANGED vars
  BY <1>7 DEF vars
<1>8. QED
  BY <1>1, <1>2, <1>3, <1>4, <1>5, <1>6, <1>7 DEF Next

(***************************************************************************)
(* A step of the calls that is neither their first nor their last keeps    *)
(* who is active; the others do not touch the program counters.            *)
(***************************************************************************)
LEMMA ActiveSteps ==
  TypeOK /\ [Next]_vars =>
    \/ \E k \in Calls : LoadCounter(k) \/ Return(k)
    \/ \A k \in Calls : Active(k)' = Active(k) /\ (pc'[k] = "returned" => pc[k] = "returned")
<1> SUFFICES ASSUME TypeOK, [Next]_vars, \A k \in Calls : ~LoadCounter(k) /\ ~Return(k)
             PROVE  \A k \in Calls : /\ Active(k)' = Active(k)
                                     /\ pc'[k] = "returned" => pc[k] = "returned"
  OBVIOUS
<1>1. ASSUME NEW k \in Calls, Call(k)
      PROVE  \A j \in Calls : /\ Active(j)' = Active(j)
                              /\ pc'[j] = "returned" => pc[j] = "returned"
  <2>1. Active(k) /\ \E p \in {"numbered", "registered", "sending", "waiting"} :
                       pc' = [pc EXCEPT ![k] = p]
    BY <1>1 DEF Call, StoreCounter, Register, CheckLink, Send, Active
  <2>2. QED
    BY <2>1 DEF TypeOK, Active
<1>2. CASE UNCHANGED pc
  BY <1>2 DEF Active
<1>3. CASE \E k \in Calls : ServerAnswer(k) \/ HandleResponse(k)
  BY <1>2, <1>3 DEF ServerAnswer, HandleResponse, callVars
<1>4. CASE Tick \/ ScanTimeouts \/ LoseLink \/ TakeMessageMutex \/ FlushOne
  BY <1>2, <1>4 DEF Tick, ScanTimeouts, LoseLink, TakeMessageMutex, FlushOne, reqVars, callVars
<1>5. CASE FlushDone \/ FailPending \/ Destroy \/ ConnOnly \/ UNCHANGED vars
  BY <1>2, <1>5 DEF FlushDone, FailPending, Destroy, ConnOnly, vars, reqVars, callVars
<1>6. QED
  BY <1>1, <1>3, <1>4, <1>5 DEF Next

(***************************************************************************)
(* The answer of a callback's call would have to be read by the thread     *)
(* that waits for it.                                                      *)
(***************************************************************************)
LEMMA CallbackStep == ReqInv /\ CallbackInv /\ [Next]_vars => CallbackInv'
<1> SUFFICES ASSUME ReqInv, CallbackInv, [Next]_vars
             PROVE  CallbackInv'
  OBVIOUS
<1> USE CallsAssumption DEF CallbackInv
<1>1. TypeOK /\ TableInv
  BY DEF ReqInv
<1>2. ActiveHoldsIo' /\ OneActive'
  <2>1. CASE \E k \in Calls : LoadCounter(k)
    <3>1. PICK k \in Calls : LoadCounter(k)
      BY <2>1
    <3>2. pc' = [pc EXCEPT ![k] = "loaded"]
      BY <3>1 DEF LoadCounter
    <3>3. \A j \in Calls \ {k} : Active(j)' = Active(j)
      BY <1>1, <3>2 DEF TypeOK, Active
    <3>4. CASE k \in CallbackCalls
      <4>1. io = "run" /\ io' = "callback"
        BY <3>1, <3>4 DEF LoadCounter, OnEvent, LoopFree
      <4>2. \A j \in CallbackCalls : ~Active(j)
        BY <4>1 DEF ActiveHoldsIo
      <4>3. QED
        BY <3>3, <4>1, <4>2 DEF ActiveHoldsIo, OneActive
    <3>5. CASE k \notin CallbackCalls
      <4>1. io' = io
        BY <3>1, <3>5 DEF LoadCounter, connVars
      <4>2. QED
        BY <3>3, <3>5, <4>1 DEF ActiveHoldsIo, OneActive
    <3>6. QED
      BY <3>4, <3>5
  <2>2. CASE \E k \in Calls : Return(k)
    <3>1. PICK k \in Calls : Return(k)
      BY <2>2
    <3>2. pc[k] = "waiting" /\ pc' = [pc EXCEPT ![k] = "returned"]
      BY <3>1 DEF Return
    <3>3. Active(k) /\ ~Active(k)' /\ \A j \in Calls \ {k} : Active(j)' = Active(j)
      BY <1>1, <3>2 DEF TypeOK, Active
    <3>4. CASE k \in CallbackCalls
      <4>1. \A j \in CallbackCalls : ~Active(j)'
        BY <3>3, <3>4 DEF OneActive
      <4>2. QED
        BY <4>1 DEF ActiveHoldsIo, OneActive
    <3>5. CASE k \notin CallbackCalls
      <4>1. io' = io
        BY <3>1, <3>5 DEF Return, connVars
      <4>2. QED
        BY <3>3, <3>5, <4>1 DEF ActiveHoldsIo, OneActive
    <3>6. QED
      BY <3>4, <3>5
  <2>3. CASE \A k \in Calls : ~LoadCounter(k) /\ ~Return(k)
    <3>1. \A k \in Calls : Active(k)' = Active(k)
      BY <1>1, <2>3, ActiveSteps
    <3>2. io = "callback" => io' = "callback"
      BY <2>3, CallbackHoldsIo
    <3>3. QED
      BY <3>1, <3>2 DEF ActiveHoldsIo, OneActive
  <2>4. QED
    BY <2>1, <2>2, <2>3
<1>3. ReturnedWasTold'
  <2> SUFFICES ASSUME NEW k \in Calls, pc'[k] = "returned"
               PROVE  outcome'[k] # "none"
    BY DEF ReturnedWasTold
  <2>1. outcome[k] # "none" => outcome'[k] # "none"
    BY OutcomeStep
  <2>2. CASE \E j \in Calls : LoadCounter(j) \/ Return(j)
    BY <1>1, <2>1, <2>2 DEF ReturnedWasTold, LoadCounter, Return, TypeOK
  <2>3. CASE \A j \in Calls : ~LoadCounter(j) /\ ~Return(j)
    BY <1>1, <2>1, <2>3, ActiveSteps DEF ReturnedWasTold
  <2>4. QED
    BY <2>2, <2>3
<1>4. CallbackCallsUnanswered'
  <2> SUFFICES ASSUME NEW k \in CallbackCalls, outcome'[k] \in {"answered", "crossed"}
               PROVE  FALSE
    BY DEF CallbackCallsUnanswered
  <2>1. outcome[k] = "none"
    BY OutcomeStep DEF CallbackCallsUnanswered
  <2>2. PICK j \in Calls : HandleResponse(j)
    <3>1. UNCHANGED outcome => FALSE
      BY <2>1
    <3>2. ~ \E j \in Calls : Call(j)
      <4> SUFFICES ASSUME NEW j \in Calls, Call(j)
                   PROVE  outcome'[k] \in {outcome[k], "broken", "send_failed"}
        BY <2>1
      <4>1. CASE LoadCounter(j) \/ StoreCounter(j) \/ CheckLink(j) \/ Return(j)
        BY <4>1 DEF LoadCounter, StoreCounter, CheckLink, Return, tableVars
      <4>2. CASE Register(j)
        BY <1>1, <4>2 DEF Register, SetOn, TypeOK
      <4>3. CASE Send(j)
        BY <1>1, <4>3 DEF Send, SetOn, TypeOK
      <4>4. QED
        BY <4>1, <4>2, <4>3 DEF Call
    <3>3. ~ \E j \in Calls : ServerAnswer(j)
      BY <3>1 DEF ServerAnswer, tableVars
    <3>4. ~Tick /\ ~LoseLink /\ ~TakeMessageMutex /\ ~FlushOne /\ ~FlushDone /\ ~ConnOnly
      BY <3>1 DEF Tick, LoseLink, TakeMessageMutex, FlushOne, FlushDone, ConnOnly, tableVars,
                  reqVars
    <3>5. ~ScanTimeouts /\ ~FailPending /\ ~Destroy
      BY <1>1, <2>1, <3>1 DEF ScanTimeouts, FailPending, Destroy, SetOn, TypeOK, tableVars
    <3>6. ~UNCHANGED vars
      BY <3>1 DEF vars, reqVars, tableVars
    <3>7. QED
      BY <3>2, <3>3, <3>4, <3>5, <3>6 DEF Next
  <2>3. io = "run" /\ entry[k] = "waiting"
    BY <1>1, <2>1, <2>2 DEF HandleResponse, LoopFree, Found, Waiting, TypeOK
  <2>4. ~Active(k)
    BY <2>3 DEF ActiveHoldsIo
  <2>5. QED
    BY <1>1, <2>1, <2>3, <2>4 DEF Active, TableInv, FreshCalls, ReturnedWasTold
<1>5. QED
  BY <1>2, <1>3, <1>4

(***************************************************************************)
(* A call made in an event callback is never given an answer.              *)
(***************************************************************************)
THEOREM CallbacksGetNoAnswer == SafeSpec => []CallbackCallsUnanswered
<1>1. Init => CallbackInv
  BY CallsAssumption DEF Init, CallbackInv, ActiveHoldsIo, OneActive, ReturnedWasTold, Active,
                         CallbackCallsUnanswered
<1>2. ReqInv /\ CallbackInv /\ [Next]_vars => CallbackInv'
  BY CallbackStep
<1>3. CallbackInv => CallbackCallsUnanswered
  BY DEF CallbackInv
<1>4. QED
  BY <1>1, <1>2, <1>3, ReqInvHolds, PTL DEF SafeSpec

-------------------------------------------------------------------------------
(***************************************************************************)
(* The request path keeps the promises of module Promises.                 *)
(***************************************************************************)
PromiseInv == ReqInv /\ QueueInv /\ CrossInv

\* The end of the owner, as module Promises sees it.
Over == CloseBegun \/ ~Alive

(***************************************************************************)
(* An owner that is being shut down, or died, stays so.                    *)
(***************************************************************************)
LEMMA OverStays == [ConnNext]_connVars /\ Over => Over'
<1> SUFFICES ASSUME [ConnNext]_connVars, Over
             PROVE  Over'
  OBVIOUS
<1> USE DEF Over, CloseBegun, Alive
<1>1. CASE Transport
  BY <1>1 DEF Transport, WsOpen, OnFail, WsLost, OnEvent
<1>2. CASE IoHandler
  BY <1>2 DEF IoHandler, OnClose, CallbackReturn, IoExit, OnOpenMark, OnOpenRegister,
              OnOpenSendRegister, OnOpenLock, OnOpenDone, DownTest, RetryTest, StartFlags,
              StartConnect
<1>3. CASE TimeoutThread \/ PingThread
  BY <1>3 DEF TimeoutThread, PingThread, TimeoutCheck, TimeoutScan, PingCheck, PingWake,
              PingTest, PingSend
<1>4. CASE CloseBegin \/ CloseCall
  BY <1>4 DEF CloseBegin, CloseCall, CloseDisconnect, CloseJoinPing, CloseWs, CloseStop,
              CloseJoinIo, CloseJoinTimeout, CloseClear
<1>5. CASE BinaryCallbackThrows \/ \E throws \in BOOLEAN : Destruct(throws)
  BY <1>5 DEF BinaryCallbackThrows, Destruct
<1>6. CASE UNCHANGED connVars
  BY <1>6 DEF connVars
<1>7. QED
  BY <1>1, <1>2, <1>3, <1>4, <1>5, <1>6 DEF ConnNext

(***************************************************************************)
(* The step of a call, as its caller sees it: its future is made at the    *)
(* registration, its message transmitted or its promise failed in Send.    *)
(***************************************************************************)
LEMMA CallPromiseStep ==
  ASSUME PromiseInv, NEW k \in Calls, Call(k)
  PROVE  [Promise!Next]_(Promise!vars)
<1> USE DEF PromiseInv, ReqInv, TypeOK, TableInv, EntryMatchesPromise, FreshCalls
<1> DEFINE Later == {j \in Calls : pc[j] \notin {"idle", "loaded", "numbered"}}
<1>1. CASE LoadCounter(k) \/ StoreCounter(k) \/ CheckLink(k) \/ Return(k)
  <2>1. /\ sends' = sends /\ outcome' = outcome /\ close' = close /\ crash' = crash
        /\ \A j \in Calls : pc'[j] \in {"idle", "loaded", "numbered"} <=>
                            pc[j] \in {"idle", "loaded", "numbered"}
    BY <1>1 DEF LoadCounter, StoreCounter, CheckLink, Return, OnEvent, CallbackReturn, connVars,
                tableVars
  <2>2. Later' = Later
    BY <2>1
  <2>3. QED
    BY <2>1, <2>2 DEF Promise!vars, CloseBegun, Alive
<1>2. CASE Register(k)
  <2> DEFINE S == Found(k) \cap Waiting
  <2>1. /\ pc[k] = "numbered" /\ pc' = [pc EXCEPT ![k] = "registered"]
        /\ sends' = sends /\ close' = close /\ crash' = crash
        /\ outcome' = SetOn(outcome, S, "broken")
    BY <1>2 DEF Register, connVars
  <2>2. k \notin Later /\ Later' = Later \cup {k}
    BY <2>1
  <2>3. S \subseteq {j \in Later : outcome[j] = "none"}
    BY DEF Found, Waiting
  <2>4. /\ \A j \in Calls : outcome'[j] # outcome[j] => j \in S
        /\ \A j \in S : outcome'[j] = "broken"
    BY <2>1 DEF SetOn, Waiting
  <2>5. Promise!Make(k)
    BY <2>1, <2>2, <2>3, <2>4 DEF Promise!Make, Promise!Decide, Promise!Open, CloseBegun, Alive
  <2>6. QED
    BY <2>5 DEF Promise!Next
<1>3. CASE Send(k)
  <2>1. /\ pc[k] = "sending" /\ pc' = [pc EXCEPT ![k] = "waiting"]
        /\ close' = close /\ crash' = crash
    BY <1>3 DEF Send, connVars
  <2>2. Later' = Later
    BY <2>1
  <2>3. CASE ws = "open"
    <3>1. sends[k] = 0 /\ sends' = [sends EXCEPT ![k] = sends[k] + 1] /\ outcome' = outcome
      BY <1>3, <2>1, <2>3 DEF Send, QueueInv, UnsentBefore
    <3>2. sends' = [sends EXCEPT ![k] = 1]
      BY <3>1
    <3>3. Promise!Transmit(k)
      BY <2>1, <2>2, <3>1, <3>2 DEF Promise!Transmit, CloseBegun, Alive
    <3>4. QED
      BY <3>3 DEF Promise!Next
  <2>4. CASE ws # "open"
    <3> DEFINE S == Found(k) \cap Waiting
    <3>1. outcome' = SetOn(outcome, S, "send_failed") /\ sends' = sends
      BY <1>3, <2>4 DEF Send
    <3>2. S \subseteq {j \in Later : outcome[j] = "none"}
      BY DEF Found, Waiting
    <3>3. /\ \A j \in Calls : outcome'[j] # outcome[j] => j \in S
          /\ \A j \in S : outcome'[j] = "send_failed"
      BY <3>1 DEF SetOn, Waiting
    <3>4. Promise!Tell
      BY <2>1, <2>2, <3>1, <3>2, <3>3
         DEF Promise!Tell, Promise!Decide, Promise!Open, CloseBegun, Alive
    <3>5. QED
      BY <3>4 DEF Promise!Next
  <2>5. QED
    BY <2>3, <2>4
<1>4. QED
  BY <1>1, <1>2, <1>3 DEF Call

(***************************************************************************)
(* Every other step.                                                       *)
(***************************************************************************)
LEMMA PromiseStep == PromiseInv /\ [Next]_vars => [Promise!Next]_(Promise!vars)
<1> SUFFICES ASSUME PromiseInv, [Next]_vars
             PROVE  [Promise!Next]_(Promise!vars)
  OBVIOUS
<1> USE DEF PromiseInv, ReqInv, TypeOK, TableInv, EntryMatchesPromise, FreshCalls
<1> DEFINE Later == {j \in Calls : pc[j] \notin {"idle", "loaded", "numbered"}}
<1>0. ASSUME NEW S \in SUBSET Waiting, NEW v \in Outcomes \ {"none", "answered"},
             pc' = pc, sends' = sends, Over' = Over, outcome' = SetOn(outcome, S, v)
      PROVE  [Promise!Next]_(Promise!vars)
  <2>1. S \subseteq {j \in Later : outcome[j] = "none"}
    BY <1>0 DEF Waiting
  <2>2. /\ \A j \in Calls : outcome'[j] # outcome[j] => j \in S
        /\ \A j \in S : outcome'[j] = v
    BY <1>0 DEF SetOn, Waiting
  <2>3. Promise!Tell
    BY <1>0, <2>1, <2>2 DEF Promise!Tell, Promise!Decide, Promise!Open, Over
  <2>4. QED
    BY <2>3 DEF Promise!Next
<1>1. ASSUME NEW k \in Calls, Call(k)
      PROVE  [Promise!Next]_(Promise!vars)
  BY <1>1, CallPromiseStep
<1>2. ASSUME NEW k \in Calls, ServerAnswer(k)
      PROVE  [Promise!Next]_(Promise!vars)
  BY <1>2 DEF ServerAnswer, connVars, callVars, tableVars, Promise!vars, CloseBegun, Alive
<1>3. ASSUME NEW k \in Calls, HandleResponse(k)
      PROVE  [Promise!Next]_(Promise!vars)
  <2> DEFINE S == Found(k) \cap Waiting
  <2>1. /\ pc' = pc /\ sends' = sends /\ close' = close /\ crash' = crash /\ k \in downlink
        /\ outcome' = [j \in Calls |-> IF j \notin S THEN outcome[j]
                                      ELSE IF j = k THEN "answered" ELSE "crossed"]
    BY <1>3 DEF HandleResponse, connVars, callVars
  <2>2. S \subseteq {j \in Later : outcome[j] = "none"}
    BY DEF Found, Waiting
  <2>3. sends[k] > 0
    BY <2>1 DEF CrossInv, WireWasSent, OnWire
  <2>4. /\ \A j \in Calls : outcome'[j] # outcome[j] => j \in S
        /\ \A j \in S : outcome'[j] # "none" /\ (outcome'[j] = "answered" => sends[j] > 0)
    BY <2>1, <2>3 DEF Waiting
  <2>5. Promise!Tell
    BY <2>1, <2>2, <2>4 DEF Promise!Tell, Promise!Decide, Promise!Open, CloseBegun, Alive
  <2>6. QED
    BY <2>5 DEF Promise!Next
<1>4. CASE Tick \/ LoseLink \/ TakeMessageMutex \/ FlushDone
  BY <1>4 DEF Tick, LoseLink, WsLost, CloseWs, TakeMessageMutex, OnOpenLock, FlushDone, OnOpenDone,
              connVars, callVars, tableVars, reqVars, Promise!vars, CloseBegun, Alive
<1>5. CASE FlushOne
  <2> DEFINE k == Head(queue)
  <2>1. /\ queue \in Seq(Calls) /\ queue # << >> /\ pc' = pc /\ outcome' = outcome
        /\ close' = close /\ crash' = crash
        /\ sends' = sends \/ sends' = [sends EXCEPT ![k] = sends[k] + 1]
    BY <1>5 DEF FlushOne, connVars, callVars, tableVars
  <2>2. k \in Calls /\ k \in Range(queue)
    BY ONLY <2>1 DEF Range
  <2>3. sends[k] = 0
    BY <2>2 DEF QueueInv, QueuedUnsent
  <2>4. CASE sends' = sends
    BY <2>1, <2>4 DEF Promise!vars, CloseBegun, Alive
  <2>5. CASE sends' = [sends EXCEPT ![k] = 1]
    <3>1. Promise!Transmit(k)
      BY <2>1, <2>3, <2>5 DEF Promise!Transmit, CloseBegun, Alive
    <3>2. QED
      BY <2>2, <3>1 DEF Promise!Next
  <2>6. sends[k] + 1 = 1
    BY <2>3
  <2>7. QED
    BY <2>1, <2>4, <2>5, <2>6, Zenon
<1>6. CASE ScanTimeouts
  <2>1. pc' = pc /\ sends' = sends /\ close' = close
    BY <1>6 DEF ScanTimeouts, TimeoutScan, callVars
  <2>2. CASE Expired \cap Satisfied = {}
    <3>1. outcome' = SetOn(outcome, Expired, "timeout") /\ crash' = crash
      BY <1>6, <2>2 DEF ScanTimeouts, TimeoutScan
    <3>2. Expired \in SUBSET Waiting
      BY <2>2 DEF Expired, Satisfied, Waiting
    <3>3. QED
      BY <1>0, <2>1, <3>1, <3>2 DEF Outcomes, Over, CloseBegun, Alive
  <2>3. CASE Expired \cap Satisfied # {}
    <3>1. outcome' = outcome
      BY <1>6, <2>3 DEF ScanTimeouts, tableVars
    <3>2. Alive /\ ~Alive'
      BY <1>6, <2>3 DEF ScanTimeouts, TimeoutScan, Alive
    <3>3. CASE CloseBegun
      BY <2>1, <3>1, <3>3 DEF Promise!vars, CloseBegun
    <3>4. CASE ~CloseBegun
      <4>1. Promise!End
        BY <2>1, <3>1, <3>2, <3>4 DEF Promise!End
      <4>2. QED
        BY <4>1 DEF Promise!Next
    <3>5. QED
      BY <3>3, <3>4
  <2>4. QED
    BY <2>2, <2>3
<1>7. CASE FailPending \/ Destroy
  <2>1. pc' = pc /\ sends' = sends /\ Over /\ Over'
    <3>1. pc' = pc /\ sends' = sends /\ close \in {"timeout_joined", "done", "threw"}
      BY <1>7 DEF FailPending, CloseClear, Destroy, Destruct, callVars
    <3>2. Over
      BY <3>1 DEF Over, CloseBegun
    <3>3. QED
      BY <3>1, <3>2, OverStays, StepRefines
  <2>2. \/ outcome' = outcome
        \/ \E S \in SUBSET Waiting : outcome' = SetOn(outcome, S, "closed")
    BY <1>7 DEF FailPending, Destroy, tableVars
  <2>3. CASE outcome' = outcome
    BY <2>1, <2>3 DEF Promise!vars, Over
  <2>4. CASE \E S \in SUBSET Waiting : outcome' = SetOn(outcome, S, "closed")
    BY <1>0, <2>1, <2>4 DEF Outcomes
  <2>5. QED
    BY <2>2, <2>3, <2>4
<1>8. CASE ConnOnly
  <2>1. pc' = pc /\ sends' = sends /\ outcome' = outcome
    BY <1>8 DEF ConnOnly, reqVars, callVars, tableVars
  <2>2. Over => Over'
    BY OverStays, StepRefines
  <2>3. CASE Over' = Over
    BY <2>1, <2>3 DEF Promise!vars, Over
  <2>4. CASE ~Over /\ Over'
    <3>1. Promise!End
      BY <2>1, <2>4 DEF Promise!End, Over
    <3>2. QED
      BY <3>1 DEF Promise!Next
  <2>5. QED
    BY <2>2, <2>3, <2>4 DEF Over
<1>9. CASE UNCHANGED vars
  BY <1>9 DEF vars, connVars, reqVars, callVars, tableVars, Promise!vars, CloseBegun, Alive
<1>10. QED
  BY <1>1, <1>2, <1>3, <1>4, <1>5, <1>6, <1>7, <1>8, <1>9 DEF Next

(***************************************************************************)
(* AddRequest and its table keep the promises: what callers see is the     *)
(* behaviour of module Promises, whatever the link and the threads do.     *)
(***************************************************************************)
THEOREM RequestsKeepPromises == SafeSpec => PromisesSafeSpec
<1>1. Init => Promise!Init
  BY DEF Init, ConnInit, Promise!Init, CloseBegun, Alive
<1>2. Init => QueueInv /\ CrossInv
  BY DEF Init, QueueInv, UnsentBefore, QueuedUnsent, QueuedOnce, SentOnce, Range,
         CrossInv, KeysUnique, WireWasSent, OnWire, AnsweredIsSpent, CrossedHasOwner
<1>3. ReqInv /\ ReqInv' /\ QueueInv /\ CrossInv /\ [Next]_vars => QueueInv' /\ CrossInv'
  BY QueueStep, CrossStep DEF ReqInv
<1>4. ReqInv /\ QueueInv /\ CrossInv /\ [Next]_vars => [Promise!Next]_(Promise!vars)
  BY PromiseStep DEF PromiseInv
<1>5. QED
  BY <1>1, <1>2, <1>3, <1>4, ReqInvHolds, PTL DEF SafeSpec, PromisesSafeSpec, Promise!SafeSpec

-------------------------------------------------------------------------------
(***************************************************************************)
(* Every wait ends.                                                        *)
(***************************************************************************)
LEMMA CallbackInvHolds == SafeSpec => []CallbackInv
<1>1. Init => CallbackInv
  BY CallsAssumption DEF Init, CallbackInv, ActiveHoldsIo, OneActive, ReturnedWasTold, Active,
                         CallbackCallsUnanswered
<1>2. ReqInv /\ CallbackInv /\ [Next]_vars => CallbackInv'
  BY CallbackStep
<1>3. QED
  BY <1>1, <1>2, ReqInvHolds, PTL DEF SafeSpec

\* An undecided future, early, due for the next scan, or seen by it.
Undecided(k) == pc[k] \notin {"idle", "loaded", "numbered"} /\ outcome[k] = "none"
Due(k) == Undecided(k) /\ ~Over /\ k \in Expired
DecidedOrOver(k) == outcome[k] # "none" \/ Over

(***************************************************************************)
(* An entry that is due stays so until a scan, whatever else touches the   *)
(* table: what would make it young again decides its promise as well.      *)
(***************************************************************************)
LEMMA DueStays ==
  ASSUME ReqInv, [Next]_vars, NEW k \in Calls, Due(k)
  PROVE  Due(k)' \/ DecidedOrOver(k)'
<1> SUFFICES ASSUME ~Over', outcome'[k] = "none"
             PROVE  Undecided(k)' /\ (k \in Expired)'
  BY DEF Due, DecidedOrOver
<1> USE DEF ReqInv, TypeOK, TableInv, RegisteredHaveEntry, FreshCalls, EntryMatchesPromise, Due,
            Undecided, Expired, Waiting, Satisfied, Found, callVars, tableVars, reqVars
<1>1. ASSUME NEW m \in Calls, Call(m)
      PROVE  Undecided(k)' /\ (k \in Expired)'
  <2>1. CASE LoadCounter(m) \/ StoreCounter(m) \/ CheckLink(m) \/ Return(m)
    BY <2>1 DEF LoadCounter, StoreCounter, CheckLink, Return
  <2>2. CASE Register(m)
    BY <2>2 DEF Register, SetOn
  <2>3. CASE Send(m)
    BY <2>3 DEF Send, SetOn
  <2>4. QED
    BY <1>1, <2>1, <2>2, <2>3 DEF Call
<1>2. ASSUME NEW m \in Calls, ServerAnswer(m) \/ HandleResponse(m)
      PROVE  Undecided(k)' /\ (k \in Expired)'
  BY <1>2 DEF ServerAnswer, HandleResponse, SetOn
<1>3. CASE Tick
  <2>1. age'[k] = age[k]
    <3>1. age[k] \in 0 .. RequestTimeout + 1 /\ age[k] > RequestTimeout
      OBVIOUS
    <3>2. ~(age[k] <= RequestTimeout)
      BY ONLY <3>1, CallsAssumption
    <3>3. QED
      BY ONLY <1>3, <3>2 DEF Tick
  <2>2. UNCHANGED <<pc, entry, outcome>>
    BY <1>3 DEF Tick
  <2>3. QED
    BY <2>1, <2>2
<1>4. CASE LoseLink \/ TakeMessageMutex \/ FlushOne \/ FlushDone \/ ConnOnly
  BY <1>4 DEF LoseLink, TakeMessageMutex, FlushOne, FlushDone, ConnOnly
<1>5. CASE ScanTimeouts
  <2>1. CASE Expired \cap Satisfied = {}
    BY <1>5, <2>1 DEF ScanTimeouts, SetOn
  <2>2. CASE Expired \cap Satisfied # {}
    BY <1>5, <2>2 DEF ScanTimeouts
  <2>3. QED
    BY <2>1, <2>2
<1>6. CASE FailPending \/ Destroy
  BY <1>6 DEF FailPending, CloseClear, Destroy, Destruct, Over, CloseBegun
<1>7. CASE UNCHANGED vars
  BY <1>7 DEF vars
<1>8. QED
  BY <1>1, <1>2, <1>3, <1>4, <1>5, <1>6, <1>7 DEF Next

(***************************************************************************)
(* The scan leaves nothing that is due undecided, unless it dies.          *)
(***************************************************************************)
LEMMA ScanDecides ==
  ASSUME TypeOK, ScanTimeouts, NEW k \in Calls, Due(k)
  PROVE  DecidedOrOver(k)'
<1>1. CASE Expired \cap Satisfied = {}
  BY <1>1 DEF TypeOK, ScanTimeouts, SetOn, Due, Undecided, Expired, DecidedOrOver
<1>2. CASE Expired \cap Satisfied # {}
  BY <1>2 DEF ScanTimeouts, TimeoutScan, Over, Alive, DecidedOrOver
<1>3. QED
  BY <1>1, <1>2

(***************************************************************************)
(* Only the timeout thread moves itself.                                   *)
(***************************************************************************)
LEMMA TimeoutMovesItself ==
  ASSUME [Next]_vars, tmo' # tmo
  PROVE  <<TimeoutCheck>>_vars \/ <<ScanTimeouts>>_vars
<1> SUFFICES ASSUME ~TimeoutCheck, ~ScanTimeouts
             PROVE  FALSE
  BY DEF vars, connVars
<1>1. ASSUME NEW k \in Calls, Call(k) \/ ServerAnswer(k) \/ HandleResponse(k)
      PROVE  FALSE
  BY <1>1 DEF Call, LoadCounter, StoreCounter, Register, CheckLink, Send, Return,
              ServerAnswer, HandleResponse, OnEvent, CallbackReturn, connVars
<1>2. CASE \/ Tick \/ LoseLink \/ TakeMessageMutex \/ FlushOne \/ FlushDone
           \/ FailPending \/ Destroy
  BY <1>2 DEF Tick, LoseLink, WsLost, CloseWs, TakeMessageMutex, OnOpenLock, FlushOne,
              FlushDone, OnOpenDone, FailPending, CloseClear, Destroy, Destruct, connVars
<1>3. CASE ConnOnly
  <2>1. Transport \/ IoHandler \/ PingThread \/ CloseBegin \/ CloseCall
    BY <1>3 DEF ConnOnly, Transport, IoHandler, CloseCall
  <2>2. QED
    BY <2>1, StepsByKind DEF PingThread
<1>4. CASE UNCHANGED vars
  BY <1>4 DEF vars, connVars
<1>5. QED
  BY <1>1, <1>2, <1>3, <1>4 DEF Next

(***************************************************************************)
(* Calls only go forward, and no step but its own moves a call.            *)
(***************************************************************************)
LEMMA CallsGoForward ==
  ASSUME TypeOK, [Next]_vars, NEW k \in Calls
  PROVE  /\ pc[k] \notin {"idle", "loaded", "numbered"} =>
              pc'[k] \notin {"idle", "loaded", "numbered"}
         /\ pc[k] = "waiting" => pc'[k] = "waiting" \/ <<Return(k)>>_vars
<1>1. ASSUME NEW m \in Calls, Call(m)
      PROVE  /\ pc[k] \notin {"idle", "loaded", "numbered"} =>
                  pc'[k] \notin {"idle", "loaded", "numbered"}
             /\ pc[k] = "waiting" => pc'[k] = "waiting" \/ <<Return(k)>>_vars
  <2>1. CASE m = k
    BY <1>1, <2>1 DEF TypeOK, Call, LoadCounter, StoreCounter, Register, CheckLink, Send, Return,
                      vars, reqVars, callVars
  <2>2. CASE m # k
    BY <1>1, <2>2 DEF TypeOK, Call, LoadCounter, StoreCounter, Register, CheckLink, Send, Return
  <2>3. QED
    BY <2>1, <2>2
<1>2. CASE ~\E m \in Calls : Call(m)
  BY <1>2, OthersKeepPc
<1>3. QED
  BY <1>1, <1>2

(***************************************************************************)
(* Every promise is decided while the connection lives: in time its entry  *)
(* is gone or due, and the timeout thread comes to its next scan.          *)
(***************************************************************************)
LEMMA DecidedInTime ==
  ASSUME NEW k \in Calls
  PROVE  SafeSpec /\ TimeoutsGoOn => (Undecided(k) ~> DecidedOrOver(k))
<1> DEFINE Check == Due(k) /\ tmo = "check"
           Asleep == Due(k) /\ tmo = "sleep"
           Early == Undecided(k) /\ ~Over
<1>1. ReqInv /\ CallbackInv /\ Undecided(k) =>
        /\ ~(entry[k] = "absent")
        /\ (k \in Expired \/ ~Alive => Due(k) \/ DecidedOrOver(k))
  BY DEF ReqInv, TypeOK, TableInv, RegisteredHaveEntry, CallbackInv, ReturnedWasTold, Undecided,
         Due, DecidedOrOver, Over, CallStates
<1>2. ReqInv /\ [Next]_vars => (Undecided(k) => Undecided(k)' \/ DecidedOrOver(k)')
  BY CallsGoForward DEF ReqInv, Undecided, DecidedOrOver
<1>3. TimeoutRuns /\ Due(k) => Check \/ Asleep
  BY DEF TimeoutRuns, Due, Over
<1>4. ReqInv /\ RetryInv /\ [Next]_vars =>
        /\ Check => Check' \/ <<TimeoutCheck>>_vars \/ DecidedOrOver(k)'
        /\ Asleep => Asleep' \/ <<ScanTimeouts>>_vars \/ DecidedOrOver(k)'
  BY DueStays, TimeoutMovesItself DEF TimeoutCheck, ScanTimeouts, TimeoutScan
<1>5. ReqInv /\ RetryInv /\ [Next]_vars =>
        /\ Check /\ <<TimeoutCheck>>_vars => Asleep' \/ DecidedOrOver(k)'
        /\ Asleep /\ <<ScanTimeouts>>_vars => DecidedOrOver(k)'
  <2>1. ReqInv /\ RetryInv /\ [Next]_vars /\ Check /\ TimeoutCheck => Asleep' \/ DecidedOrOver(k)'
    BY DueStays DEF TimeoutCheck, RetryInv, Due, Over
  <2>2. ReqInv /\ Asleep /\ ScanTimeouts => DecidedOrOver(k)'
    BY ScanDecides DEF ReqInv
  <2>3. QED
    BY <2>1, <2>2
<1>6. Check \/ Asleep => Alive
  BY DEF Due, Over
<1>7. TimeoutsGoOn => /\ []<>~(Alive /\ tmo = "check") \/ []<><<TimeoutCheck>>_vars
                      /\ []<>~(Alive /\ tmo = "sleep") \/ []<><<ScanTimeouts>>_vars
                      /\ []<>(entry[k] = "absent" \/ k \in Expired \/ ~Alive)
  BY DEF TimeoutsGoOn
<1>8. QED
  BY <1>1, <1>2, <1>3, <1>4, <1>5, <1>6, <1>7, ReqInvHolds, CallbackInvHolds, RetryInvHolds,
     TimeoutRunsHolds, RequestsRefineConnection, PTL DEF SafeSpec

(***************************************************************************)
(* Every call that is waiting ends.                                        *)
(***************************************************************************)
THEOREM WaitsEnd == SafeSpec /\ TimeoutsGoOn => CallsReturn
<1> SUFFICES ASSUME NEW k \in Calls
             PROVE  SafeSpec /\ TimeoutsGoOn =>
                      (pc[k] = "waiting" ~> (pc[k] = "returned" \/ CloseBegun \/ ~Alive))
  BY DEF CallsReturn
<1> DEFINE Told == pc[k] = "waiting" /\ outcome[k] # "none" /\ ~Over
           Done == pc[k] = "returned" \/ CloseBegun \/ ~Alive
<1>1. pc[k] = "waiting" => Undecided(k) \/ Told \/ Done
  BY DEF Undecided, Over
<1>2. ReqInv /\ [Next]_vars =>
        /\ pc[k] = "waiting" => (pc[k] = "waiting")' \/ Done'
        /\ Told => Told' \/ Done'
  <2> SUFFICES ASSUME ReqInv, [Next]_vars, pc[k] = "waiting"
               PROVE  /\ pc'[k] = "waiting" \/ Done'
                      /\ Told => Told' \/ Done'
    OBVIOUS
  <2>1. pc'[k] = "waiting" \/ pc'[k] = "returned"
    BY CallsGoForward DEF ReqInv, TypeOK, Return
  <2>2. outcome[k] # "none" => outcome'[k] # "none"
    BY OutcomeStep
  <2>3. QED
    BY <2>1, <2>2 DEF Over
<1>3. CallbackInv /\ Told => ReturnReady(k)
  BY DEF CallbackInv, ActiveHoldsIo, Active, ReturnReady, Over
<1>4. ReqInv /\ <<Return(k)>>_vars => Done'
  BY DEF ReqInv, TypeOK, Return
<1>5. /\ pc[k] = "waiting" /\ DecidedOrOver(k) => Told \/ Done
      /\ Undecided(k) => ~Told
  BY DEF DecidedOrOver, Over, Undecided
<1>6. TimeoutsGoOn => []<>~ReturnReady(k) \/ []<><<Return(k)>>_vars
  BY DEF TimeoutsGoOn
<1>7. SafeSpec /\ TimeoutsGoOn => (Undecided(k) ~> DecidedOrOver(k))
  BY DecidedInTime
<1>8. QED
  BY <1>1, <1>2, <1>3, <1>4, <1>5, <1>6, <1>7, ReqInvHolds, CallbackInvHolds, PTL DEF SafeSpec

(***************************************************************************)
(* The request path implements Promises, its liveness included: whoever    *)
(* was handed a future is told a result, whatever the link, the server and *)
(* the other calls do, until close() or a crash.                           *)
(***************************************************************************)
THEOREM RequestsKeepEveryPromise == SafeSpec /\ TimeoutsGoOn => PromisesSpec
<1>1. SafeSpec /\ TimeoutsGoOn => Promise!Kept
  <2> SUFFICES ASSUME NEW k \in Calls
               PROVE  SafeSpec /\ TimeoutsGoOn =>
                        (k \in Promise!Open ~> (k \notin Promise!Open \/ (CloseBegun \/ ~Alive)))
    BY DEF Promise!Kept
  <2>1. /\ k \in Promise!Open => Undecided(k)
        /\ DecidedOrOver(k) => k \notin Promise!Open \/ CloseBegun \/ ~Alive
    BY DEF Promise!Open, Undecided, DecidedOrOver, Over
  <2>2. SafeSpec /\ TimeoutsGoOn => (Undecided(k) ~> DecidedOrOver(k))
    BY DecidedInTime
  <2>3. QED
    BY <2>1, <2>2, PTL
<1>2. QED
  BY <1>1, RequestsKeepPromises, PTL DEF PromisesSafeSpec, PromisesSpec, Promise!Spec

-------------------------------------------------------------------------------
(***************************************************************************)
(* What a counter that is incremented by one thread at a time would give:  *)
(* the race on request_id_counter_ is the one cause of answers that reach  *)
(* another call and of promises that are destroyed.                        *)
(***************************************************************************)

\* Between its load and its store, no other call loads the counter.
NumbersSerialised == \A j, k \in Calls : pc[j] = "loaded" /\ pc[k] = "loaded" => j = k

\* A number lies up to the counter; the one about to be stored is the next.
NumbersBounded ==
  \A k \in Calls : /\ pc[k] = "idle" => reqId[k] = 0
                   /\ pc[k] = "loaded" => reqId[k] = counter + 1
                   /\ pc[k] \notin {"idle", "loaded"} => reqId[k] \in 1 .. counter

NumbersUnique ==
  \A j, k \in Calls : pc[j] # "idle" /\ pc[k] # "idle" /\ reqId[j] = reqId[k] => j = k

NoBrokenPromise == \A k \in Calls : outcome[k] # "broken"

NumberInv == NumbersBounded /\ NumbersUnique /\ NoBrokenPromise

(***************************************************************************)
(* Only calls take numbers.                                                *)
(***************************************************************************)
LEMMA OthersKeepNumbers ==
  ASSUME [Next]_vars, ~\E k \in Calls : Call(k)
  PROVE  counter' = counter /\ reqId' = reqId
<1>1. ASSUME NEW k \in Calls, ServerAnswer(k) \/ HandleResponse(k)
      PROVE  counter' = counter /\ reqId' = reqId
  BY <1>1 DEF ServerAnswer, HandleResponse, callVars
<1>2. CASE \/ Tick \/ ScanTimeouts \/ LoseLink \/ TakeMessageMutex \/ FlushOne \/ FlushDone
           \/ FailPending \/ Destroy \/ ConnOnly \/ UNCHANGED vars
  BY <1>2 DEF Tick, ScanTimeouts, LoseLink, TakeMessageMutex, FlushOne, FlushDone, FailPending,
              Destroy, ConnOnly, callVars, reqVars, vars
<1>3. QED
  BY <1>1, <1>2 DEF Next

(***************************************************************************)
(* A call that has begun has a number.                                     *)
(***************************************************************************)
LEMMA BegunHasNumber ==
  ASSUME TypeOK, NumbersBounded, NEW k \in Calls
  PROVE  reqId[k] \in Nat /\ counter \in Nat /\ (pc[k] = "idle" <=> reqId[k] = 0)
<1>1. reqId[k] \in Nat /\ counter \in Nat
  BY DEF TypeOK
<1>2. CASE pc[k] = "idle"
  BY <1>1, <1>2 DEF NumbersBounded
<1>3. CASE pc[k] = "loaded"
  BY <1>1, <1>3 DEF NumbersBounded
<1>4. CASE pc[k] \notin {"idle", "loaded"}
  BY <1>1, <1>4 DEF NumbersBounded
<1>5. QED
  BY <1>1, <1>2, <1>3, <1>4

(***************************************************************************)
(* Numbers taken one at a time are those of one call each.                 *)
(***************************************************************************)
LEMMA NumberStep ==
  ReqInv /\ NumbersSerialised /\ NumbersSerialised' /\ NumberInv /\ [Next]_vars
    => NumbersBounded' /\ NumbersUnique'
<1> SUFFICES ASSUME ReqInv, NumbersSerialised, NumbersSerialised', NumberInv, [Next]_vars
             PROVE  NumbersBounded' /\ NumbersUnique'
  OBVIOUS
<1> USE DEF ReqInv, TypeOK, NumberInv, NumbersBounded, NumbersUnique
<1>1. ASSUME NEW m \in Calls, LoadCounter(m)
      PROVE  NumbersBounded' /\ NumbersUnique'
  <2>1. /\ counter' = counter /\ pc'[m] = "loaded" /\ reqId'[m] = counter + 1
        /\ \A j \in Calls \ {m} : pc'[j] = pc[j] /\ reqId'[j] = reqId[j]
    BY <1>1 DEF LoadCounter
  <2>2. \A j \in Calls \ {m} : pc[j] # "loaded"
    BY <2>1 DEF NumbersSerialised
  <2>3. \A j \in Calls \ {m} : reqId[j] <= counter
    <3> SUFFICES ASSUME NEW j \in Calls \ {m}
                 PROVE  reqId[j] <= counter
      OBVIOUS
    <3>1. CASE pc[j] = "idle"
      BY <3>1
    <3>2. CASE pc[j] # "idle"
      BY <2>2, <3>2
    <3>3. QED
      BY <3>1, <3>2
  <2>4. NumbersBounded'
    <3> SUFFICES ASSUME NEW j \in Calls
                 PROVE  /\ pc'[j] = "idle" => reqId'[j] = 0
                        /\ pc'[j] = "loaded" => reqId'[j] = counter' + 1
                        /\ pc'[j] \notin {"idle", "loaded"} => reqId'[j] \in 1 .. counter'
      OBVIOUS
    <3>1. CASE j = m
      BY <2>1, <3>1
    <3>2. CASE j # m
      BY <2>1, <3>2
    <3>3. QED
      BY <3>1, <3>2
  <2>5. \A j \in Calls \ {m} : reqId'[j] # reqId'[m]
    <3> SUFFICES ASSUME NEW j \in Calls \ {m}
                 PROVE  reqId'[j] # reqId'[m]
      OBVIOUS
    <3>1. reqId[j] \in Nat /\ counter \in Nat /\ reqId[j] <= counter
      BY <2>3, BegunHasNumber
    <3>2. reqId[j] # counter + 1
      BY <3>1
    <3>3. QED
      BY <2>1, <3>2
  <2>6. NumbersUnique'
    <3> SUFFICES ASSUME NEW i \in Calls, NEW j \in Calls, pc'[i] # "idle", pc'[j] # "idle",
                        reqId'[i] = reqId'[j], i # j
                 PROVE  FALSE
      OBVIOUS
    <3>1. i # m /\ j # m
      BY <2>5
    <3>2. pc[i] # "idle" /\ pc[j] # "idle" /\ reqId[i] = reqId[j]
      BY <2>1, <3>1
    <3>3. QED
      BY <3>2
  <2>7. QED
    BY <2>4, <2>6
<1>2. ASSUME NEW m \in Calls, StoreCounter(m)
      PROVE  NumbersBounded' /\ NumbersUnique'
  <2>1. /\ pc[m] = "loaded" /\ counter' = counter + 1 /\ reqId' = reqId
        /\ pc' = [pc EXCEPT ![m] = "numbered"]
    BY <1>2 DEF StoreCounter
  <2>2. \A j \in Calls \ {m} : pc[j] # "loaded" /\ pc'[j] = pc[j]
    BY <2>1 DEF NumbersSerialised
  <2>3. NumbersBounded'
    <3> SUFFICES ASSUME NEW j \in Calls
                 PROVE  /\ pc'[j] = "idle" => reqId'[j] = 0
                        /\ pc'[j] = "loaded" => reqId'[j] = counter' + 1
                        /\ pc'[j] \notin {"idle", "loaded"} => reqId'[j] \in 1 .. counter'
      OBVIOUS
    <3>1. CASE j = m
      BY <2>1, <3>1
    <3>2. CASE j # m
      BY <2>1, <2>2, <3>2
    <3>3. QED
      BY <3>1, <3>2
  <2>4. NumbersUnique'
    BY <2>1
  <2>5. QED
    BY <2>3, <2>4
<1>3. ASSUME NEW m \in Calls, Register(m) \/ CheckLink(m) \/ Send(m) \/ Return(m)
      PROVE  NumbersBounded' /\ NumbersUnique'
  <2>1. /\ counter' = counter /\ reqId' = reqId
        /\ pc[m] \notin {"idle", "loaded"} /\ pc'[m] \notin {"idle", "loaded"}
        /\ \A j \in Calls \ {m} : pc'[j] = pc[j]
    BY <1>3 DEF Register, CheckLink, Send, Return
  <2>2. NumbersBounded'
    <3> SUFFICES ASSUME NEW j \in Calls
                 PROVE  /\ pc'[j] = "idle" => reqId'[j] = 0
                        /\ pc'[j] = "loaded" => reqId'[j] = counter' + 1
                        /\ pc'[j] \notin {"idle", "loaded"} => reqId'[j] \in 1 .. counter'
      OBVIOUS
    <3>1. CASE j = m
      BY <2>1, <3>1
    <3>2. CASE j # m
      BY <2>1, <3>2
    <3>3. QED
      BY <3>1, <3>2
  <2>3. \A j \in Calls : pc'[j] # "idle" => pc[j] # "idle"
    BY <2>1
  <2>4. NumbersUnique'
    BY <2>1, <2>3
  <2>5. QED
    BY <2>2, <2>4
<1>4. CASE ~\E k \in Calls : Call(k)
  BY <1>4, OthersKeepPc, OthersKeepNumbers
<1>5. QED
  BY <1>1, <1>2, <1>3, <1>4 DEF Call

(***************************************************************************)
(* A registration destroys a promise only under a number taken twice.      *)
(***************************************************************************)
LEMMA BrokenStep == ReqInv /\ NumberInv /\ [Next]_vars => NoBrokenPromise'
<1> SUFFICES ASSUME ReqInv, NumberInv, [Next]_vars, NEW k \in Calls
             PROVE  outcome'[k] # "broken"
  BY DEF NoBrokenPromise
<1> USE DEF ReqInv, TypeOK, NumberInv, NoBrokenPromise, SetOn
<1>1. ASSUME NEW m \in Calls, Register(m)
      PROVE  outcome'[k] # "broken"
  <2>1. Found(m) = {}
    BY <1>1 DEF Register, Found, TableInv, FreshCalls, NumbersUnique
  <2>2. QED
    BY <1>1, <2>1 DEF Register
<1>2. ASSUME NEW m \in Calls, Call(m), ~Register(m)
      PROVE  outcome'[k] # "broken"
  BY <1>2 DEF Call, LoadCounter, StoreCounter, CheckLink, Send, Return, tableVars
<1>3. ASSUME NEW m \in Calls, ServerAnswer(m) \/ HandleResponse(m)
      PROVE  outcome'[k] # "broken"
  BY <1>3 DEF ServerAnswer, HandleResponse, tableVars
<1>4. CASE Tick \/ ScanTimeouts \/ LoseLink \/ TakeMessageMutex \/ FlushOne \/ FlushDone
  BY <1>4 DEF Tick, ScanTimeouts, LoseLink, TakeMessageMutex, FlushOne, FlushDone, tableVars, reqVars
<1>5. CASE FailPending \/ Destroy \/ ConnOnly \/ UNCHANGED vars
  BY <1>5 DEF FailPending, Destroy, ConnOnly, tableVars, reqVars, vars
<1>6. QED
  BY <1>1, <1>2, <1>3, <1>4, <1>5 DEF Next

(***************************************************************************)
(* If no two calls are ever between the load and the store of the counter  *)
(* at once, no answer reaches another call, which is NoCrossedAnswers, and *)
(* no promise is destroyed: line 605 alone stands between the code and     *)
(* the thread safety README.md documents for data operations.              *)
(***************************************************************************)
THEOREM CrossedNeedsRace ==
  SafeSpec /\ []NumbersSerialised => [](NoCrossedAnswers /\ NoBrokenPromise)
<1>1. Init => NumberInv
  BY DEF Init, NumberInv, NumbersBounded, NumbersUnique, NoBrokenPromise
<1>2. ReqInv /\ NumbersSerialised /\ NumbersSerialised' /\ NumberInv /\ [Next]_vars => NumberInv'
  BY NumberStep, BrokenStep DEF NumberInv
<1>3. ReqInv /\ NumberInv /\ CrossedOnlyBySharedNumber => NoCrossedAnswers /\ NoBrokenPromise
  <2> SUFFICES ASSUME ReqInv, NumberInv, CrossedOnlyBySharedNumber, NEW k \in Calls,
                      outcome[k] = "crossed"
               PROVE  FALSE
    BY DEF NumberInv, NoCrossedAnswers
  <2>1. PICK j \in Calls \ {k} : reqId[j] = reqId[k]
    BY DEF CrossedOnlyBySharedNumber
  <2>2. pc[k] # "idle"
    BY DEF ReqInv, TableInv, FreshCalls
  <2>3. pc[j] # "idle"
    BY <2>1, <2>2, BegunHasNumber DEF ReqInv, NumberInv
  <2>4. QED
    BY <2>1, <2>2, <2>3 DEF NumberInv, NumbersUnique
<1>4. QED
  BY <1>1, <1>2, <1>3, ReqInvHolds, CrossedNeedsSharedNumber, PTL DEF SafeSpec
=============================================================================
