---------------------------- MODULE ListenersProofs ----------------------------
(***************************************************************************)
(* The properties of module Listeners, for any set of listeners, patterns  *)
(* and events.  Listeners implements the life cycle of Connection and      *)
(* inherits its invariant; on it rest the agreement of the server's        *)
(* subscription with the registrations and the bound on late callbacks.    *)
(* That the server hears of them in the end follows from ListenersGoOn.    *)
(***************************************************************************)
EXTENDS Listeners, ConnectionProofs, WellFoundedInduction, SequenceTheorems

(***************************************************************************)
(* Every step is a step of the life cycle, or leaves it alone.             *)
(***************************************************************************)
LEMMA StepRefines == [Next]_vars => [ConnNext]_connVars
<1> SUFFICES ASSUME [Next]_vars
             PROVE  ConnNext \/ UNCHANGED connVars
  OBVIOUS
<1> USE DEF ConnNext, Transport, IoHandler, TimeoutThread, CloseCall
<1>1. ASSUME NEW r \in Listeners,
             \/ SetSendValues(r) \/ AddListener(r) \/ RemoveListener(r)
             \/ AddSend(r) \/ RemoveSend(r) \/ RunCallback(r)
      PROVE  UNCHANGED connVars
  BY <1>1 DEF SetSendValues, AddListener, RemoveListener, AddSend, RemoveSend, RunCallback
<1>2. CASE RemoveAllListeners \/ RemoveAllSend \/ ServerSubscribe
  BY <1>2 DEF RemoveAllListeners, RemoveAllSend, ServerSubscribe
<1>3. ASSUME NEW e \in Events, NEW kind \in {"text", "binary"}, Collect(e, kind)
      PROVE  ConnNext
  BY <1>3 DEF Collect
<1>4. CASE CallbacksDone \/ BinaryThrow
  BY <1>4 DEF CallbacksDone, BinaryThrow
<1>5. CASE LoseLink \/ OpenRegister \/ OpenSendRegister \/ Destroy
  BY <1>5 DEF LoseLink, OpenRegister, OpenSendRegister, Destroy
<1>6. CASE ConnOnly
  BY <1>6 DEF ConnOnly
<1>7. CASE UNCHANGED vars
  BY <1>7 DEF vars
<1>8. QED
  BY <1>1, <1>2, <1>3, <1>4, <1>5, <1>6, <1>7 DEF Next, Sends

(***************************************************************************)
(* Whatever the application does with listeners, the threads and the link  *)
(* behave as Connection specifies.                                         *)
(***************************************************************************)
THEOREM ListenersRefineConnection == SafeSpec => ConnSafeSpec
<1>1. Init => ConnInit
  BY DEF Init
<1>2. [Next]_vars => [ConnNext]_connVars
  BY StepRefines
<1>3. QED
  BY <1>1, <1>2, PTL DEF SafeSpec, ConnSafeSpec

-------------------------------------------------------------------------------
(***************************************************************************)
(* The message lists, for every registration, one with its event key.      *)
(***************************************************************************)

LEMMA LeastNat ==
  ASSUME NEW T, T \subseteq Nat, T # {}
  PROVE  \E x \in T : \A y \in T : x <= y
<1> DEFINE R == {ss \in Nat \X Nat : ss[1] < ss[2]}
<1>1. IsWellFoundedOn(R, Nat)
  BY NatLessThanWellFounded DEF OpToRel
<1>2. \E x \in T : \A y \in T : <<y, x>> \notin R
  <2> HIDE DEF R
  <2>1. QED BY <1>1, WFMin
<1>3. \E x \in T : \A y \in T : ~(y < x)
  BY <1>2
<1>4. QED
  BY <1>3

\* Registrations have ids of their own, given out by the counter.
IdsDistinct ==
  /\ \A r \in regs : id[r] <= last_id
  /\ \A r, s \in regs : id[r] = id[s] => r = s

LEMMA FirstIsMember ==
  ASSUME id \in [Listeners -> Nat], regs \subseteq Listeners, IdsDistinct,
         NEW S, S \subseteq regs, S # {}
  PROVE  First(S) \in S
<1> DEFINE text == S \ BinaryListeners
           front == IF text # {} THEN text ELSE S
<1>1. front # {} /\ front \subseteq S
  OBVIOUS
<1>2. \A r, s \in front : r \in BinaryListeners <=> s \in BinaryListeners
  OBVIOUS
<1>3. \A r \in front, s \in S \ front : r \notin BinaryListeners /\ s \in BinaryListeners
  OBVIOUS
<1> HIDE DEF front
<1>4. {id[r] : r \in front} # {} /\ {id[r] : r \in front} \subseteq Nat
  BY <1>1
<1>5. PICK x \in front : \A r \in front : id[x] <= id[r]
  <2>1. \E i \in {id[r] : r \in front} : \A j \in {id[r] : r \in front} : i <= j
    BY <1>4, LeastNat
  <2>2. QED
    BY <2>1
<1>6. ASSUME NEW s \in S \ {x}
      PROVE  Earlier(x, s)
  <2>1. CASE s \in front
    <3>1. id[x] # id[s] /\ id[x] \in Nat /\ id[s] \in Nat
      BY <1>1, <1>6, <2>1 DEF IdsDistinct
    <3>2. id[x] < id[s]
      BY <1>5, <2>1, <3>1
    <3>3. QED
      BY <1>2, <2>1, <3>2 DEF Earlier
  <2>2. CASE s \notin front
    BY <1>3, <1>6, <2>2 DEF Earlier
  <2>3. QED
    BY <2>1, <2>2
<1>7. \E r \in S : \A s \in S \ {r} : Earlier(r, s)
  BY <1>1, <1>6
<1>8. QED
  BY <1>7 DEF First

LEMMA MessageFacts ==
  ASSUME id \in [Listeners -> Nat], regs \subseteq Listeners, IdsDistinct, send_values \in BOOLEAN
  PROVE  /\ RegisterMessage \in Subscriptions
         /\ \A r \in regs : \E p \in RegisterMessage.events : EventKey(p) = EventKey(Pattern[r])
         /\ \A p \in RegisterMessage.events : \E r \in regs : Pattern[r] = p
         /\ RegisterMessage.values = send_values
<1>1. \A r \in regs : First(SameKey(r)) \in SameKey(r)
  <2> TAKE r \in regs
  <2>1. SameKey(r) \subseteq regs /\ SameKey(r) # {}
    BY DEF SameKey
  <2>2. QED
    BY <2>1, FirstIsMember
<1>2. \A r \in regs : /\ First(SameKey(r)) \in regs
                      /\ EventKey(Pattern[First(SameKey(r))]) = EventKey(Pattern[r])
  BY <1>1 DEF SameKey
<1>3. /\ RegisterMessage.events = {Pattern[First(SameKey(r))] : r \in regs}
      /\ RegisterMessage.values = send_values
      /\ RegisterMessage = [events |-> {Pattern[First(SameKey(r))] : r \in regs},
                            values |-> send_values]
  BY DEF RegisterMessage
<1>4. {Pattern[First(SameKey(r))] : r \in regs} \subseteq Patterns
  BY <1>2 DEF Patterns
<1>5. RegisterMessage \in Subscriptions
  BY <1>3, <1>4 DEF Subscriptions
<1>6. QED
  BY <1>2, <1>3, <1>5

-------------------------------------------------------------------------------
(***************************************************************************)
(* The invariant.                                                          *)
(***************************************************************************)

\* A registration is of a listener whose add call has stored it.
RegsWereAdded == \A r \in regs : lpc[r] \in {"add_send", "added", "orphan"}

\* Whoever wants values has set the flag before it registers.
FlagWasSet == \A r \in ValueListeners : lpc[r] # "new" => send_values

\* A late callback was the last one that had been copied for its listener.
LateWasCopied ==
  \A r \in Listeners : late[r] > 0 =>
    /\ lpc[r] \in {"removed", "remove_threw"} /\ r \notin todo
    /\ late[r] = 1

ListInv ==
  /\ ConnInv
  /\ TypeOK
  /\ IdsDistinct
  /\ RegsWereAdded
  /\ FlagWasSet
  /\ LateWasCopied
  /\ SubscriptionAgrees

\* What SubscriptionAgrees asks of a message.
Agrees(m) ==
  /\ \A r \in regs : \E p \in m.events : EventKey(p) = EventKey(Pattern[r])
  /\ \A p \in m.events : \E r \in regs : Pattern[r] = p
  /\ regs \cap ValueListeners # {} => m.values

LEMMA AgreesIsMeant == SubscriptionAgrees <=> (Settled => Agrees(LastSubscription))
BY DEF SubscriptionAgrees, Agrees

LEMMA ListInvInit == Init => ListInv
<1> SUFFICES ASSUME Init
             PROVE  ListInv
  OBVIOUS
<1>1. ConnInv
  BY ConnInvInit DEF Init
<1>2. TypeOK
  <2>1. << >> \in Seq(Subscriptions) /\ Nothing \in Subscriptions
    BY DEF Subscriptions, Nothing
  <2>2. ConnTypeOK
    BY <1>1 DEF ConnInv
  <2>3. QED
    BY <2>1, <2>2 DEF Init, TypeOK, ListenerStates
<1>3. IdsDistinct /\ RegsWereAdded /\ FlagWasSet /\ LateWasCopied
  BY ListenersAssumption DEF Init, IdsDistinct, RegsWereAdded, FlagWasSet, LateWasCopied
<1>4. SubscriptionAgrees
  BY DEF Init, ConnInit, SubscriptionAgrees, Settled
<1>5. QED
  BY <1>1, <1>2, <1>3, <1>4 DEF ListInv

(***************************************************************************)
(* What is sent has the type of a subscription, and agrees.                *)
(***************************************************************************)
LEMMA MessageAgrees ==
  ASSUME ListInv, \A r \in regs \cap ValueListeners : lpc[r] # "new"
  PROVE  RegisterMessage \in Subscriptions /\ Agrees(RegisterMessage)
<1>1. id \in [Listeners -> Nat] /\ regs \subseteq Listeners /\ IdsDistinct /\ send_values \in BOOLEAN
  BY DEF ListInv, TypeOK
<1>2. regs \cap ValueListeners # {} => send_values
  BY DEF ListInv, FlagWasSet
<1>3. QED
  BY <1>1, <1>2, MessageFacts DEF Agrees

LEMMA RegsAreNotNew == ListInv => \A r \in regs \cap ValueListeners : lpc[r] # "new"
BY DEF ListInv, RegsWereAdded

(***************************************************************************)
(* A send makes the subscription agree, whatever was on its way.           *)
(***************************************************************************)
LEMMA SendStep ==
  ASSUME ListInv, SendMessage, UNCHANGED <<regs, subscription>>
  PROVE  uplink' \in Seq(Subscriptions) /\ SubscriptionAgrees'
<1>1. RegisterMessage \in Subscriptions /\ Agrees(RegisterMessage)
  BY RegsAreNotNew, MessageAgrees
<1>2. uplink \in Seq(Subscriptions)
  BY DEF ListInv, TypeOK
<1>3. /\ uplink' \in Seq(Subscriptions) /\ uplink' # << >>
      /\ uplink'[Len(uplink')] = RegisterMessage
  BY <1>1, <1>2 DEF SendMessage
<1>4. LastSubscription' = RegisterMessage
  BY <1>3 DEF LastSubscription
<1>5. Agrees(RegisterMessage) => Agrees(LastSubscription)'
  BY <1>4 DEF Agrees
<1>6. QED
  BY <1>1, <1>3, <1>5 DEF SubscriptionAgrees, Agrees

\* No registration, no message, no settling: nothing to show.
LEMMA AgreesKept ==
  ASSUME SubscriptionAgrees, UNCHANGED <<regs, LastSubscription>>, Settled' => Settled
  PROVE  SubscriptionAgrees'
BY DEF SubscriptionAgrees

(***************************************************************************)
(* The calls of one listener, and remove_all_listeners.                    *)
(***************************************************************************)
LEMMA TypeParts ==
  ListInv => /\ lpc \in [Listeners -> ListenerStates]
             /\ clear \in {"idle", "send", "done", "threw"}
             /\ regs \subseteq Listeners
             /\ id \in [Listeners -> Nat] /\ last_id \in Nat
             /\ send_values \in BOOLEAN /\ todo \subseteq Listeners
             /\ uplink \in Seq(Subscriptions) /\ subscription \in Subscriptions
             /\ late \in [Listeners -> Nat]
BY DEF ListInv, TypeOK

LEMMA AddStep ==
  ASSUME ListInv, ConnInv', NEW r \in Listeners, SetSendValues(r) \/ AddListener(r)
  PROVE  ListInv'
<1> USE TypeParts
<1>1. ConnTypeOK'
  BY DEF ConnInv
<1>2. CASE SetSendValues(r)
  <2>1. TypeOK'
    BY <1>1, <1>2 DEF SetSendValues, TypeOK, ListenerStates, serverVars, dispatchVars
  <2>2. IdsDistinct' /\ RegsWereAdded' /\ FlagWasSet' /\ LateWasCopied'
    BY <1>2 DEF SetSendValues, ListInv, IdsDistinct, RegsWereAdded, FlagWasSet, LateWasCopied,
                ListenerStates, dispatchVars
  <2>3. SubscriptionAgrees'
    <3>1. UNCHANGED <<regs, LastSubscription>>
      BY <1>2 DEF SetSendValues, serverVars, LastSubscription
    <3>2. Settled' => Settled
      BY <1>2 DEF SetSendValues, Settled, EventsMutexFree, connVars, ListenerStates
    <3>3. QED
      BY <3>1, <3>2, AgreesKept DEF ListInv
  <2>4. QED
    BY <2>1, <2>2, <2>3 DEF ListInv
<1>3. CASE AddListener(r)
  <2> USE <1>3 DEF AddListener
  <2>1. TypeOK'
    BY <1>1 DEF TypeOK, ListenerStates, serverVars, dispatchVars
  <2>2. lpc[r] \notin {"add_send", "added", "orphan"}
    OBVIOUS
  <2>3. IdsDistinct'
    BY DEF ListInv, IdsDistinct
  <2>4. RegsWereAdded'
    BY DEF ListInv, RegsWereAdded
  <2>5. FlagWasSet'
    BY DEF ListInv, FlagWasSet
  <2>6. LateWasCopied'
    BY DEF ListInv, LateWasCopied, dispatchVars
  <2>7. ~Settled'
    BY DEF Settled, EventsMutexFree, connVars
  <2>8. SubscriptionAgrees'
    BY <2>7 DEF SubscriptionAgrees
  <2>9. QED
    BY <2>1, <2>3, <2>4, <2>5, <2>6, <2>8 DEF ListInv
<1>4. QED
  BY <1>2, <1>3

LEMMA RemoveStep ==
  ASSUME ListInv, ConnInv', 
         RemoveAllListeners \/ \E r \in Listeners : RemoveListener(r)
  PROVE  ListInv'
<1> USE TypeParts
<1>1. ConnTypeOK'
  BY DEF ConnInv
<1>2. CASE RemoveAllListeners
  <2> USE <1>2 DEF RemoveAllListeners, serverVars, dispatchVars
  <2>1. TypeOK'
    BY <1>1 DEF TypeOK
  <2>2. IdsDistinct' /\ RegsWereAdded' /\ FlagWasSet' /\ LateWasCopied'
    BY DEF ListInv, IdsDistinct, RegsWereAdded, FlagWasSet, LateWasCopied
  <2>3. ~Settled'
    BY DEF Settled, EventsMutexFree, connVars
  <2>4. QED
    BY <2>1, <2>2, <2>3 DEF ListInv, SubscriptionAgrees
<1>3. ASSUME NEW r \in Listeners, RemoveListener(r)
      PROVE  ListInv'
  <2> USE <1>3 DEF RemoveListener, serverVars, dispatchVars
  <2>1. TypeOK'
    BY <1>1 DEF TypeOK, ListenerStates
  <2>2. IdsDistinct' /\ RegsWereAdded'
    BY DEF ListInv, IdsDistinct, RegsWereAdded
  <2>3. FlagWasSet' /\ LateWasCopied'
    BY DEF ListInv, FlagWasSet, LateWasCopied
  <2>4. ~Settled'
    BY DEF Settled, EventsMutexFree, connVars
  <2>5. QED
    BY <2>1, <2>2, <2>3, <2>4 DEF ListInv, SubscriptionAgrees
<1>4. QED
  BY <1>2, <1>3

(***************************************************************************)
(* The sends of RegisterEvents, by whatever call.                          *)
(***************************************************************************)
LEMMA SendsStep ==
  ASSUME ListInv, ConnInv',
         Sends \/ RemoveAllSend \/ OpenSendRegister
  PROVE  ListInv'
<1> USE TypeParts
<1>1. UNCHANGED <<regs, id, last_id, send_values, subscription, todo, late>>
  BY DEF Sends, AddSend, RemoveSend, RemoveAllSend, OpenSendRegister, tableVars, dispatchVars
<1>2. SendMessage \/ (UNCHANGED uplink /\ ws # "open")
  BY DEF Sends, AddSend, RemoveSend, RemoveAllSend, OpenSendRegister
<1>3. ws' = ws
  BY DEF Sends, AddSend, RemoveSend, RemoveAllSend, OpenSendRegister, OnOpenSendRegister, connVars
<1>4. uplink' \in Seq(Subscriptions) /\ SubscriptionAgrees'
  <2>1. CASE SendMessage
    BY <1>1, <2>1, SendStep
  <2>2. CASE UNCHANGED uplink /\ ws # "open"
    BY <1>3, <2>2 DEF SubscriptionAgrees, Settled
  <2>3. QED
    BY <1>2, <2>1, <2>2
<1>5. /\ lpc' \in [Listeners -> ListenerStates]
      /\ clear' \in {"idle", "send", "done", "threw"}
      /\ \A r \in Listeners : \/ lpc'[r] = lpc[r]
                              \/ lpc[r] = "add_send" /\ lpc'[r] \in {"added", "orphan"}
                              \/ lpc[r] = "remove_send" /\ lpc'[r] \in {"removed", "remove_threw"}
  BY DEF Sends, AddSend, RemoveSend, RemoveAllSend, OpenSendRegister, callVars, ListenerStates
<1>6. ConnTypeOK'
  BY DEF ConnInv
<1>7. TypeOK'
  BY <1>1, <1>4, <1>5, <1>6 DEF TypeOK
<1>8. IdsDistinct'
  BY <1>1 DEF ListInv, IdsDistinct
<1>9. RegsWereAdded'
  BY <1>1, <1>5 DEF ListInv, RegsWereAdded
<1>10. FlagWasSet'
  BY <1>1, <1>5, ListenersAssumption DEF ListInv, FlagWasSet
<1>11. LateWasCopied'
  BY <1>1, <1>5 DEF ListInv, LateWasCopied
<1>12. QED
  BY <1>4, <1>7, <1>8, <1>9, <1>10, <1>11 DEF ListInv

(***************************************************************************)
(* The server reads a message: what it will hold in the end is the same.   *)
(***************************************************************************)
LEMMA ServerStep ==
  ASSUME ListInv, ConnInv', ServerSubscribe
  PROVE  ListInv'
<1> USE TypeParts
<1>1. UNCHANGED <<connVars, lpc, clear, regs, id, last_id, send_values, todo, late>>
  BY DEF ServerSubscribe, callVars, tableVars, dispatchVars
<1>2. /\ uplink # << >> /\ uplink' = Tail(uplink) /\ subscription' = Head(uplink)
  BY DEF ServerSubscribe
<1>3. subscription' \in Subscriptions /\ uplink' \in Seq(Subscriptions)
  BY <1>2
<1>4. LastSubscription' = LastSubscription
  <2>1. CASE Len(uplink) = 1
    <3>1. uplink' = << >> /\ subscription' = uplink[1]
      BY <1>2, <2>1
    <3>2. QED
      BY <1>2, <2>1, <3>1 DEF LastSubscription
  <2>2. CASE Len(uplink) > 1
    <3>1. uplink' # << >> /\ uplink'[Len(uplink')] = uplink[Len(uplink)]
      <4>1. uplink \in Seq(Subscriptions) /\ uplink # << >>
        BY <1>2
      <4>2. /\ Len(uplink') = Len(uplink) - 1
            /\ \A i \in 1..Len(uplink') : uplink'[i] = uplink[i + 1]
        BY <1>2, <4>1, HeadTailProperties
      <4>3. Len(uplink) \in Nat /\ Len(uplink') \in 1..Len(uplink')
        BY <2>2, <4>1, <4>2, LenProperties
      <4>4. uplink'[Len(uplink')] = uplink[Len(uplink') + 1]
        BY <4>2, <4>3
      <4>5. uplink'[Len(uplink')] = uplink[Len(uplink)]
        BY <4>2, <4>3, <4>4
      <4>6. uplink' # << >>
        BY <4>3, EmptySeq
      <4>7. QED
        BY <4>5, <4>6
    <3>2. QED
      BY <1>2, <3>1 DEF LastSubscription
  <2>3. QED
    <3>1. uplink \in Seq(Subscriptions) /\ uplink # << >>
      BY <1>2
    <3>2. Len(uplink) \in Nat \ {0}
      BY <3>1, EmptySeq
    <3>3. \A n \in Nat \ {0} : n = 1 \/ n > 1
      OBVIOUS
    <3>4. Len(uplink) = 1 \/ Len(uplink) > 1
      BY <3>2, <3>3, Zenon
    <3>5. QED
      BY <2>1, <2>2, <3>4, Zenon
<1>5. Settled' => Settled
  BY <1>1 DEF connVars, Settled, EventsMutexFree
<1>6. SubscriptionAgrees'
  BY <1>1, <1>4, <1>5, AgreesKept DEF ListInv
<1>7. TypeOK'
  BY <1>1, <1>3 DEF TypeOK, ConnInv
<1>8. IdsDistinct' /\ RegsWereAdded' /\ FlagWasSet' /\ LateWasCopied'
  BY <1>1 DEF ListInv, IdsDistinct, RegsWereAdded, FlagWasSet, LateWasCopied
<1>9. QED
  BY <1>6, <1>7, <1>8 DEF ListInv

(***************************************************************************)
(* An event is dispatched.                                                 *)
(***************************************************************************)
LEMMA DispatchStep ==
  ASSUME ListInv, ConnInv',
         \/ \E e \in Events, kind \in {"text", "binary"} : Collect(e, kind)
         \/ \E r \in Listeners : RunCallback(r)
  PROVE  ListInv'
<1> USE TypeParts
<1>1. /\ UNCHANGED <<lpc, clear, regs, id, last_id, send_values, uplink, subscription>>
      /\ UNCHANGED <<connected, ws>>
      /\ io \in {"run", "callback"} /\ io' = "callback"
  BY DEF Collect, RunCallback, OnEvent, LoopFree, callVars, tableVars, serverVars, connVars
<1>2. LateWasCopied' /\ todo' \subseteq Listeners /\ late' \in [Listeners -> Nat]
  <2>1. ASSUME NEW e \in Events, NEW kind \in {"text", "binary"}, Collect(e, kind)
        PROVE  LateWasCopied' /\ todo' \subseteq Listeners /\ late' \in [Listeners -> Nat]
    <3>1. todo' \subseteq regs /\ late' = late
      BY <2>1 DEF Collect
    <3>2. \A r \in todo' : lpc[r] \notin {"removed", "remove_threw"}
      BY <3>1 DEF ListInv, RegsWereAdded
    <3>3. QED
      BY <1>1, <3>1, <3>2 DEF ListInv, LateWasCopied
  <2>2. ASSUME NEW r \in Listeners, RunCallback(r)
        PROVE  LateWasCopied' /\ todo' \subseteq Listeners /\ late' \in [Listeners -> Nat]
    <3>1. r \in todo /\ todo' \subseteq todo \ {r}
      BY <2>2 DEF RunCallback
    <3>2. late[r] = 0
      BY <3>1 DEF ListInv, LateWasCopied
    <3>3. late' = [late EXCEPT ![r] = IF lpc[r] \in {"removed", "remove_threw"} THEN @ + 1 ELSE @]
      BY <2>2 DEF RunCallback
    <3>4. late' \in [Listeners -> Nat]
      BY <3>3
    <3>5. /\ late'[r] > 0 => lpc[r] \in {"removed", "remove_threw"} /\ late'[r] = 1
          /\ \A s \in Listeners \ {r} : late'[s] = late[s]
      BY <3>2, <3>3
    <3>6. LateWasCopied'
      BY <1>1, <3>1, <3>5 DEF ListInv, LateWasCopied
    <3>7. QED
      BY <3>1, <3>4, <3>6
  <2>3. QED
    BY <2>1, <2>2
<1>3. SubscriptionAgrees'
  <2>1. UNCHANGED <<regs, LastSubscription>>
    BY <1>1 DEF LastSubscription
  <2>2. Settled' => Settled
    BY <1>1 DEF Settled, EventsMutexFree
  <2>3. QED
    BY <2>1, <2>2, AgreesKept DEF ListInv
<1>4. TypeOK'
  BY <1>1, <1>2 DEF TypeOK, ConnInv
<1>5. IdsDistinct' /\ RegsWereAdded' /\ FlagWasSet'
  BY <1>1 DEF ListInv, IdsDistinct, RegsWereAdded, FlagWasSet
<1>6. QED
  BY <1>2, <1>3, <1>4, <1>5 DEF ListInv

(***************************************************************************)
(* The life cycle: whatever brings a link up registers on it, and whatever *)
(* takes it away unsettles it.                                             *)
(***************************************************************************)
LEMMA QuietSettles ==
  ASSUME ListInv, Settled',
         CallbacksDone \/ BinaryThrow \/ OpenRegister \/ ConnOnly \/ UNCHANGED vars
  PROVE  Settled
<1>1. UNCHANGED <<lpc, clear>>
  BY DEF CallbacksDone, BinaryThrow, OpenRegister, ConnOnly, vars, listenerVars, callVars
<1>2. connected' /\ ws' = "open" /\ io' \notin {"register", "send_register"}
  BY DEF Settled, EventsMutexFree
<1>3. connected /\ ws = "open" /\ io \notin {"register", "send_register"}
  <2>1. connected => ws \in {"open", "closing"}
    BY DEF ListInv, ConnInv, ConnectedHasLink
  <2>2. CASE CallbacksDone \/ BinaryThrow \/ UNCHANGED vars
    BY <1>2, <2>2 DEF CallbacksDone, BinaryThrow, CallbackReturn, BinaryCallbackThrows, vars, connVars
  <2>3. CASE OpenRegister
    BY <1>2, <2>3 DEF OpenRegister, OnOpenRegister
  <2>4. CASE WsOpen \/ OnFail \/ OnClose \/ IoExit
    BY <1>2, <2>1, <2>4 DEF WsOpen, OnFail, OnClose, IoExit
  <2>5. CASE OnOpenMark \/ OnOpenLock \/ OnOpenDone
    BY <1>2, <2>5 DEF OnOpenMark, OnOpenLock, OnOpenDone
  <2>6. CASE DownTest \/ RetryTest \/ StartFlags \/ StartConnect
    BY <1>2, <2>6 DEF DownTest, RetryTest, StartFlags, StartConnect
  <2>7. CASE TimeoutCheck \/ TimeoutScan(FALSE) \/ PingThread
    BY <1>2, <2>7 DEF TimeoutCheck, TimeoutScan, PingThread, PingCheck, PingWake, PingTest, PingSend
  <2>8. CASE \/ CloseBegin \/ CloseDisconnect \/ CloseJoinPing \/ CloseStop
             \/ CloseJoinIo \/ CloseJoinTimeout \/ CloseClear(FALSE)
    BY <1>2, <2>8 DEF CloseBegin, CloseDisconnect, CloseJoinPing, CloseStop,
                      CloseJoinIo, CloseJoinTimeout, CloseClear
  <2>9. QED
    BY <2>2, <2>3, <2>4, <2>5, <2>6, <2>7, <2>8 DEF ConnOnly
<1>4. QED
  BY <1>1, <1>2, <1>3 DEF Settled, EventsMutexFree

LEMMA LifeCycleStep ==
  ASSUME ListInv, ConnInv',
         \/ CallbacksDone \/ BinaryThrow \/ OpenRegister \/ ConnOnly \/ UNCHANGED vars
         \/ LoseLink \/ Destroy
  PROVE  ListInv'
<1> USE TypeParts
<1>1. UNCHANGED <<lpc, clear, regs, id, last_id, send_values, todo, late>>
  BY DEF CallbacksDone, BinaryThrow, OpenRegister, ConnOnly, LoseLink, Destroy, vars,
         listenerVars, callVars, tableVars, dispatchVars
<1>2. /\ uplink' \in Seq(Subscriptions) /\ subscription' \in Subscriptions
  <2>1. << >> \in Seq(Subscriptions) /\ Nothing \in Subscriptions
    BY DEF Subscriptions, Nothing
  <2>2. \/ UNCHANGED <<uplink, subscription>>
        \/ uplink' = << >> /\ subscription' = Nothing
    BY DEF CallbacksDone, BinaryThrow, OpenRegister, ConnOnly, LoseLink, Destroy, vars,
           listenerVars, serverVars
  <2>3. QED
    BY <2>1, <2>2
<1>3. SubscriptionAgrees'
  <2>1. CASE LoseLink \/ Destroy
    <3>1. ~Settled'
      BY <2>1 DEF LoseLink, Destroy, WsLost, CloseWs, Destruct, Settled
    <3>2. QED
      BY <3>1 DEF SubscriptionAgrees
  <2>2. CASE CallbacksDone \/ BinaryThrow \/ OpenRegister \/ ConnOnly \/ UNCHANGED vars
    <3>1. UNCHANGED <<regs, LastSubscription>>
      BY <2>2 DEF CallbacksDone, BinaryThrow, OpenRegister, ConnOnly, vars,
                  listenerVars, tableVars, serverVars, LastSubscription
    <3>2. Settled' => Settled
      BY <2>2, QuietSettles
    <3>3. QED
      BY <3>1, <3>2, AgreesKept DEF ListInv
  <2>3. QED
    BY <2>1, <2>2
<1>4. TypeOK'
  BY <1>1, <1>2 DEF TypeOK, ConnInv
<1>5. IdsDistinct' /\ RegsWereAdded' /\ FlagWasSet' /\ LateWasCopied'
  BY <1>1 DEF ListInv, IdsDistinct, RegsWereAdded, FlagWasSet, LateWasCopied
<1>6. QED
  BY <1>3, <1>4, <1>5 DEF ListInv

LEMMA ListInvStep == ListInv /\ [Next]_vars => ListInv'
<1> SUFFICES ASSUME ListInv, [Next]_vars
             PROVE  ListInv'
  OBVIOUS
<1>1. ConnInv'
  BY StepRefines, ConnInvStep DEF ListInv
<1>2. CASE \E r \in Listeners : SetSendValues(r) \/ AddListener(r)
  BY <1>1, <1>2, AddStep
<1>3. CASE RemoveAllListeners \/ \E r \in Listeners : RemoveListener(r)
  BY <1>1, <1>3, RemoveStep
<1>4. CASE Sends \/ RemoveAllSend \/ OpenSendRegister
  BY <1>1, <1>4, SendsStep
<1>5. CASE ServerSubscribe
  BY <1>1, <1>5, ServerStep
<1>6. CASE \/ \E e \in Events, kind \in {"text", "binary"} : Collect(e, kind)
           \/ \E r \in Listeners : RunCallback(r)
  BY <1>1, <1>6, DispatchStep
<1>7. CASE \/ CallbacksDone \/ BinaryThrow \/ OpenRegister \/ ConnOnly \/ UNCHANGED vars
           \/ LoseLink \/ Destroy
  BY <1>1, <1>7, LifeCycleStep
<1>8. QED
  BY <1>2, <1>3, <1>4, <1>5, <1>6, <1>7 DEF Next

(***************************************************************************)
(* The invariant of the listeners: the life cycle's, the types, distinct   *)
(* ids, where a late callback can come from, and the agreement itself.     *)
(***************************************************************************)
THEOREM ListInvHolds == SafeSpec => []ListInv
<1>1. Init => ListInv
  BY ListInvInit
<1>2. ListInv /\ [Next]_vars => ListInv'
  BY ListInvStep
<1>3. QED
  BY <1>1, <1>2, PTL DEF SafeSpec

\* Type correctness of the listeners, for any listeners, patterns and events.
THEOREM TypeCorrect == SafeSpec => []TypeOK
<1>1. ListInv => TypeOK
  BY DEF ListInv
<1>2. QED
  BY <1>1, ListInvHolds, PTL

(***************************************************************************)
(* However add, remove, OnOpen and drops interleave, on a settled link the *)
(* server's subscription is that of the registrations.                     *)
(***************************************************************************)
THEOREM ServerAgrees == SafeSpec => []SubscriptionAgrees
<1>1. ListInv => SubscriptionAgrees
  BY DEF ListInv
<1>2. QED
  BY <1>1, ListInvHolds, PTL

(***************************************************************************)
(* After its removal returned a listener is called once more at most.      *)
(***************************************************************************)
THEOREM LateCallbackIsLast == SafeSpec => []LateAtMostOnce
<1>1. ListInv => LateAtMostOnce
  <2> SUFFICES ASSUME ListInv, NEW r \in Listeners
               PROVE  late[r] <= 1
    BY DEF LateAtMostOnce
  <2>1. late[r] \in Nat
    BY TypeParts
  <2>2. late[r] > 0 => late[r] = 1
    BY DEF ListInv, LateWasCopied
  <2>3. QED
    BY <2>1, <2>2
<1>2. QED
  BY <1>1, ListInvHolds, PTL

-------------------------------------------------------------------------------
(***************************************************************************)
(* Liveness, from ListenersGoOn.                                           *)
(***************************************************************************)

\* Where the I/O thread is with its link, before close().
LinkInv ==
  ~CloseBegun =>
    /\ ws = "open" => connected \/ io = "opening"
    /\ ws \in {"connecting", "closing"} => io = "run"
    /\ io = "register" => connected

LEMMA LinkInvHolds == ConnSafeSpec => []LinkInv
<1>1. ConnInit => LinkInv
  BY DEF ConnInit, LinkInv
<1>2. ConnInv /\ RetryInv /\ LinkInv /\ [ConnNext]_connVars => LinkInv'
  <2> SUFFICES ASSUME ConnInv, RetryInv, LinkInv, [ConnNext]_connVars
               PROVE  LinkInv'
    OBVIOUS
  <2> USE DEF LinkInv, RetryInv, CloseBegun
  <2>1. CASE Transport
    BY <2>1 DEF Transport, WsOpen, OnFail, WsLost, OnEvent, LoopFree
  <2>2. CASE IoHandler \/ BinaryCallbackThrows
    BY <2>2 DEF ConnInv, HandlerHasLink, OpeningLinkIsOpen, NoLinkReplaced, IoHandler, BinaryCallbackThrows,
                OnClose, CallbackReturn, IoExit, OnOpenMark, OnOpenRegister, OnOpenSendRegister,
                OnOpenLock, OnOpenDone, DownTest, RetryTest, StartFlags, StartConnect, LoopFree
  <2>3. CASE TimeoutThread \/ PingThread
    BY <2>3 DEF TimeoutThread, TimeoutCheck, TimeoutScan, PingThread, PingCheck, PingWake,
                PingTest, PingSend
  <2>4. CASE CloseBegin \/ CloseCall \/ \E throws \in BOOLEAN : Destruct(throws)
    BY <2>4 DEF CloseBegin, CloseCall, CloseDisconnect, CloseJoinPing, CloseWs, CloseStop,
                CloseJoinIo, CloseJoinTimeout, CloseClear, Destruct
  <2>5. CASE UNCHANGED connVars
    BY <2>5 DEF connVars
  <2>6. QED
    BY <2>1, <2>2, <2>3, <2>4, <2>5 DEF ConnNext
<1>3. QED
  BY <1>1, <1>2, ConnInvHolds, RetryInvHolds, PTL DEF ConnSafeSpec

\* A message, or the server, covers a listener that lists its event key.
Covers(m, r) == \E p \in m.events : EventKey(p) = EventKey(Pattern[r])

\* The server has not heard of a listener, and nothing excuses it.
Unheard(r) ==
  /\ r \in regs /\ ~Covers(subscription, r)
  /\ Alive /\ ~CloseBegun /\ ws # "absent"

\* Whatever the server still has to read covers the listener.
Clean(r) == \A i \in 1..Len(uplink) : Covers(uplink[i], r)

\* Where the I/O thread and the link are.
IoAtStep(i) == io = i
LinkIs(w) == ws = w

HasWork == Alive /\ ws = "open" /\ uplink # << >>

(***************************************************************************)
(* While a listener is unheard, no message that leaves it out is sent, and *)
(* the server reads none that covers it.                                   *)
(***************************************************************************)
LEMMA UplinkSteps ==
  ASSUME ListInv, NEW r, Unheard(r), Unheard(r)', [Next]_vars
  PROVE  /\ uplink = << >> => Clean(r)
         /\ Clean(r) => Clean(r)' /\ ~<<ServerSubscribe>>_vars
<1> USE TypeParts
<1>1. uplink = << >> => Clean(r)
  BY DEF Clean
<1>2. ASSUME Clean(r), ServerSubscribe
      PROVE  FALSE
  <2>1. uplink \in Seq(Subscriptions) /\ uplink # << >> /\ subscription' = Head(uplink)
    BY <1>2 DEF ServerSubscribe
  <2>2. subscription' = uplink[1] /\ 1 \in 1..Len(uplink)
    BY <2>1
  <2>3. Covers(subscription', r)
    BY <1>2, <2>2 DEF Clean
  <2>4. QED
    BY <2>3 DEF Unheard, Covers
<1>3. ASSUME Clean(r), ~ServerSubscribe
      PROVE  Clean(r)'
  <2>1. CASE UNCHANGED uplink
    BY <1>3, <2>1 DEF Clean, Covers
  <2>2. CASE uplink' = << >>
    BY <2>2 DEF Clean
  <2>3. CASE SendMessage
    <3>1. RegisterMessage \in Subscriptions /\ Agrees(RegisterMessage)
      BY RegsAreNotNew, MessageAgrees
    <3>2. Covers(RegisterMessage, r)
      BY <3>1 DEF Agrees, Covers, Unheard
    <3>3. uplink \in Seq(Subscriptions) /\ uplink' = Append(uplink, RegisterMessage)
      BY <2>3 DEF SendMessage
    <3>4. /\ Len(uplink') = Len(uplink) + 1
          /\ \A i \in 1..Len(uplink) : uplink'[i] = uplink[i]
          /\ uplink'[Len(uplink) + 1] = RegisterMessage
      BY <3>1, <3>3
    <3>5. \A i \in 1..Len(uplink') : i \in 1..Len(uplink) \/ i = Len(uplink) + 1
      BY <3>3, <3>4
    <3>6. \A i \in 1..Len(uplink') : Covers(uplink'[i], r)
      BY <1>3, <3>2, <3>4, <3>5 DEF Clean
    <3>7. QED
      BY <3>6 DEF Clean, Covers
  <2>4. UNCHANGED uplink \/ uplink' = << >> \/ SendMessage
    <3>1. CASE UNCHANGED vars \/ CallbacksDone \/ BinaryThrow \/ OpenRegister \/ ConnOnly
      BY <3>1 DEF vars, CallbacksDone, BinaryThrow, OpenRegister, ConnOnly, listenerVars, serverVars
    <3>2. CASE LoseLink \/ Destroy
      BY <3>2 DEF LoseLink, Destroy
    <3>3. CASE Sends \/ RemoveAllSend \/ OpenSendRegister
      BY <3>3 DEF Sends, AddSend, RemoveSend, RemoveAllSend, OpenSendRegister
    <3>4. CASE RemoveAllListeners \/ \E s \in Listeners : \/ SetSendValues(s) \/ AddListener(s)
                                                         \/ RemoveListener(s) \/ RunCallback(s)
      BY <3>4 DEF RemoveAllListeners, SetSendValues, AddListener, RemoveListener, RunCallback, serverVars
    <3>5. CASE \E e \in Events, kind \in {"text", "binary"} : Collect(e, kind)
      BY <3>5 DEF Collect, serverVars
    <3>6. QED
      BY <1>3, <3>1, <3>2, <3>3, <3>4, <3>5 DEF Next
  <2>5. QED
    BY <2>1, <2>2, <2>3, <2>4
<1>4. QED
  BY <1>1, <1>2, <1>3

(***************************************************************************)
(* Where the I/O thread goes with a link that is not settled.              *)
(***************************************************************************)
LEMMA LinkSteps ==
  ASSUME ConnInv, RetryInv, LinkInv, [ConnNext]_connVars,
         Alive, ~CloseBegun, Alive', ~CloseBegun'
  PROVE  /\ io = "register" => \/ io' = "register" /\ ~<<IoHandler>>_connVars
                               \/ io' = "send_register"
         /\ io = "send_register" =>
              \/ io' = "send_register" /\ ~<<IoHandler>>_connVars
              \/ io' # io /\ ws = "open" /\ ws' = "open"
         /\ io = "opening" => \/ io' = "opening" /\ ~<<IoHandler>>_connVars
                              \/ io' = "register"
         /\ ~connected => ~connected' \/ io' = "register"
         /\ ws = "closing" => (ws' = "closing" /\ ~<<IoHandler>>_connVars) \/ ws' = "gone"
         /\ <<WsOpen>>_connVars => io' = "opening"
<1> USE DEF ConnInv, ConnTypeOK, RetryInv, LinkInv, CloseBegun, Alive
<1>1. CASE Transport
  BY <1>1 DEF Transport, WsOpen, OnFail, WsLost, OnEvent, LoopFree, IoHandler, OnClose,
              CallbackReturn, IoExit, OnOpenMark, OnOpenRegister, OnOpenSendRegister,
              OnOpenLock, OnOpenDone, DownTest, RetryTest, StartFlags, StartConnect
<1>2. CASE IoHandler \/ BinaryCallbackThrows
  BY <1>2 DEF OpeningLinkIsOpen, NoLinkReplaced, IoHandler, BinaryCallbackThrows, OnClose, CallbackReturn,
              IoExit, OnOpenMark, OnOpenRegister, OnOpenSendRegister, OnOpenLock, OnOpenDone,
              DownTest, RetryTest, StartFlags, StartConnect, LoopFree, WsOpen
<1>3. CASE TimeoutThread \/ PingThread
  BY <1>3 DEF TimeoutThread, TimeoutCheck, TimeoutScan, PingThread, PingCheck, PingWake,
              PingTest, PingSend, WsOpen, LoopFree, IoHandler, OnClose,
              CallbackReturn, IoExit, OnOpenMark, OnOpenRegister, OnOpenSendRegister,
              OnOpenLock, OnOpenDone, DownTest, RetryTest, StartFlags, StartConnect
<1>4. CASE CloseBegin \/ CloseCall \/ \E throws \in BOOLEAN : Destruct(throws)
  BY <1>4 DEF CloseBegin, CloseCall, CloseDisconnect, CloseJoinPing, CloseWs, CloseStop,
              CloseJoinIo, CloseJoinTimeout, CloseClear, Destruct
<1>5. CASE UNCHANGED connVars
  BY <1>5 DEF connVars
<1>6. QED
  BY <1>1, <1>2, <1>3, <1>4, <1>5 DEF ConnNext

\* OnOpen's send leaves a message on its way to the server.
LEMMA OpenSends ==
  ASSUME ListInv, [Next]_vars, io = "send_register", io' # io, ws = "open", ws' = "open", Alive'
  PROVE  HasWork'
<1>1. OpenSendRegister
  <2>1. CASE UNCHANGED vars \/ CallbacksDone \/ BinaryThrow \/ OpenRegister
    BY <2>1 DEF vars, connVars, CallbacksDone, CallbackReturn, BinaryThrow, BinaryCallbackThrows, OpenRegister,
                OnOpenRegister
  <2>2. CASE ConnOnly
    BY <2>2 DEF ConnOnly, WsOpen, OnFail, OnClose, IoExit, OnOpenMark, OnOpenLock, OnOpenDone,
                DownTest, RetryTest, StartFlags, StartConnect, TimeoutCheck, TimeoutScan,
                PingThread, PingCheck, PingWake, PingTest, PingSend, CloseBegin, CloseDisconnect,
                CloseJoinPing, CloseStop, CloseJoinIo, CloseJoinTimeout, CloseClear, LoopFree
  <2>3. CASE LoseLink \/ Destroy
    BY <2>3 DEF LoseLink, WsLost, CloseWs, Destroy, Destruct
  <2>4. CASE Sends \/ RemoveAllSend \/ RemoveAllListeners \/ ServerSubscribe
    BY <2>4 DEF Sends, AddSend, RemoveSend, RemoveAllSend, RemoveAllListeners, ServerSubscribe, connVars
  <2>5. CASE \E s \in Listeners : \/ SetSendValues(s) \/ AddListener(s)
                                 \/ RemoveListener(s) \/ RunCallback(s)
    BY <2>5 DEF SetSendValues, AddListener, RemoveListener, RunCallback, connVars
  <2>6. CASE \E e \in Events, kind \in {"text", "binary"} : Collect(e, kind)
    BY <2>6 DEF Collect, EventsMutexFree
  <2>7. QED
    BY <2>1, <2>2, <2>3, <2>4, <2>5, <2>6 DEF Next
<1>2. RegisterMessage \in Subscriptions /\ uplink \in Seq(Subscriptions)
  BY RegsAreNotNew, MessageAgrees, TypeParts
<1>3. uplink' = Append(uplink, RegisterMessage)
  BY <1>1 DEF OpenSendRegister, SendMessage
<1>4. uplink' # << >>
  BY <1>2, <1>3
<1>5. QED
  BY <1>4 DEF HasWork

\* On a link that has been registered on and read to its end, none is unheard.
LEMMA SettledIsHeard ==
  ASSUME ListInv, LinkInv, NEW r, Unheard(r), EventsMutexFree, ~HasWork
  PROVE  ws # "open" \/ io \in {"opening", "register", "send_register"}
<1> SUFFICES ASSUME ws = "open", io \notin {"opening", "register", "send_register"}
             PROVE  FALSE
  OBVIOUS
<1>1. Settled
  BY DEF Settled, LinkInv, Unheard
<1>2. uplink = << >>
  BY DEF HasWork, Unheard
<1>3. LastSubscription = subscription
  BY <1>2 DEF LastSubscription
<1>4. Agrees(subscription)
  BY <1>1, <1>3, AgreesIsMeant DEF ListInv
<1>5. QED
  BY <1>4 DEF Agrees, Unheard, Covers

(***************************************************************************)
(* The server hears of every listener: it catches up with what was sent    *)
(* before the listener registered; from then on every message covers it,   *)
(* and no link that stays up can avoid a message.                          *)
(***************************************************************************)
THEOREM ServerHearsOfAll == SafeSpec /\ ListenersGoOn => ListenersGetSubscribed
<1> SUFFICES ASSUME NEW r \in Listeners
             PROVE  SafeSpec /\ ListenersGoOn =>
                      (r \in regs ~> \/ \E p \in subscription.events : EventKey(p) = EventKey(Pattern[r])
                                     \/ r \notin regs \/ ws = "absent" \/ CloseBegun \/ ~Alive)
  BY DEF ListenersGetSubscribed
<1>1. \/ Unheard(r)
      \/ \E p \in subscription.events : EventKey(p) = EventKey(Pattern[r])
      \/ r \notin regs \/ ws = "absent" \/ CloseBegun \/ ~Alive
  BY DEF Unheard, Covers
<1>2. Unheard(r) /\ ListInv /\ RetryInv /\ LinkInv =>
        /\ Alive /\ ~CloseBegun
        /\ LinkIs("connecting") \/ LinkIs("open") \/ LinkIs("closing") \/ LinkIs("gone")
        /\ LinkIs("connecting") => ConnectReady
        /\ LinkIs("gone") => ~connected
        /\ LinkIs("closing") \/ IoAtStep("opening") \/ IoAtStep("register") \/ IoAtStep("send_register") => IoReady
        /\ EventsMutexFree /\ ~HasWork => ~(LinkIs("open")) \/ IoAtStep("opening") \/ IoAtStep("register") \/ IoAtStep("send_register")
  <2> SUFFICES ASSUME Unheard(r), ListInv, RetryInv, LinkInv
               PROVE  /\ Alive /\ ~CloseBegun
                      /\ LinkIs("connecting") \/ LinkIs("open") \/ LinkIs("closing") \/ LinkIs("gone")
                      /\ LinkIs("connecting") => ConnectReady
                      /\ LinkIs("gone") => ~connected
                      /\ LinkIs("closing") \/ IoAtStep("opening") \/ IoAtStep("register") \/ IoAtStep("send_register") => IoReady
                      /\ EventsMutexFree /\ ~HasWork =>
                           ~(LinkIs("open")) \/ IoAtStep("opening") \/ IoAtStep("register") \/ IoAtStep("send_register")
    OBVIOUS
  <2>1. Alive /\ ~CloseBegun /\ ws # "absent"
    BY DEF Unheard
  <2>2. ws \in WsStates /\ (ws = "gone" => ~connected)
    BY DEF ListInv, ConnInv, ConnTypeOK, ConnectedHasLink
  <2>3. ws = "connecting" => ConnectReady
    BY <2>1 DEF LinkInv, RetryInv, ConnectReady, LoopFree
  <2>4. ws = "closing" \/ io = "opening" \/ io = "register" \/ io = "send_register" => IoReady
    BY <2>1 DEF LinkInv, IoReady, Ended
  <2>5. QED
    BY <2>1, <2>2, <2>3, <2>4, SettledIsHeard DEF WsStates, IoAtStep, LinkIs
<1>3. ListInv /\ RetryInv /\ LinkInv /\ Unheard(r) /\ Unheard(r)' /\ [Next]_vars =>
        /\ uplink = << >> => Clean(r)
        /\ Clean(r) => Clean(r)' /\ ~<<ServerSubscribe>>_vars
        /\ IoAtStep("register") => (IoAtStep("register")' /\ ~<<IoHandler>>_connVars) \/ IoAtStep("send_register")'
        /\ IoAtStep("send_register") => (IoAtStep("send_register")' /\ ~<<IoHandler>>_connVars) \/ HasWork'
        /\ IoAtStep("opening") => (IoAtStep("opening")' /\ ~<<IoHandler>>_connVars) \/ IoAtStep("register")'
        /\ ~connected => ~connected' \/ IoAtStep("register")'
        /\ LinkIs("closing") => (LinkIs("closing")' /\ ~<<IoHandler>>_connVars) \/ LinkIs("gone")'
        /\ <<WsOpen>>_connVars => IoAtStep("opening")'
  <2> SUFFICES ASSUME ListInv, RetryInv, LinkInv, Unheard(r), Unheard(r)', [Next]_vars
               PROVE  /\ uplink = << >> => Clean(r)
                      /\ Clean(r) => Clean(r)' /\ ~<<ServerSubscribe>>_vars
                      /\ IoAtStep("register") => \/ IoAtStep("register")' /\ ~<<IoHandler>>_connVars
                                            \/ IoAtStep("send_register")'
                      /\ IoAtStep("send_register") => \/ IoAtStep("send_register")' /\ ~<<IoHandler>>_connVars
                                                 \/ HasWork'
                      /\ IoAtStep("opening") => \/ IoAtStep("opening")' /\ ~<<IoHandler>>_connVars
                                           \/ IoAtStep("register")'
                      /\ ~connected => ~connected' \/ IoAtStep("register")'
                      /\ LinkIs("closing") => (LinkIs("closing")' /\ ~<<IoHandler>>_connVars) \/ LinkIs("gone")'
                      /\ <<WsOpen>>_connVars => IoAtStep("opening")'
    OBVIOUS
  <2>1. ConnInv /\ [ConnNext]_connVars
    BY StepRefines DEF ListInv
  <2>2. Alive /\ ~CloseBegun /\ Alive' /\ ~CloseBegun'
    BY DEF Unheard
  <2>3. /\ io = "register" => \/ io' = "register" /\ ~<<IoHandler>>_connVars
                              \/ io' = "send_register"
        /\ io = "send_register" => \/ io' = "send_register" /\ ~<<IoHandler>>_connVars
                                   \/ io' # io /\ ws = "open" /\ ws' = "open"
        /\ io = "opening" => \/ io' = "opening" /\ ~<<IoHandler>>_connVars
                             \/ io' = "register"
        /\ ~connected => ~connected' \/ io' = "register"
        /\ ws = "closing" => (ws' = "closing" /\ ~<<IoHandler>>_connVars) \/ ws' = "gone"
        /\ <<WsOpen>>_connVars => io' = "opening"
    BY <2>1, <2>2, LinkSteps
  <2>4. io = "send_register" /\ io' # io /\ ws = "open" /\ ws' = "open" => HasWork'
    BY <2>2, OpenSends
  <2>5. QED
    BY <2>3, <2>4, UplinkSteps DEF IoAtStep, LinkIs
<1>4. /\ SafeSpec => []ListInv /\ []RetryInv /\ []LinkInv
      /\ SafeSpec /\ ListenersGoOn => Reconnects
  BY ListInvHolds, ListenersRefineConnection, RetryInvHolds, LinkInvHolds, ConnectionComesBack, PTL
     DEF ListenersGoOn
\* Suppose the listener is unheard for ever: then nothing is sent any more.
<1> DEFINE Waiting == /\ []ListInv /\ []RetryInv /\ []LinkInv /\ [][Next]_vars /\ ListenersGoOn
                      /\ Reconnects /\ []Unheard(r)
           Idle == Waiting /\ []~HasWork
<1>5. Waiting => <>[]~HasWork
  BY <1>2, <1>3, PTL DEF ListenersGoOn, HasWork
\* So OnOpen never registers, no link comes up, and the one that is up is settled.
<1>6. Idle => []~(IoAtStep("send_register"))
  BY <1>2, <1>3, PTL DEF ListenersGoOn, ThreadsGoOn
<1>7. Idle => []~(IoAtStep("register"))
  BY <1>2, <1>3, <1>6, PTL DEF ListenersGoOn, ThreadsGoOn
<1>8. Idle => []~(IoAtStep("opening"))
  BY <1>2, <1>3, <1>7, PTL DEF ListenersGoOn, ThreadsGoOn
<1>9. Idle => <>[]~(LinkIs("connecting"))
  BY <1>2, <1>3, <1>8, PTL DEF ListenersGoOn, ThreadsGoOn
<1>10. Idle => []~(LinkIs("gone"))
  <2>1. (LinkIs("gone") => ws = "gone") /\ (Unheard(r) => Alive /\ ~CloseBegun)
    BY DEF LinkIs, Unheard
  <2>2. QED
    BY <1>2, <1>3, <1>7, <2>1, PTL DEF Reconnects
<1>11. Idle => []~(LinkIs("closing"))
  BY <1>2, <1>3, <1>10, PTL DEF ListenersGoOn, ThreadsGoOn
<1>12. ~(Idle)
  <2>1. Unheard(r) /\ ListInv /\ RetryInv /\ LinkInv /\ ~HasWork =>
          \/ ~EventsMutexFree
          \/ IoAtStep("opening") \/ IoAtStep("register") \/ IoAtStep("send_register")
          \/ LinkIs("connecting") \/ LinkIs("closing") \/ LinkIs("gone")
    BY <1>2
  <2>2. Unheard(r) => Alive
    BY DEF Unheard
  <2>3. QED
    BY <1>6, <1>7, <1>8, <1>9, <1>10, <1>11, <2>1, <2>2, PTL DEF ListenersGoOn
<1>13. SafeSpec /\ ListenersGoOn => ~<>[]Unheard(r)
  <2>1. ListenersGoOn => []ListenersGoOn
    BY PTL DEF ListenersGoOn, ThreadsGoOn
  <2>2. Reconnects => []Reconnects
    BY PTL DEF Reconnects
  <2>3. QED
    BY <1>4, <1>5, <1>12, <2>1, <2>2, PTL DEF SafeSpec
<1>14. QED
  BY <1>1, <1>13, PTL
===============================================================================
