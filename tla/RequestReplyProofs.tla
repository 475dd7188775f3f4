-------------------------- MODULE RequestReplyProofs --------------------------
(***************************************************************************)
(* The properties of module RequestReply, for any requests, any repliers,  *)
(* any timeouts and any depth of replies to replies; liveness follows from *)
(* TimeoutsGoOn, the passes of the Requestor's timeout thread.             *)
(***************************************************************************)
EXTENDS RequestReply, TLAPS

(***************************************************************************)
(* Facts about sequences, in the shape the steps below need.               *)
(***************************************************************************)
LEMMA AppendFacts ==
  ASSUME NEW S, NEW s \in Seq(S), NEW e \in S
  PROVE  /\ Append(s, e) \in Seq(S)
         /\ Len(Append(s, e)) = Len(s) + 1
         /\ Append(s, e)[Len(s) + 1] = e
         /\ \A i \in 1 .. Len(s) : Append(s, e)[i] = s[i]
OBVIOUS

LEMMA TailFacts ==
  ASSUME NEW S, NEW s \in Seq(S), s # << >>
  PROVE  /\ Head(s) \in S /\ Head(s) = s[1] /\ Len(s) \in Nat \ {0}
         /\ Tail(s) \in Seq(S) /\ Len(Tail(s)) = Len(s) - 1
         /\ \A i \in 1 .. Len(Tail(s)) : Tail(s)[i] = s[i + 1]
OBVIOUS

-------------------------------------------------------------------------------
(***************************************************************************)
(* Type correctness, and destroy()'s order: the listeners go after the     *)
(* timeout thread.                                                         *)
(***************************************************************************)

JoinedBeforeRemoval == life \in {"no_reply", "destroyed"} => tmo = "exit"

\* Nothing is told before the request is registered.
FreshRequests == \A r \in Requests : call[r] # "made" => told[r] = "none"

TableInv == FreshRequests /\ EntryMatchesPromise

RRInv == TypeOK /\ JoinedBeforeRemoval /\ TableInv

(***************************************************************************)
(* The type invariant in three parts.                                      *)
(***************************************************************************)
TableType ==
  /\ call \in [Requests -> {"idle", "signalled", "made", "threw"}]
  /\ entry \in [Requests -> BOOLEAN]
  /\ told \in [Requests -> {"none", "reply", "echo", "broken", "timeout", "progress_timeout"}]
  /\ total \in [Requests -> 0 .. Timeout + 1]
  /\ quiet \in [Requests -> 0 .. ProgressTimeout + 1]

ThreadType ==
  /\ io \in {"run", "dispatch", "callback"}
  /\ msg \in Seq(Messages) /\ Len(msg) = IF io = "run" THEN 0 ELSE 1
  /\ tmo \in {"check", "sleep", "exit"}
  /\ life \in {"up", "shutdown", "no_reply", "destroyed"}

WireType ==
  /\ toRequestor \in Seq(Messages)
  /\ toReplier \in [Repliers -> Seq(Questions)]
  /\ asked \in [Repliers -> SUBSET Questions]
  /\ progress \in [Requests -> 0 .. MaxProgress]
  /\ overlooked \subseteq Requests

LEMMA TypeParts == TypeOK <=> TableType /\ ThreadType /\ WireType
BY DEF TypeOK, TableType, ThreadType, WireType

LEMMA MessageFacts ==
  /\ \A m \in Messages : m.id \in Requests
  /\ \A m \in Questions : m.id \in Requests /\ m.depth \in 0 .. MaxDepth
  /\ \A r \in Requests, d \in 0 .. MaxDepth :
       /\ [id |-> r, depth |-> d] \in Questions
       /\ \A k \in {"reply", "progress", "blank"} : [id |-> r, kind |-> k, depth |-> d] \in Messages
BY DEF Messages, Questions

\* What a reply tells, and whom it missed.
LEMMA ReplyFacts ==
  ASSUME NEW m \in Messages
  PROVE  /\ ReplyResult(m) \in {"reply", "echo", "broken"}
         /\ Missed(m) \subseteq Requests
         /\ \A r \in Missed(m) : m.kind = "reply" /\ m.depth = 1 /\ m.id = r
         /\ m.kind = "reply" /\ m.depth = 1 => m.id \in Missed(m)
BY DEF ReplyResult, Missed, Messages

\* A message that is dispatched is one of a well-typed sequence of length 1.
LEMMA Dispatched == ThreadType /\ io # "run" => msg[1] \in Messages
BY DEF ThreadType

LEMMA TableTypeStep == TypeOK /\ [Next]_vars => TableType'
<1> SUFFICES ASSUME TypeOK, [Next]_vars
             PROVE  TableType'
  OBVIOUS
<1>0. TableType /\ ThreadType
  BY TypeParts
<1> USE <1>0, RequestReplyAssumption DEF TableType
<1>1. ASSUME NEW r \in Requests, Requesting(r)
      PROVE  TableType'
  <2>1. CASE SignalRequest(r)    BY <2>1 DEF SignalRequest
  <2>2. CASE SignalThrows(r)     BY <2>2 DEF SignalThrows
  <2>3. CASE RegisterRequest(r)  BY <2>3 DEF RegisterRequest
  <2>4. QED
    BY <1>1, <2>1, <2>2, <2>3 DEF Requesting
<1>2. ASSUME NEW p \in Repliers, Replying(p)
      PROVE  TableType'
  BY <1>2 DEF Replying, OnRequest, IgnoreRequest, Respond, SignalProgress, requestVars
<1>9. ASSUME NEW r \in Requests, OtherClientDeletes(r)
      PROVE  TableType'
  BY <1>9 DEF OtherClientDeletes, requestVars
<1>3. CASE Dispatch \/ ProgressReturns \/ LoseSignal \/ CheckShutdown
  BY <1>3 DEF Dispatch, ProgressReturns, LoseSignal, CheckShutdown, requestVars
<1>4. CASE OnReply \/ OnProgress
  <2>1. msg[1].id \in Requests
    BY <1>4, Dispatched, MessageFacts DEF OnReply, OnProgress
  <2>2. CASE OnReply
    <3>1. ReplyResult(msg[1]) \in {"reply", "echo", "broken"}
      BY <1>4, Dispatched, ReplyFacts DEF OnReply, OnProgress
    <3>2. QED
      BY <2>1, <2>2, <3>1 DEF OnReply
  <2>3. CASE OnProgress
    <3>1. UNCHANGED <<call, entry, told, total>> /\ (quiet' = quiet \/ quiet' = [quiet EXCEPT ![msg[1].id] = 0])
      BY <2>3 DEF OnProgress
    <3>2. quiet' \in [Requests -> 0 .. ProgressTimeout + 1]
      BY <2>1, <3>1
    <3>3. QED
      BY <3>1, <3>2
  <2>4. QED
    BY <1>4, <2>2, <2>3
<1>5. CASE Tick
  BY <1>5 DEF Tick
<1>6. CASE ScanTimeouts
  BY <1>6 DEF ScanTimeouts
<1>7. CASE DestroyBegin \/ RemoveReplyListener \/ RemoveProgressListener \/ UNCHANGED vars
  BY <1>7 DEF DestroyBegin, RemoveReplyListener, RemoveProgressListener, vars, requestVars
<1>8. QED
  BY <1>1, <1>2, <1>3, <1>4, <1>5, <1>6, <1>7, <1>9 DEF Next

LEMMA ThreadTypeStep == TypeOK /\ [Next]_vars => ThreadType'
<1> SUFFICES ASSUME TypeOK, [Next]_vars
             PROVE  ThreadType'
  OBVIOUS
<1>0. ThreadType /\ WireType
  BY TypeParts
<1> USE <1>0 DEF ThreadType
<1>1. CASE UNCHANGED threadVars
  BY <1>1 DEF threadVars
<1>2. ASSUME NEW r \in Requests, Requesting(r)
      PROVE  ThreadType'
  BY <1>1, <1>2 DEF Requesting, SignalRequest, SignalThrows, RegisterRequest
<1>9. ASSUME NEW r \in Requests, OtherClientDeletes(r)
      PROVE  ThreadType'
  BY <1>1, <1>9 DEF OtherClientDeletes
<1>3. ASSUME NEW p \in Repliers, Replying(p)
      PROVE  ThreadType'
  BY <1>1, <1>3 DEF Replying, OnRequest, IgnoreRequest, Respond, SignalProgress
<1>4. CASE Dispatch
  <2>1. Head(toRequestor) \in Messages
    BY <1>4, TailFacts DEF Dispatch, WireType
  <2>2. << Head(toRequestor) >> \in Seq(Messages) /\ Len(<< Head(toRequestor) >>) = 1
    BY <2>1
  <2>3. QED
    BY <1>4, <2>2 DEF Dispatch
<1>5. CASE OnReply \/ OnProgress \/ ProgressReturns
  <2>1. io' = "run" /\ msg' = << >> => msg' \in Seq(Messages) /\ Len(msg') = 0
    OBVIOUS
  <2>2. CASE OnReply          BY <2>1, <2>2 DEF OnReply
  <2>3. CASE OnProgress       BY <2>1, <2>3 DEF OnProgress
  <2>4. CASE ProgressReturns  BY <2>1, <2>4 DEF ProgressReturns
  <2>5. QED
    BY <1>5, <2>2, <2>3, <2>4
<1>6. CASE LoseSignal \/ Tick \/ UNCHANGED vars
  BY <1>1, <1>6 DEF LoseSignal, Tick, vars
<1>7. CASE CheckShutdown \/ ScanTimeouts \/ DestroyBegin \/ RemoveReplyListener \/ RemoveProgressListener
  BY <1>7 DEF CheckShutdown, ScanTimeouts, DestroyBegin, RemoveReplyListener,
              RemoveProgressListener
<1>8. QED
  BY <1>2, <1>3, <1>4, <1>5, <1>6, <1>7, <1>9 DEF Next

LEMMA WireTypeStep == TypeOK /\ [Next]_vars => WireType'
<1> SUFFICES ASSUME TypeOK, [Next]_vars
             PROVE  WireType'
  OBVIOUS
<1>0. ThreadType /\ WireType
  BY TypeParts
<1> USE <1>0, RequestReplyAssumption DEF WireType
<1>1. CASE UNCHANGED <<wireVars, overlooked>>
  BY <1>1 DEF wireVars
<1>2. ASSUME NEW r \in Requests, Requesting(r)
      PROVE  WireType'
  <2>1. CASE SignalRequest(r)
    <3>1. [id |-> r, depth |-> 0] \in Questions
      <4>1. 0 \in 0 .. MaxDepth
        OBVIOUS
      <4>2. QED
        BY <4>1, MessageFacts
    <3>2. \A p \in Repliers : Append(toReplier[p], [id |-> r, depth |-> 0]) \in Seq(Questions)
      BY <3>1, AppendFacts
    <3>3. QED
      BY <2>1, <3>2 DEF SignalRequest
  <2>2. CASE SignalThrows(r) \/ RegisterRequest(r)
    BY <1>1, <2>2 DEF SignalThrows, RegisterRequest
  <2>3. QED
    BY <1>2, <2>1, <2>2 DEF Requesting
<1>3. ASSUME NEW p \in Repliers, Replying(p)
      PROVE  WireType'
  <2>1. CASE OnRequest(p) \/ IgnoreRequest(p)
    <3>1. Head(toReplier[p]) \in Questions /\ Tail(toReplier[p]) \in Seq(Questions)
      BY <2>1, TailFacts DEF OnRequest, IgnoreRequest
    <3>2. CASE OnRequest(p)      BY <3>1, <3>2 DEF OnRequest
    <3>3. CASE IgnoreRequest(p)  BY <3>1, <3>3 DEF IgnoreRequest
    <3>4. QED
      BY <2>1, <3>2, <3>3
  <2>2. ASSUME NEW m \in asked[p], Respond(p, m)
        PROVE  WireType'
    <3>1. m.id \in Requests /\ m.depth + 1 \in 0 .. MaxDepth
      <4>1. m \in Questions /\ m.depth < MaxDepth
        BY <2>2 DEF Respond
      <4>2. m.id \in Requests /\ m.depth \in 0 .. MaxDepth
        BY <4>1, MessageFacts
      <4>3. QED
        BY <4>1, <4>2
    <3> DEFINE q == [id |-> m.id, depth |-> m.depth + 1]
               a == [id |-> m.id, kind |-> "reply", depth |-> m.depth + 1]
    <3>2. q \in Questions /\ a \in Messages
      BY <3>1, MessageFacts
    <3>3. /\ asked' = [asked EXCEPT ![p] = @ \ {m}]
          /\ toRequestor' = Append(toRequestor, a)
          /\ toReplier' = [o \in Repliers |-> IF o = p THEN toReplier[o] ELSE Append(toReplier[o], q)]
          /\ progress' = progress /\ overlooked' = overlooked
      BY <2>2 DEF Respond
    <3> HIDE DEF q, a
    <3>4. \A o \in Repliers : Append(toReplier[o], q) \in Seq(Questions)
      BY <3>2, AppendFacts
    <3>5. toRequestor' \in Seq(Messages)
      BY <3>2, <3>3, AppendFacts
    <3>6. QED
      BY <3>3, <3>4, <3>5
  <2>3. ASSUME NEW m \in asked[p], SignalProgress(p, m)
        PROVE  WireType'
    <3> DEFINE a == [id |-> m.id, kind |-> "progress", depth |-> m.depth]
    <3>1. a \in Messages
      BY MessageFacts
    <3>2. /\ progress[m.id] < MaxProgress /\ progress' = [progress EXCEPT ![m.id] = @ + 1]
          /\ toRequestor' = Append(toRequestor, a)
          /\ toReplier' = toReplier /\ asked' = asked /\ overlooked' = overlooked
      BY <2>3 DEF SignalProgress
    <3> HIDE DEF a
    <3>3. toRequestor' \in Seq(Messages)
      BY <3>1, <3>2, AppendFacts
    <3>4. progress' \in [Requests -> 0 .. MaxProgress]
      BY <3>2, MessageFacts
    <3>5. QED
      BY <3>2, <3>3, <3>4
  <2>4. QED
    BY <1>3, <2>1, <2>2, <2>3 DEF Replying
<1>9. ASSUME NEW r \in Requests, OtherClientDeletes(r)
      PROVE  WireType'
  <2> DEFINE a == [id |-> r, kind |-> "blank", depth |-> 0]
  <2>1. a \in Messages
    <3>1. 0 \in 0 .. MaxDepth
      OBVIOUS
    <3>2. QED
      BY <3>1, MessageFacts
  <2>2. /\ progress[r] < MaxProgress /\ progress' = [progress EXCEPT ![r] = @ + 1]
        /\ toRequestor' = Append(toRequestor, a)
        /\ toReplier' = toReplier /\ asked' = asked /\ overlooked' = overlooked
    BY <1>9 DEF OtherClientDeletes
  <2> HIDE DEF a
  <2>3. toRequestor' \in Seq(Messages)
    BY <2>1, <2>2, AppendFacts
  <2>4. progress' \in [Requests -> 0 .. MaxProgress]
    BY <2>2
  <2>5. QED
    BY <2>2, <2>3, <2>4
<1>4. CASE Dispatch \/ LoseSignal
  <2>1. Head(toRequestor) \in Messages /\ Tail(toRequestor) \in Seq(Messages)
    BY <1>4, TailFacts DEF Dispatch, LoseSignal
  <2>2. Missed(Head(toRequestor)) \subseteq Requests
    BY <2>1, ReplyFacts
  <2>3. QED
    BY <1>4, <2>1, <2>2 DEF Dispatch, LoseSignal
<1>5. CASE OnReply
  <2>1. Missed(msg[1]) \subseteq Requests
    BY <1>5, Dispatched, ReplyFacts DEF OnReply
  <2>2. QED
    BY <1>5, <2>1 DEF OnReply, wireVars
<1>6. CASE OnProgress \/ ProgressReturns \/ Tick \/ CheckShutdown \/ ScanTimeouts
  BY <1>1, <1>6 DEF OnProgress, ProgressReturns, Tick, CheckShutdown, ScanTimeouts
<1>7. CASE DestroyBegin \/ RemoveReplyListener \/ RemoveProgressListener \/ UNCHANGED vars
  BY <1>1, <1>7 DEF DestroyBegin, RemoveReplyListener, RemoveProgressListener, vars
<1>8. QED
  BY <1>2, <1>3, <1>4, <1>5, <1>6, <1>7, <1>9 DEF Next

LEMMA TypeStep == TypeOK /\ [Next]_vars => TypeOK'
<1> SUFFICES ASSUME TypeOK, [Next]_vars
             PROVE  TypeOK'
  OBVIOUS
<1>1. TableType' /\ ThreadType' /\ WireType'
  BY TableTypeStep, ThreadTypeStep, WireTypeStep
<1>2. QED
  BY <1>1 DEF TypeOK, TableType, ThreadType, WireType

-------------------------------------------------------------------------------
(***************************************************************************)
(* The table and destroy().                                                *)
(***************************************************************************)

LEMMA JoinStep == JoinedBeforeRemoval /\ [Next]_vars => JoinedBeforeRemoval'
<1> SUFFICES ASSUME JoinedBeforeRemoval, [Next]_vars
             PROVE  JoinedBeforeRemoval'
  OBVIOUS
<1> USE DEF JoinedBeforeRemoval
<1>1. CASE UNCHANGED <<tmo, life>>
  BY <1>1
<1>2. CASE \E r \in Requests : Requesting(r) \/ OtherClientDeletes(r)
  BY <1>1, <1>2 DEF Requesting, SignalRequest, SignalThrows, RegisterRequest, OtherClientDeletes,
                    threadVars
<1>3. CASE \E p \in Repliers : Replying(p)
  BY <1>1, <1>3 DEF Replying, OnRequest, IgnoreRequest, Respond, SignalProgress, threadVars
<1>4. CASE Dispatch \/ OnReply \/ OnProgress \/ ProgressReturns \/ LoseSignal \/ Tick
  BY <1>1, <1>4 DEF Dispatch, OnReply, OnProgress, ProgressReturns, LoseSignal, Tick, threadVars
<1>5. CASE CheckShutdown \/ ScanTimeouts
  BY <1>5 DEF CheckShutdown, ScanTimeouts
<1>6. CASE DestroyBegin \/ RemoveReplyListener \/ RemoveProgressListener
  BY <1>6 DEF DestroyBegin, RemoveReplyListener, RemoveProgressListener
<1>7. CASE UNCHANGED vars
  BY <1>1, <1>7 DEF vars, threadVars
<1>8. QED
  BY <1>2, <1>3, <1>4, <1>5, <1>6, <1>7 DEF Next

LEMMA EntryStep == TypeOK /\ TableInv /\ [Next]_vars => TableInv'
<1> SUFFICES ASSUME TypeOK, TableInv, [Next]_vars
             PROVE  TableInv'
  OBVIOUS
<1>0. TableType /\ ThreadType
  BY TypeParts
<1> USE <1>0 DEF TableInv, FreshRequests, EntryMatchesPromise, TableType
<1>1. CASE UNCHANGED <<call, entry, told>>
  BY <1>1
<1>2. ASSUME NEW r \in Requests, Requesting(r)
      PROVE  TableInv'
  <2>1. CASE SignalRequest(r)    BY <2>1 DEF SignalRequest
  <2>2. CASE SignalThrows(r)     BY <2>2 DEF SignalThrows
  <2>3. CASE RegisterRequest(r)  BY <2>3 DEF RegisterRequest
  <2>4. QED
    BY <1>2, <2>1, <2>2, <2>3 DEF Requesting
<1>3. CASE \/ \E p \in Repliers : Replying(p)
           \/ \E r \in Requests : OtherClientDeletes(r)
  BY <1>1, <1>3 DEF Replying, OnRequest, IgnoreRequest, Respond, SignalProgress,
                    OtherClientDeletes, requestVars
<1>4. CASE Dispatch \/ OnProgress \/ ProgressReturns \/ LoseSignal \/ Tick \/ CheckShutdown
  BY <1>1, <1>4 DEF Dispatch, OnProgress, ProgressReturns, LoseSignal, Tick, CheckShutdown,
                    requestVars
<1>5. CASE OnReply
  <2>1. msg[1].id \in Requests
    BY <1>5, Dispatched, MessageFacts DEF OnReply
  <2>2. CASE entry[msg[1].id]
    <3>1. PICK t \in {"reply", "echo", "broken"} : told' = [told EXCEPT ![msg[1].id] = t]
      BY <1>5, <2>2, Dispatched, ReplyFacts DEF OnReply
    <3>2. entry' = [entry EXCEPT ![msg[1].id] = FALSE] /\ call' = call
      BY <1>5, <2>2 DEF OnReply
    <3>3. QED
      BY <2>1, <2>2, <3>1, <3>2
  <2>3. CASE ~entry[msg[1].id]
    BY <1>1, <1>5, <2>3 DEF OnReply
  <2>4. QED
    BY <2>2, <2>3
<1>6. CASE ScanTimeouts
  <2>1. Expired \subseteq {r \in Requests : entry[r]}
    BY DEF Expired
  <2>2. QED
    BY <1>6, <2>1 DEF ScanTimeouts
<1>7. CASE DestroyBegin \/ RemoveReplyListener \/ RemoveProgressListener \/ UNCHANGED vars
  BY <1>1, <1>7 DEF DestroyBegin, RemoveReplyListener, RemoveProgressListener, vars, requestVars
<1>8. QED
  BY <1>2, <1>3, <1>4, <1>5, <1>6, <1>7 DEF Next

(***************************************************************************)
(* The inductive invariant of the table and the threads.                   *)
(***************************************************************************)
THEOREM RRInvHolds == SafeSpec => []RRInv
<1>1. Init => RRInv
  BY RequestReplyAssumption
     DEF Init, RRInv, TypeOK, Messages, Questions, JoinedBeforeRemoval, TableInv,
         FreshRequests, EntryMatchesPromise
<1>2. RRInv /\ [Next]_vars => RRInv'
  BY TypeStep, JoinStep, EntryStep DEF RRInv
<1>3. QED
  BY <1>1, <1>2, PTL DEF SafeSpec

(***************************************************************************)
(* Every variable keeps its type.                                          *)
(***************************************************************************)
THEOREM TypeCorrect == SafeSpec => []TypeOK
<1>1. RRInv => TypeOK
  BY DEF RRInv
<1>2. QED
  BY <1>1, RRInvHolds, PTL

(***************************************************************************)
(* A registered request has its entry until it is told something, and      *)
(* never again afterwards.                                                 *)
(***************************************************************************)
THEOREM NoRequestForgotten == SafeSpec => []EntryMatchesPromise
<1>1. RRInv => EntryMatchesPromise
  BY DEF RRInv, TableInv
<1>2. QED
  BY <1>1, RRInvHolds, PTL

(***************************************************************************)
(* Only replies and the timeout scan tell, and only those with an entry.   *)
(***************************************************************************)
LEMMA ToldStep ==
  RRInv /\ [Next]_vars => \A r \in Requests : told[r] # "none" => told'[r] = told[r]
<1> SUFFICES ASSUME RRInv, [Next]_vars, NEW r \in Requests, told[r] # "none"
             PROVE  told'[r] = told[r]
  OBVIOUS
<1>0. TableType /\ ThreadType /\ ~entry[r]
  BY TypeParts DEF RRInv, TableInv, EntryMatchesPromise
<1>1. CASE OnReply
  BY <1>0, <1>1 DEF OnReply, TableType
<1>2. CASE ScanTimeouts
  BY <1>0, <1>2 DEF ScanTimeouts, Expired
<1>3. CASE \E q \in Requests : Requesting(q) \/ OtherClientDeletes(q)
  BY <1>3 DEF Requesting, SignalRequest, SignalThrows, RegisterRequest, OtherClientDeletes,
              requestVars
<1>4. CASE \E p \in Repliers : Replying(p)
  BY <1>4 DEF Replying, OnRequest, IgnoreRequest, Respond, SignalProgress, requestVars
<1>5. CASE Dispatch \/ OnProgress \/ ProgressReturns \/ LoseSignal \/ Tick \/ CheckShutdown
  BY <1>5 DEF Dispatch, OnProgress, ProgressReturns, LoseSignal, Tick, CheckShutdown, requestVars
<1>6. CASE DestroyBegin \/ RemoveReplyListener \/ RemoveProgressListener \/ UNCHANGED vars
  BY <1>6 DEF DestroyBegin, RemoveReplyListener, RemoveProgressListener, vars, requestVars
<1>7. QED
  BY <1>1, <1>2, <1>3, <1>4, <1>5, <1>6 DEF Next

(***************************************************************************)
(* A future is given one result.                                           *)
(***************************************************************************)
THEOREM RequestToldOnce == SafeSpec => ToldOnce
<1>1. RRInv /\ [Next]_vars => [\A r \in Requests : told[r] # "none" => told'[r] = told[r]]_vars
  BY ToldStep
<1>2. QED
  BY <1>1, RRInvHolds, PTL DEF SafeSpec, ToldOnce

(***************************************************************************)
(* After destroy() the table is left alone: the timeout thread was joined, *)
(* and with both listeners gone nothing is dispatched.                     *)
(***************************************************************************)
THEOREM DestroyedIsQuiet == SafeSpec => QuietAfterDestroy
<1> DEFINE Quiet == life = "destroyed" /\ io = "run" => told' = told /\ io' = "run" /\ tmo' = tmo
<1>1. RRInv /\ [Next]_vars => [Quiet]_vars
  <2> SUFFICES ASSUME RRInv, Next, life = "destroyed", io = "run"
               PROVE  told' = told /\ io' = "run" /\ tmo' = tmo
    OBVIOUS
  <2>0. tmo = "exit"
    BY DEF RRInv, JoinedBeforeRemoval
  <2>1. CASE \E r \in Requests : Requesting(r) \/ OtherClientDeletes(r)
    BY <2>1 DEF Requesting, SignalRequest, SignalThrows, RegisterRequest, OtherClientDeletes,
                requestVars, threadVars
  <2>2. CASE \E p \in Repliers : Replying(p)
    BY <2>2 DEF Replying, OnRequest, IgnoreRequest, Respond, SignalProgress, requestVars, threadVars
  <2>3. CASE Dispatch
    BY <2>3 DEF Dispatch, Listening, requestVars
  <2>4. CASE LoseSignal \/ Tick
    BY <2>4 DEF LoseSignal, Tick, requestVars, threadVars
  <2>5. CASE OnReply \/ OnProgress \/ ProgressReturns \/ CheckShutdown \/ ScanTimeouts
    BY <2>0, <2>5 DEF OnReply, OnProgress, ProgressReturns, CheckShutdown, ScanTimeouts
  <2>6. CASE DestroyBegin \/ RemoveReplyListener \/ RemoveProgressListener
    BY <2>6 DEF DestroyBegin, RemoveReplyListener, RemoveProgressListener
  <2>7. QED
    BY <2>1, <2>2, <2>3, <2>4, <2>5, <2>6 DEF Next
<1>2. QED
  BY <1>1, RRInvHolds, PTL DEF SafeSpec, QuietAfterDestroy

-------------------------------------------------------------------------------
(***************************************************************************)
(* Echoes.  Wherever a reply to a reply is, the direct reply it answers is *)
(* ahead of it on the way to the requestor, or has been dealt with.        *)
(***************************************************************************)

Direct(m, r) == m.kind = "reply" /\ m.depth = 1 /\ m.id = r
Echo(m, r) == m.kind = "reply" /\ m.depth > 1 /\ m.id = r

\* The direct reply to r has told the request, or was overlooked.
Settled(r) == told[r] # "none" \/ r \in overlooked

\* It never will be looked at: the reply listener was removed.
Gone == life \in {"no_reply", "destroyed"}

Dispatching(r) == io = "dispatch" /\ Direct(msg[1], r)

Dealt(r) == Settled(r) \/ Gone \/ Dispatching(r)

UnderWay(r) == \E i \in 1 .. Len(toRequestor) : Direct(toRequestor[i], r)

\* Replies have a depth.
RepliesHaveDepth ==
  /\ \A i \in 1 .. Len(toRequestor) : toRequestor[i].kind = "reply" => toRequestor[i].depth > 0
  /\ io = "dispatch" /\ msg[1].kind = "reply" => msg[1].depth > 0

\* Replier p has, or is sent, a reply to r.
Heard(p, r) ==
  \/ \E m \in asked[p] : m.id = r /\ m.depth > 0
  \/ \E i \in 1 .. Len(toReplier[p]) : toReplier[p][i].id = r /\ toReplier[p][i].depth > 0

\* That takes the direct reply, which was signalled before.
HeardAfterDirect ==
  \A p \in Repliers, r \in Requests : Heard(p, r) => Dealt(r) \/ UnderWay(r)

\* An echo travels behind the direct reply.
EchoBehindDirect ==
  \A r \in Requests, i \in 1 .. Len(toRequestor) :
    Echo(toRequestor[i], r) => Dealt(r) \/ \E j \in 1 .. i - 1 : Direct(toRequestor[j], r)

\* When it arrives the direct one is settled.
EchoDispatchedLast ==
  \A r \in Requests : io = "dispatch" /\ Echo(msg[1], r) => Settled(r)

EchoInv ==
  /\ RepliesHaveDepth
  /\ HeardAfterDirect
  /\ EchoBehindDirect
  /\ EchoDispatchedLast
  /\ EchoOnlyIfOverlooked

(***************************************************************************)
(* What is dealt with stays so.                                            *)
(***************************************************************************)
LEMMA OverlookedGrows == [Next]_vars => overlooked \subseteq overlooked' /\ (Gone => Gone')
<1> SUFFICES ASSUME [Next]_vars
             PROVE  overlooked \subseteq overlooked' /\ (Gone => Gone')
  OBVIOUS
<1> USE DEF Gone
<1>1. CASE \E r \in Requests : Requesting(r) \/ OtherClientDeletes(r)
  BY <1>1 DEF Requesting, SignalRequest, SignalThrows, RegisterRequest, OtherClientDeletes,
              threadVars
<1>2. CASE \E p \in Repliers : Replying(p)
  BY <1>2 DEF Replying, OnRequest, IgnoreRequest, Respond, SignalProgress, threadVars
<1>3. CASE Dispatch \/ OnReply \/ OnProgress \/ ProgressReturns \/ LoseSignal
  BY <1>3 DEF Dispatch, OnReply, OnProgress, ProgressReturns, LoseSignal, threadVars
<1>4. CASE Tick \/ CheckShutdown \/ ScanTimeouts \/ UNCHANGED vars
  BY <1>4 DEF Tick, CheckShutdown, ScanTimeouts, threadVars, vars
<1>5. CASE DestroyBegin \/ RemoveReplyListener \/ RemoveProgressListener
  BY <1>5 DEF DestroyBegin, RemoveReplyListener, RemoveProgressListener
<1>6. QED
  BY <1>1, <1>2, <1>3, <1>4, <1>5 DEF Next

LEMMA SettledStays ==
  RRInv /\ [Next]_vars =>
    /\ \A r \in Requests : Settled(r) => Settled(r)'
    /\ Gone => Gone'
BY ToldStep, OverlookedGrows DEF Settled

(***************************************************************************)
(* The steps that leave the wires and the dispatched message alone.        *)
(***************************************************************************)
LEMMA QuietSteps ==
  /\ RRInv /\ EchoInv /\ [Next]_vars
  /\ UNCHANGED <<toRequestor, toReplier, asked, msg>>
  /\ io' = "dispatch" <=> io = "dispatch"
  => RepliesHaveDepth' /\ HeardAfterDirect' /\ EchoBehindDirect' /\ EchoDispatchedLast'
<1> SUFFICES ASSUME RRInv, EchoInv, [Next]_vars,
                    UNCHANGED <<toRequestor, toReplier, asked, msg>>,
                    io' = "dispatch" <=> io = "dispatch"
             PROVE  RepliesHaveDepth' /\ HeardAfterDirect' /\ EchoBehindDirect' /\ EchoDispatchedLast'
  OBVIOUS
<1>0. TypeOK /\ ThreadType /\ WireType
  BY TypeParts DEF RRInv
<1>1. \A r \in Requests : (Settled(r) => Settled(r)') /\ (Dealt(r) => Dealt(r)') /\ UnderWay(r)' = UnderWay(r)
  BY SettledStays DEF Dealt, Dispatching, UnderWay
<1>2. RepliesHaveDepth'
  BY DEF EchoInv, RepliesHaveDepth
<1>3. HeardAfterDirect'
  BY <1>1 DEF EchoInv, HeardAfterDirect, Heard
<1>4. EchoBehindDirect'
  BY <1>1 DEF EchoInv, EchoBehindDirect
<1>5. EchoDispatchedLast'
  BY <1>1 DEF EchoInv, EchoDispatchedLast
<1>6. QED
  BY <1>2, <1>3, <1>4, <1>5

(***************************************************************************)
(* Only OnReply tells an echo, and by then the direct reply, which was     *)
(* ahead of it, was overlooked: had it told the request, there would be no *)
(* entry left.                                                             *)
(***************************************************************************)
LEMMA EchoToldStep == RRInv /\ EchoInv /\ [Next]_vars => EchoOnlyIfOverlooked'
<1> SUFFICES ASSUME RRInv, EchoInv, [Next]_vars, NEW r \in Requests, told'[r] = "echo"
             PROVE  r \in overlooked'
  BY DEF EchoOnlyIfOverlooked
<1>0. TypeOK /\ TableType /\ ThreadType /\ TableInv
  BY TypeParts DEF RRInv
<1>1. CASE told[r] = "echo"
  BY <1>1, OverlookedGrows DEF EchoInv, EchoOnlyIfOverlooked
<1>2. CASE told[r] # "echo" /\ OnReply
  <2>1. r = msg[1].id /\ entry[r] /\ msg[1].depth # 1 /\ msg[1].kind = "reply" /\ io = "dispatch"
    <3>1. io = "dispatch" /\ msg[1] \in Messages /\ msg[1].kind # "progress"
      BY <1>0, <1>2, Dispatched DEF OnReply
    <3>2. r = msg[1].id /\ entry[r] /\ ReplyResult(msg[1]) = "echo"
      BY <1>0, <1>2 DEF OnReply, TableType
    <3>3. QED
      BY <3>1, <3>2 DEF ReplyResult, Messages
  <2>2. msg[1].depth \in Nat
    BY <1>0, <2>1, Dispatched, RequestReplyAssumption DEF Messages
  <2>3. Echo(msg[1], r)
    BY <2>1, <2>2 DEF EchoInv, RepliesHaveDepth, Echo
  <2>4. r \in overlooked
    BY <1>0, <2>1, <2>3 DEF EchoInv, EchoDispatchedLast, Settled, TableInv, EntryMatchesPromise
  <2>5. QED
    BY <2>4, OverlookedGrows
<1>3. CASE told[r] # "echo" /\ ~OnReply
  <2>1. ~ScanTimeouts
    BY <1>3 DEF ScanTimeouts
  <2>2. told' # told
    BY <1>3
  <2>3. \A q \in Requests : ~Requesting(q) /\ ~OtherClientDeletes(q)
    BY <2>2 DEF Requesting, SignalRequest, SignalThrows, RegisterRequest, OtherClientDeletes,
                requestVars
  <2>4. \A p \in Repliers : ~Replying(p)
    BY <2>2 DEF Replying, OnRequest, IgnoreRequest, Respond, SignalProgress, requestVars
  <2>5. ~Dispatch /\ ~OnProgress /\ ~ProgressReturns /\ ~LoseSignal /\ ~Tick /\ ~CheckShutdown
    BY <2>2 DEF Dispatch, OnProgress, ProgressReturns, LoseSignal, Tick, CheckShutdown, requestVars
  <2>6. ~DestroyBegin /\ ~RemoveReplyListener /\ ~RemoveProgressListener /\ ~UNCHANGED vars
    BY <2>2 DEF DestroyBegin, RemoveReplyListener, RemoveProgressListener, vars, requestVars
  <2>7. QED
    BY <1>3, <2>1, <2>3, <2>4, <2>5, <2>6 DEF Next
<1>4. QED
  BY <1>1, <1>2, <1>3

(***************************************************************************)
(* The first message leaves the queue: if it was the direct reply to r, it *)
(* must be dealt with by the same step.                                    *)
(***************************************************************************)
LEMMA HeadStep ==
  /\ RRInv /\ EchoInv /\ [Next]_vars
  /\ toRequestor # << >> /\ toRequestor' = Tail(toRequestor)
  /\ UNCHANGED <<toReplier, asked>>
  /\ \A r \in Requests : Dealt(r) \/ Direct(toRequestor[1], r) => Dealt(r)'
  => HeardAfterDirect' /\ EchoBehindDirect'
<1> SUFFICES ASSUME RRInv, EchoInv, [Next]_vars, toRequestor # << >>,
                    toRequestor' = Tail(toRequestor), UNCHANGED <<toReplier, asked>>,
                    \A r \in Requests : Dealt(r) \/ Direct(toRequestor[1], r) => Dealt(r)'
             PROVE  HeardAfterDirect' /\ EchoBehindDirect'
  OBVIOUS
<1>0. TypeOK /\ WireType
  BY TypeParts DEF RRInv
<1>1. /\ Len(toRequestor) \in Nat \ {0} /\ Len(toRequestor') = Len(toRequestor) - 1
      /\ \A i \in 1 .. Len(toRequestor') : toRequestor'[i] = toRequestor[i + 1]
  BY <1>0, TailFacts DEF WireType
<1>2. \A r \in Requests : Dealt(r) => Dealt(r)'
  OBVIOUS
<1>3. ASSUME NEW r \in Requests, NEW i \in 1 .. Len(toRequestor), Direct(toRequestor[i], r)
      PROVE  Dealt(r)' \/ (i - 1 \in 1 .. Len(toRequestor') /\ Direct(toRequestor'[i - 1], r))
  <2>1. CASE i = 1
    BY <1>3, <2>1
  <2>2. CASE i # 1
    <3>1. i - 1 \in 1 .. Len(toRequestor') /\ toRequestor'[i - 1] = toRequestor[(i - 1) + 1]
      BY <1>1, <2>2
    <3>2. QED
      BY <1>3, <3>1
  <2>3. QED
    BY <2>1, <2>2
<1>4. \A r \in Requests : Dealt(r) \/ UnderWay(r) => Dealt(r)' \/ UnderWay(r)'
  BY <1>2, <1>3 DEF UnderWay
<1>5. HeardAfterDirect'
  BY <1>4 DEF EchoInv, HeardAfterDirect, Heard
<1>6. EchoBehindDirect'
  <2> SUFFICES ASSUME NEW r \in Requests, NEW i \in 1 .. Len(toRequestor'),
                      Echo(toRequestor'[i], r), ~Dealt(r)'
               PROVE  \E j \in 1 .. i - 1 : Direct(toRequestor'[j], r)
    BY DEF EchoBehindDirect
  <2>1. i + 1 \in 1 .. Len(toRequestor) /\ toRequestor'[i] = toRequestor[i + 1]
    BY <1>1
  <2>3. PICK j \in 1 .. i : Direct(toRequestor[j], r)
    <3>1. ~Dealt(r)
      BY <1>2
    <3>2. \E j \in 1 .. (i + 1) - 1 : Direct(toRequestor[j], r)
      BY <2>1, <3>1 DEF EchoInv, EchoBehindDirect
    <3>3. (i + 1) - 1 = i
      BY <1>1
    <3>4. QED
      BY <3>2, <3>3
  <2>4. j \in 1 .. Len(toRequestor)
    BY <2>1
  <2>5. j - 1 \in 1 .. Len(toRequestor') /\ Direct(toRequestor'[j - 1], r)
    BY <1>3, <2>3, <2>4
  <2>6. j - 1 \in 1 .. i - 1
    BY <2>3, <2>5
  <2>7. QED
    BY <2>5, <2>6
<1>7. QED
  BY <1>5, <1>6

(***************************************************************************)
(* A message is appended: a direct reply, which is then under way, or a    *)
(* reply to one that is dealt with or under way, or progress.              *)
(***************************************************************************)
LEMMA AppendStep ==
  ASSUME RRInv, EchoInv, [Next]_vars, UNCHANGED <<io, msg, told, overlooked, life>>,
         NEW a \in Messages, toRequestor' = Append(toRequestor, a),
         a.kind = "reply" => a.depth > 0,
         \A r \in Requests : Echo(a, r) => Dealt(r) \/ UnderWay(r)
  PROVE  /\ RepliesHaveDepth' /\ EchoBehindDirect' /\ EchoDispatchedLast'
         /\ \A r \in Requests : /\ Dealt(r)' = Dealt(r)
                                /\ UnderWay(r) \/ Direct(a, r) => UnderWay(r)'
<1>0. TypeOK /\ ThreadType /\ WireType
  BY TypeParts DEF RRInv
<1> DEFINE n == Len(toRequestor)
<1>1. /\ n \in Nat /\ Len(toRequestor') = n + 1 /\ toRequestor'[n + 1] = a
      /\ \A i \in 1 .. n : toRequestor'[i] = toRequestor[i]
  BY <1>0, AppendFacts DEF WireType
<1> HIDE DEF n
<1>2. \A r : Dealt(r)' = Dealt(r) /\ Settled(r)' = Settled(r)
  BY DEF Dealt, Settled, Gone, Dispatching
<1>3. \A r \in Requests : UnderWay(r) \/ Direct(a, r) => UnderWay(r)'
  BY <1>1 DEF UnderWay, n
<1>4. RepliesHaveDepth'
  BY <1>1 DEF EchoInv, RepliesHaveDepth, n
<1>5. EchoDispatchedLast'
  BY <1>2 DEF EchoInv, EchoDispatchedLast
<1>6. EchoBehindDirect'
  <2> SUFFICES ASSUME NEW r \in Requests, NEW i \in 1 .. Len(toRequestor'),
                      Echo(toRequestor'[i], r), ~Dealt(r)'
               PROVE  \E j \in 1 .. i - 1 : Direct(toRequestor'[j], r)
    BY DEF EchoBehindDirect
  <2>1. CASE i \in 1 .. n
    <3>1. toRequestor'[i] = toRequestor[i] /\ ~Dealt(r)
      BY <1>1, <1>2, <2>1
    <3>2. PICK j \in 1 .. i - 1 : Direct(toRequestor[j], r)
      BY <2>1, <3>1 DEF EchoInv, EchoBehindDirect, n
    <3>3. j \in 1 .. n
      BY <1>1, <2>1, <3>2
    <3>4. QED
      BY <1>1, <3>1, <3>2, <3>3
  <2>2. CASE i = n + 1
    <3>1. toRequestor'[i] = a
      BY <1>1, <2>2
    <3>2. UnderWay(r)
      BY <1>2, <3>1
    <3>3. PICK j \in 1 .. n : Direct(toRequestor[j], r)
      BY <3>2 DEF UnderWay, n
    <3>4. j \in 1 .. i - 1 /\ toRequestor'[j] = toRequestor[j]
      BY <1>1, <2>2, <3>3
    <3>5. QED
      BY <3>1, <3>3, <3>4
  <2>3. QED
    BY <1>1, <2>1, <2>2
<1>7. QED
  BY <1>2, <1>3, <1>4, <1>5, <1>6

(***************************************************************************)
(* Every step keeps the order.                                             *)
(***************************************************************************)
LEMMA EchoStep == RRInv /\ EchoInv /\ [Next]_vars => EchoInv'
<1> DEFINE Goal == RepliesHaveDepth' /\ HeardAfterDirect' /\ EchoBehindDirect' /\ EchoDispatchedLast'
<1> SUFFICES ASSUME RRInv, EchoInv, [Next]_vars
             PROVE  Goal
  BY EchoToldStep DEF EchoInv
<1>0. TypeOK /\ TableType /\ ThreadType /\ WireType /\ TableInv
  BY TypeParts DEF RRInv
<1>1. \A r \in Requests : Settled(r) => Settled(r)'
  BY SettledStays
<1>2. ASSUME NEW r \in Requests, Requesting(r)
      PROVE  Goal
  <2>1. CASE SignalThrows(r) \/ RegisterRequest(r)
    BY <2>1, QuietSteps DEF SignalThrows, RegisterRequest, wireVars, threadVars
  <2>2. CASE SignalRequest(r)
    <3> DEFINE q == [id |-> r, depth |-> 0]
    <3>1. /\ UNCHANGED <<toRequestor, asked, msg, io, told, overlooked, life>>
          /\ toReplier' = [p \in Repliers |-> Append(toReplier[p], q)]
      BY <2>2 DEF SignalRequest, threadVars
    <3>2. q \in Questions /\ q.depth = 0
      BY MessageFacts, RequestReplyAssumption DEF Questions
    <3> HIDE DEF q
    <3>3. \A j \in Requests : Dealt(j)' = Dealt(j) /\ UnderWay(j)' = UnderWay(j) /\ Settled(j)' = Settled(j)
      BY <3>1 DEF Dealt, Settled, Gone, Dispatching, UnderWay
    <3>4. ASSUME NEW p \in Repliers, NEW j \in Requests, Heard(p, j)'
          PROVE  Heard(p, j)
      <4>1. /\ Len(toReplier[p]) \in Nat /\ Len(toReplier'[p]) = Len(toReplier[p]) + 1
            /\ toReplier'[p][Len(toReplier[p]) + 1] = q
            /\ \A k \in 1 .. Len(toReplier[p]) : toReplier'[p][k] = toReplier[p][k]
        BY <1>0, <3>1, <3>2, AppendFacts DEF WireType
      <4>2. QED
        BY <3>1, <3>2, <3>4, <4>1 DEF Heard
    <3>5. HeardAfterDirect'
      BY <3>3, <3>4 DEF EchoInv, HeardAfterDirect
    <3>6. QED
      BY <3>1, <3>3, <3>5 DEF EchoInv, RepliesHaveDepth, EchoBehindDirect, EchoDispatchedLast
  <2>3. QED
    BY <1>2, <2>1, <2>2 DEF Requesting
<1>3. ASSUME NEW p \in Repliers, Replying(p)
      PROVE  Goal
  <2>1. CASE OnRequest(p) \/ IgnoreRequest(p)
    <3>1. UNCHANGED <<toRequestor, msg, io, told, overlooked, life>>
      BY <2>1 DEF OnRequest, IgnoreRequest, requestVars, threadVars
    <3>2. \A j \in Requests : Dealt(j)' = Dealt(j) /\ UnderWay(j)' = UnderWay(j) /\ Settled(j)' = Settled(j)
      BY <3>1 DEF Dealt, Settled, Gone, Dispatching, UnderWay
    <3>3. /\ toReplier[p] \in Seq(Questions) /\ toReplier[p] # << >>
          /\ toReplier' = [toReplier EXCEPT ![p] = Tail(toReplier[p])]
          /\ \/ asked' = [asked EXCEPT ![p] = asked[p] \cup {Head(toReplier[p])}]
             \/ asked' = asked
      BY <1>0, <2>1 DEF OnRequest, IgnoreRequest, WireType
    <3>4. ASSUME NEW o \in Repliers, NEW j \in Requests, Heard(o, j)'
          PROVE  Heard(o, j)
      <4>1. CASE o # p
        <5>1. asked'[o] = asked[o] /\ toReplier'[o] = toReplier[o]
          BY <1>0, <3>3, <4>1 DEF WireType
        <5>2. QED
          BY <3>4, <5>1 DEF Heard
      <4>2. CASE o = p
        <5>1. /\ toReplier'[p] = Tail(toReplier[p])
              /\ asked'[p] \subseteq asked[p] \cup {toReplier[p][1]}
              /\ Len(toReplier[p]) \in Nat \ {0} /\ Len(toReplier'[p]) = Len(toReplier[p]) - 1
              /\ \A i \in 1 .. Len(toReplier'[p]) : toReplier'[p][i] = toReplier[p][i + 1]
          BY <1>0, <3>3, TailFacts DEF WireType
        <5>2. 1 \in 1 .. Len(toReplier[p])
          BY <5>1
        <5>3. \A i \in 1 .. Len(toReplier'[p]) : i + 1 \in 1 .. Len(toReplier[p])
          BY <5>1
        <5>4. QED
          BY <3>4, <4>2, <5>1, <5>2, <5>3 DEF Heard
      <4>3. QED
        BY <4>1, <4>2
    <3>5. HeardAfterDirect'
      BY <3>2, <3>4 DEF EchoInv, HeardAfterDirect
    <3>6. QED
      BY <3>1, <3>2, <3>5 DEF EchoInv, RepliesHaveDepth, EchoBehindDirect, EchoDispatchedLast
  <2>2. ASSUME NEW m \in asked[p], SignalProgress(p, m)
        PROVE  Goal
    <3> DEFINE a == [id |-> m.id, kind |-> "progress", depth |-> m.depth]
    <3>1. a \in Messages /\ a.kind = "progress"
      BY <1>0, MessageFacts DEF WireType
    <3>2. /\ toRequestor' = Append(toRequestor, a)
          /\ UNCHANGED <<io, msg, told, overlooked, life, toReplier, asked>>
      BY <2>2 DEF SignalProgress, requestVars, threadVars
    <3> HIDE DEF a
    <3>3. \A r \in Requests : ~Echo(a, r)
      BY <3>1 DEF Echo
    <3>4. /\ RepliesHaveDepth' /\ EchoBehindDirect' /\ EchoDispatchedLast'
          /\ \A r \in Requests : Dealt(r)' = Dealt(r) /\ (UnderWay(r) => UnderWay(r)')
      BY <3>1, <3>2, <3>3, AppendStep
    <3>5. HeardAfterDirect'
      BY <3>2, <3>4 DEF EchoInv, HeardAfterDirect, Heard
    <3>6. QED
      BY <3>4, <3>5
  <2>3. ASSUME NEW m \in asked[p], Respond(p, m)
        PROVE  Goal
    <3> DEFINE a == [id |-> m.id, kind |-> "reply", depth |-> m.depth + 1]
               q == [id |-> m.id, depth |-> m.depth + 1]
    <3>1. m.id \in Requests /\ m.depth \in Nat /\ m.depth + 1 \in 0 .. MaxDepth
      <4>1. m \in Questions /\ m.depth < MaxDepth
        BY <1>0, <2>3 DEF WireType, Respond
      <4>2. m.id \in Requests /\ m.depth \in 0 .. MaxDepth
        BY <4>1, MessageFacts
      <4>3. QED
        BY <4>1, <4>2, RequestReplyAssumption
    <3>2. /\ a \in Messages /\ a.kind = "reply" /\ a.id = m.id /\ a.depth = m.depth + 1
          /\ q \in Questions /\ q.id = m.id
      BY <3>1, MessageFacts
    <3>3. /\ toRequestor' = Append(toRequestor, a)
          /\ UNCHANGED <<io, msg, told, overlooked, life>>
          /\ asked' = [asked EXCEPT ![p] = @ \ {m}]
          /\ toReplier' = [o \in Repliers |-> IF o = p THEN toReplier[o] ELSE Append(toReplier[o], q)]
      BY <2>3 DEF Respond, requestVars, threadVars
    <3> HIDE DEF a, q
    <3>5. \A r \in Requests : Echo(a, r) => Dealt(r) \/ UnderWay(r)
      <4>1. CASE m.depth = 0
        BY <3>2, <4>1 DEF Echo
      <4>2. CASE m.depth # 0
        <5>1. Heard(p, m.id)
          BY <3>1, <4>2 DEF Heard
        <5>2. QED
          BY <3>1, <3>2, <5>1 DEF EchoInv, HeardAfterDirect, Echo
      <4>3. QED
        BY <4>1, <4>2
    <3>6. Dealt(m.id) \/ UnderWay(m.id) \/ Direct(a, m.id)
      <4>1. CASE m.depth = 0
        BY <3>2, <4>1 DEF Direct
      <4>2. CASE m.depth # 0
        BY <3>1, <4>2 DEF EchoInv, HeardAfterDirect, Heard
      <4>3. QED
        BY <4>1, <4>2
    <3>7. /\ RepliesHaveDepth' /\ EchoBehindDirect' /\ EchoDispatchedLast'
          /\ \A r \in Requests : /\ Dealt(r)' = Dealt(r)
                                 /\ UnderWay(r) \/ Direct(a, r) => UnderWay(r)'
      <4>1. a.depth > 0
        BY <3>1, <3>2
      <4>2. QED
        BY <3>2, <3>3, <3>5, <4>1, AppendStep
    <3>8. ASSUME NEW o \in Repliers, NEW j \in Requests, Heard(o, j)'
          PROVE  Heard(o, j) \/ j = m.id
      <4>1. asked'[o] \subseteq asked[o]
        BY <1>0, <3>3 DEF WireType
      <4>2. CASE toReplier'[o] = toReplier[o]
        BY <3>8, <4>1, <4>2 DEF Heard
      <4>3. CASE toReplier'[o] = Append(toReplier[o], q)
        <5>1. /\ Len(toReplier[o]) \in Nat /\ Len(toReplier'[o]) = Len(toReplier[o]) + 1
              /\ toReplier'[o][Len(toReplier[o]) + 1] = q
              /\ \A k \in 1 .. Len(toReplier[o]) : toReplier'[o][k] = toReplier[o][k]
          BY <1>0, <3>2, <4>3, AppendFacts DEF WireType
        <5>2. CASE \E e \in asked'[o] : e.id = j /\ e.depth > 0
          BY <4>1, <5>2 DEF Heard
        <5>3. ASSUME NEW i \in 1 .. Len(toReplier'[o]), toReplier'[o][i].id = j,
                     toReplier'[o][i].depth > 0
              PROVE  Heard(o, j) \/ j = m.id
          <6>1. CASE i \in 1 .. Len(toReplier[o])
            BY <5>1, <5>3, <6>1 DEF Heard
          <6>2. CASE i = Len(toReplier[o]) + 1
            BY <3>2, <5>1, <5>3, <6>2
          <6>3. QED
            BY <5>1, <6>1, <6>2
        <5>4. QED
          BY <3>8, <5>2, <5>3 DEF Heard
      <4>4. QED
        BY <3>3, <4>2, <4>3
    <3>9. HeardAfterDirect'
      BY <3>1, <3>6, <3>7, <3>8 DEF EchoInv, HeardAfterDirect
    <3>10. QED
      BY <3>7, <3>9
  <2>4. QED
    BY <1>3, <2>1, <2>2, <2>3 DEF Replying
<1>10. ASSUME NEW r \in Requests, OtherClientDeletes(r)
       PROVE  Goal
  <2> DEFINE a == [id |-> r, kind |-> "blank", depth |-> 0]
  <2>1. a \in Messages /\ a.kind = "blank"
    <3>1. 0 \in 0 .. MaxDepth
      BY RequestReplyAssumption
    <3>2. QED
      BY <3>1, MessageFacts
  <2>2. /\ toRequestor' = Append(toRequestor, a)
        /\ UNCHANGED <<io, msg, told, overlooked, life, toReplier, asked>>
    BY <1>10 DEF OtherClientDeletes, requestVars, threadVars
  <2> HIDE DEF a
  <2>3. \A q \in Requests : ~Echo(a, q)
    BY <2>1 DEF Echo
  <2>4. /\ RepliesHaveDepth' /\ EchoBehindDirect' /\ EchoDispatchedLast'
        /\ \A q \in Requests : Dealt(q)' = Dealt(q) /\ (UnderWay(q) => UnderWay(q)')
    BY <2>1, <2>2, <2>3, AppendStep
  <2>5. HeardAfterDirect'
    BY <2>2, <2>4 DEF EchoInv, HeardAfterDirect, Heard
  <2>6. QED
    BY <2>4, <2>5
<1>4. CASE Dispatch
  <2>1. /\ io = "run" /\ toRequestor # << >> /\ toRequestor' = Tail(toRequestor)
        /\ UNCHANGED <<toReplier, asked, told, overlooked, life>>
    BY <1>4 DEF Dispatch, requestVars
  <2>2. /\ Head(toRequestor) = toRequestor[1] /\ Len(toRequestor) \in Nat \ {0}
        /\ Len(toRequestor') = Len(toRequestor) - 1
        /\ \A i \in 1 .. Len(toRequestor') : toRequestor'[i] = toRequestor[i + 1]
    BY <1>0, <2>1, TailFacts DEF WireType
  <2>3. \/ io' = "dispatch" /\ msg' = << toRequestor[1] >> /\ Listening(toRequestor[1].kind)
        \/ UNCHANGED <<io, msg>> /\ ~Listening(toRequestor[1].kind)
    BY <1>4, <2>2 DEF Dispatch
  <2>4. \A r \in Requests : Dealt(r) \/ Direct(toRequestor[1], r) => Dealt(r)'
    <3>1. \A r \in Requests : Dealt(r) => Dealt(r)'
      BY <1>1, <2>1, SettledStays DEF Dealt, Dispatching
    <3>2. \A r \in Requests : Direct(toRequestor[1], r) => Dealt(r)'
      BY <1>0, <2>1, <2>3 DEF Dealt, Dispatching, Direct, Gone, Listening, ThreadType
    <3>3. QED
      BY <3>1, <3>2
  <2>5. HeardAfterDirect' /\ EchoBehindDirect'
    BY <2>1, <2>4, HeadStep
  <2>6. RepliesHaveDepth'
    <3>1. \A i \in 1 .. Len(toRequestor') : i + 1 \in 1 .. Len(toRequestor)
      BY <2>2
    <3>2. 1 \in 1 .. Len(toRequestor)
      BY <2>2
    <3>3. QED
      BY <2>1, <2>2, <2>3, <3>1, <3>2 DEF EchoInv, RepliesHaveDepth
  <2>7. EchoDispatchedLast'
    <3> SUFFICES ASSUME NEW r \in Requests, io' = "dispatch", Echo(msg'[1], r)
                 PROVE  Settled(r)'
      BY DEF EchoDispatchedLast
    <3>1. Echo(toRequestor[1], r) /\ Listening("reply")
      BY <2>1, <2>3 DEF Echo
    <3>2. ~Gone /\ ~Dispatching(r)
      BY <2>1, <3>1 DEF Gone, Listening, Dispatching
    <3>3. 1 \in 1 .. Len(toRequestor) /\ 1 .. 1 - 1 = {}
      BY <2>2
    <3>4. Dealt(r)
      BY <3>1, <3>3 DEF EchoInv, EchoBehindDirect
    <3>5. QED
      BY <1>1, <3>2, <3>4 DEF Dealt
  <2>8. QED
    BY <2>5, <2>6, <2>7
<1>5. CASE LoseSignal
  <2>1. /\ toRequestor # << >> /\ toRequestor' = Tail(toRequestor)
        /\ UNCHANGED <<toReplier, asked, told, life, io, msg>>
        /\ overlooked' = overlooked \cup Missed(Head(toRequestor))
    BY <1>5 DEF LoseSignal, requestVars, threadVars
  <2>2. /\ Head(toRequestor) = toRequestor[1] /\ Len(toRequestor) \in Nat \ {0}
        /\ Len(toRequestor') = Len(toRequestor) - 1
        /\ \A i \in 1 .. Len(toRequestor') : toRequestor'[i] = toRequestor[i + 1]
    BY <1>0, <2>1, TailFacts DEF WireType
  <2>3. \A r \in Requests : Dealt(r) \/ Direct(toRequestor[1], r) => Dealt(r)'
    BY <2>1, <2>2 DEF Dealt, Settled, Gone, Dispatching, Direct, Missed
  <2>4. HeardAfterDirect' /\ EchoBehindDirect'
    BY <2>1, <2>3, HeadStep
  <2>5. RepliesHaveDepth'
    <3>1. \A i \in 1 .. Len(toRequestor') : i + 1 \in 1 .. Len(toRequestor)
      BY <2>2
    <3>2. QED
      BY <2>1, <2>2, <3>1 DEF EchoInv, RepliesHaveDepth
  <2>6. EchoDispatchedLast'
    BY <1>1, <2>1 DEF EchoInv, EchoDispatchedLast
  <2>7. QED
    BY <2>4, <2>5, <2>6
<1>6. CASE OnReply \/ OnProgress \/ ProgressReturns
  <2>1. /\ io # "run" /\ io' # "dispatch" /\ UNCHANGED <<toRequestor, toReplier, asked, life>>
    BY <1>6 DEF OnReply, OnProgress, ProgressReturns, wireVars
  <2>2. \A r \in Requests : Dispatching(r) => Settled(r)'
    <3> SUFFICES ASSUME NEW r \in Requests, Dispatching(r)
                 PROVE  Settled(r)'
      OBVIOUS
    <3>1. OnReply /\ msg[1].kind = "reply" /\ msg[1].id = r /\ msg[1].depth = 1
      BY <1>6 DEF Dispatching, Direct, OnReply, OnProgress, ProgressReturns
    <3>2. r \in Missed(msg[1]) /\ ReplyResult(msg[1]) = "reply"
      BY <3>1 DEF Missed, ReplyResult
    <3>3. QED
      BY <1>0, <3>1, <3>2 DEF OnReply, Settled, TableType
  <2>3. \A r \in Requests : /\ Dealt(r) => Dealt(r)'
                            /\ UnderWay(r)' = UnderWay(r)
    BY <1>1, <2>1, <2>2 DEF Dealt, UnderWay, Gone
  <2>4. HeardAfterDirect' /\ EchoBehindDirect'
    BY <2>1, <2>3 DEF EchoInv, HeardAfterDirect, Heard, EchoBehindDirect
  <2>5. RepliesHaveDepth' /\ EchoDispatchedLast'
    BY <2>1 DEF EchoInv, RepliesHaveDepth, EchoDispatchedLast
  <2>6. QED
    BY <2>4, <2>5
<1>7. CASE Tick \/ CheckShutdown \/ ScanTimeouts \/ UNCHANGED vars
  BY <1>7, QuietSteps DEF Tick, CheckShutdown, ScanTimeouts, vars, wireVars, threadVars
<1>8. CASE DestroyBegin \/ RemoveReplyListener \/ RemoveProgressListener
  BY <1>8, QuietSteps DEF DestroyBegin, RemoveReplyListener, RemoveProgressListener, wireVars
<1>9. QED
  BY <1>2, <1>3, <1>4, <1>5, <1>6, <1>7, <1>8, <1>10 DEF Next

(***************************************************************************)
(* A request is told an echo only after a direct reply was overlooked.     *)
(***************************************************************************)
THEOREM EchoNeedsOverlooked == SafeSpec => []EchoOnlyIfOverlooked
<1>1. Init => EchoInv
  BY DEF Init, EchoInv, RepliesHaveDepth, HeardAfterDirect, Heard, EchoBehindDirect,
         EchoDispatchedLast, EchoOnlyIfOverlooked
<1>2. RRInv /\ EchoInv /\ [Next]_vars => EchoInv'
  BY EchoStep
<1>3. EchoInv => EchoOnlyIfOverlooked
  BY DEF EchoInv
<1>4. QED
  BY <1>1, <1>2, <1>3, RRInvHolds, PTL DEF SafeSpec

-------------------------------------------------------------------------------
(***************************************************************************)
(* The Requestor's futures against module Promises.                        *)
(***************************************************************************)
LEMMA PromiseStep == RRInv /\ [Next]_vars => [Promise!Next]_(Promise!vars)
<1> SUFFICES ASSUME RRInv, [Next]_vars
             PROVE  [Promise!Next]_(Promise!vars)
  OBVIOUS
<1> DEFINE Made == {r \in Requests : call[r] = "made"}
           Sent == [r \in Requests |-> IF call[r] \in {"signalled", "made"} THEN 1 ELSE 0]
<1>0. TableType /\ ThreadType /\ FreshRequests /\ EntryMatchesPromise
  BY TypeParts DEF RRInv, TableInv
<1> USE <1>0 DEF TableType
<1>1. CASE UNCHANGED <<call, told, life>>
  BY <1>1 DEF Promise!vars
<1>2. ASSUME NEW r \in Requests, Requesting(r)
      PROVE  [Promise!Next]_(Promise!vars)
  <2>1. CASE SignalRequest(r)
    <3>1. call[r] = "idle" /\ call' = [call EXCEPT ![r] = "signalled"] /\ told' = told /\ life' = life
      BY <2>1 DEF SignalRequest, threadVars
    <3>2. Made' = Made /\ Sent[r] = 0 /\ Sent' = [Sent EXCEPT ![r] = 1]
      BY <3>1
    <3>3. Promise!Transmit(r)
      BY <3>1, <3>2 DEF Promise!Transmit
    <3>4. QED
      BY <3>3 DEF Promise!Next
  <2>2. CASE SignalThrows(r)
    <3>1. call[r] = "idle" /\ call' = [call EXCEPT ![r] = "threw"] /\ told' = told /\ life' = life
      BY <2>2 DEF SignalThrows, threadVars
    <3>2. Made' = Made /\ Sent' = Sent
      BY <3>1
    <3>3. QED
      BY <3>1, <3>2 DEF Promise!vars
  <2>3. CASE RegisterRequest(r)
    <3>1. call[r] = "signalled" /\ call' = [call EXCEPT ![r] = "made"] /\ told' = told /\ life' = life
      BY <2>3 DEF RegisterRequest, threadVars
    <3>2. r \notin Made /\ Made' = Made \cup {r} /\ Sent' = Sent
      BY <3>1
    <3>3. {} \in SUBSET Promise!Open /\ Promise!Decide({})
      BY <3>1 DEF Promise!Decide
    <3>4. Promise!Make(r)
      BY <3>1, <3>2, <3>3 DEF Promise!Make
    <3>5. QED
      BY <3>4 DEF Promise!Next
  <2>4. QED
    BY <1>2, <2>1, <2>2, <2>3 DEF Requesting
<1>3. CASE \/ \E p \in Repliers : Replying(p)
           \/ \E r \in Requests : OtherClientDeletes(r)
  BY <1>1, <1>3 DEF Replying, OnRequest, IgnoreRequest, Respond, SignalProgress,
                    OtherClientDeletes, requestVars, threadVars
<1>4. CASE Dispatch \/ OnProgress \/ ProgressReturns \/ LoseSignal \/ Tick \/ CheckShutdown
  BY <1>1, <1>4 DEF Dispatch, OnProgress, ProgressReturns, LoseSignal, Tick, CheckShutdown,
                    requestVars, threadVars
<1>5. ASSUME NEW S \in SUBSET Requests, \A r \in S : entry[r],
             UNCHANGED <<call, life>>,
             \A r \in Requests : told'[r] # told[r] => r \in S,
             \A r \in S : told'[r] # "none"
      PROVE  [Promise!Next]_(Promise!vars)
  <2>1. S \in SUBSET Promise!Open
    BY <1>5 DEF EntryMatchesPromise, Promise!Open
  <2>2. \A r \in S : Sent[r] > 0
    BY <1>5 DEF EntryMatchesPromise
  <2>3. Promise!Decide(S)
    BY <1>5, <2>1, <2>2 DEF Promise!Decide
  <2>4. Promise!Tell
    BY <1>5, <2>1, <2>3 DEF Promise!Tell
  <2>5. QED
    BY <2>4 DEF Promise!Next
<1>6. CASE OnReply
  <2>1. msg[1].id \in Requests
    BY <1>6, Dispatched, MessageFacts DEF OnReply
  <2>2. call' = call /\ life' = life
    BY <1>6 DEF OnReply
  <2>3. CASE entry[msg[1].id]
    <3>1. PICK t \in {"reply", "echo", "broken"} : told' = [told EXCEPT ![msg[1].id] = t]
      BY <1>6, <2>3, Dispatched, ReplyFacts DEF OnReply
    <3>2. /\ \A r \in Requests : told'[r] # told[r] => r \in {msg[1].id}
          /\ \A r \in {msg[1].id} : told'[r] # "none"
      BY <2>1, <3>1
    <3>3. {msg[1].id} \in SUBSET Requests /\ \A r \in {msg[1].id} : entry[r]
      BY <2>1, <2>3
    <3>4. QED
      BY <1>5, <2>2, <3>2, <3>3
  <2>4. CASE ~entry[msg[1].id]
    BY <1>1, <1>6, <2>2, <2>4 DEF OnReply
  <2>5. QED
    BY <2>3, <2>4
<1>7. CASE ScanTimeouts
  <2>1. Expired \in SUBSET Requests /\ \A r \in Expired : entry[r]
    BY DEF Expired
  <2>2. /\ UNCHANGED <<call, life>>
        /\ \A r \in Requests : told'[r] # told[r] => r \in Expired
        /\ \A r \in Expired : told'[r] # "none"
    BY <1>7, <2>1 DEF ScanTimeouts
  <2>3. QED
    BY <1>5, <2>1, <2>2
<1>8. CASE DestroyBegin
  <2>1. Promise!End
    BY <1>8 DEF DestroyBegin, requestVars, Promise!End
  <2>2. QED
    BY <2>1 DEF Promise!Next
<1>9. CASE RemoveReplyListener \/ RemoveProgressListener
  <2>1. UNCHANGED <<call, told>> /\ life # "up" /\ life' # "up"
    BY <1>9 DEF RemoveReplyListener, RemoveProgressListener, requestVars
  <2>2. QED
    BY <2>1 DEF Promise!vars
<1>10. CASE UNCHANGED vars
  BY <1>1, <1>10 DEF vars, requestVars, threadVars
<1>11. QED
  BY <1>2, <1>3, <1>4, <1>6, <1>7, <1>8, <1>9, <1>10 DEF Next

(***************************************************************************)
(* The Requestor keeps the promises of module Promises.                    *)
(***************************************************************************)
THEOREM RequestorKeepsPromises == SafeSpec => PromisesSafeSpec
<1>1. Init => Promise!Init
  BY DEF Init, Promise!Init
<1>2. RRInv /\ [Next]_vars => [Promise!Next]_(Promise!vars)
  BY PromiseStep
<1>3. QED
  BY <1>1, <1>2, RRInvHolds, PTL DEF SafeSpec, PromisesSafeSpec, Promise!SafeSpec

-------------------------------------------------------------------------------
(***************************************************************************)
(* Every future of the Requestor is told something.                        *)
(***************************************************************************)

\* The timeout thread ends only for destroy().
TimeoutRuns == life = "up" => tmo \in {"check", "sleep"}

LEMMA TimeoutRunsHolds == SafeSpec => []TimeoutRuns
<1>1. Init => TimeoutRuns
  BY DEF Init, TimeoutRuns
<1>2. TimeoutRuns /\ [Next]_vars => TimeoutRuns'
  BY DEF TimeoutRuns, Next, Requesting, SignalRequest, SignalThrows, RegisterRequest,
         OtherClientDeletes, Replying,
         OnRequest, IgnoreRequest, Respond, SignalProgress, Dispatch, OnReply, OnProgress,
         ProgressReturns, LoseSignal, Tick, CheckShutdown, ScanTimeouts, DestroyBegin,
         RemoveReplyListener, RemoveProgressListener, vars, requestVars, threadVars, wireVars
<1>3. QED
  BY <1>1, <1>2, PTL DEF SafeSpec

\* A future without a result, one past its overall timeout, and the end of the wait.
Undecided(r) == call[r] = "made" /\ told[r] = "none"
Late(r) == Undecided(r) /\ life = "up" /\ total[r] > Timeout
DecidedOrOver(r) == told[r] # "none" \/ life # "up"

(***************************************************************************)
(* Only the timeout thread moves itself.                                   *)
(***************************************************************************)
LEMMA TimeoutMovesItself ==
  ASSUME [Next]_vars, tmo' # tmo
  PROVE  tmo = "check" \/ <<ScanTimeouts>>_vars
BY DEF Next, Requesting, SignalRequest, SignalThrows, RegisterRequest, OtherClientDeletes, Replying,
       OnRequest, IgnoreRequest, Respond, SignalProgress, Dispatch, OnReply, OnProgress,
       ProgressReturns, LoseSignal, Tick, CheckShutdown, DestroyBegin,
       RemoveReplyListener, RemoveProgressListener, vars, requestVars, threadVars, wireVars

(***************************************************************************)
(* A request past its overall timeout stays so, progress or not, until it  *)
(* is told its result.                                                     *)
(***************************************************************************)
LEMMA LateStays ==
  ASSUME TypeOK, [Next]_vars, NEW r \in Requests
  PROVE  /\ Undecided(r) => Undecided(r)' \/ DecidedOrOver(r)'
         /\ Late(r) => Late(r)' \/ DecidedOrOver(r)'
<1>0. TableType
  BY TypeParts
<1> USE <1>0 DEF TableType, Undecided, Late, DecidedOrOver
<1>1. ASSUME NEW q \in Requests, Requesting(q), Undecided(r)
      PROVE  Undecided(r)' /\ total'[r] = total[r]
  BY <1>1 DEF Requesting, SignalRequest, SignalThrows, RegisterRequest
<1>2. CASE Tick
  <2>1. call' = call /\ (Late(r) => total'[r] > Timeout)
    <3>1. total[r] \in 0 .. Timeout + 1 /\ total'[r] \in {total[r], total[r] + 1}
      BY <1>2 DEF Tick
    <3>2. QED
      BY <1>2, <3>1, RequestReplyAssumption DEF Tick
  <2>2. QED
    BY <2>1
<1>3. CASE UNCHANGED <<call, total>>
  BY <1>3
<1>4. CASE \/ \E p \in Repliers : Replying(p)
           \/ \E q \in Requests : OtherClientDeletes(q)
           \/ Dispatch \/ OnReply \/ OnProgress \/ ProgressReturns \/ LoseSignal
           \/ CheckShutdown \/ ScanTimeouts
           \/ DestroyBegin \/ RemoveReplyListener \/ RemoveProgressListener
           \/ UNCHANGED vars
  BY <1>3, <1>4 DEF Replying, OnRequest, IgnoreRequest, Respond, SignalProgress,
                    OtherClientDeletes, Dispatch, OnReply, OnProgress, ProgressReturns, LoseSignal, CheckShutdown, ScanTimeouts,
                    DestroyBegin, RemoveReplyListener, RemoveProgressListener, requestVars, vars
<1>5. QED
  BY <1>1, <1>2, <1>4 DEF Next

(***************************************************************************)
(* The scan tells whoever is late.                                         *)
(***************************************************************************)
LEMMA ScanTells ==
  ASSUME RRInv, ScanTimeouts, NEW r \in Requests, Late(r)
  PROVE  DecidedOrOver(r)'
<1>1. r \in Expired
  BY DEF RRInv, TableInv, EntryMatchesPromise, Late, Undecided, Expired
<1>2. QED
  BY <1>1 DEF ScanTimeouts, DecidedOrOver

LEMMA DecidedInTime ==
  ASSUME NEW k \in Requests
  PROVE  SafeSpec /\ TimeoutsGoOn => (Undecided(k) ~> DecidedOrOver(k))
<1> DEFINE Check == Late(k) /\ tmo = "check"
           Asleep == Late(k) /\ tmo = "sleep"
<1>1. RRInv /\ Undecided(k) =>
        (~entry[k] \/ total[k] > Timeout => Late(k) \/ DecidedOrOver(k))
  BY DEF RRInv, TableInv, EntryMatchesPromise, Undecided, Late, DecidedOrOver
<1>2. RRInv /\ [Next]_vars => (Undecided(k) => Undecided(k)' \/ DecidedOrOver(k)')
  BY LateStays DEF RRInv
<1>3. TimeoutRuns /\ Late(k) => Check \/ Asleep
  BY DEF TimeoutRuns, Late
<1>4. RRInv /\ [Next]_vars =>
        /\ Late(k) => Late(k)' \/ DecidedOrOver(k)'
        /\ Asleep => Asleep' \/ <<ScanTimeouts>>_vars \/ DecidedOrOver(k)'
  BY LateStays, TimeoutMovesItself DEF RRInv
<1>5. RRInv /\ Late(k) /\ <<ScanTimeouts>>_vars => DecidedOrOver(k)'
  BY ScanTells
<1>6. /\ Check => ~(tmo # "check")
      /\ Asleep /\ RequestsMutexFree => tmo = "sleep" /\ RequestsMutexFree
  OBVIOUS
<1>7. TimeoutsGoOn =>
        /\ []<>(tmo # "check") /\ []<>RequestsMutexFree
        /\ <>[]~(tmo = "sleep" /\ RequestsMutexFree) \/ []<><<ScanTimeouts>>_vars
        /\ []<>(~entry[k] \/ total[k] > Timeout)
  BY DEF TimeoutsGoOn
<1>8. QED
  BY <1>1, <1>2, <1>3, <1>4, <1>5, <1>6, <1>7, RRInvHolds, TimeoutRunsHolds, PTL DEF SafeSpec

(***************************************************************************)
(* The Requestor implements Promises, its liveness included: each future   *)
(* is told a result, although replies are lost and progress never ends,    *)
(* unless destroy() is called.                                             *)
(***************************************************************************)
THEOREM RequestorKeepsEveryPromise == SafeSpec /\ TimeoutsGoOn => PromisesSpec
<1>1. SafeSpec /\ TimeoutsGoOn => Promise!Kept
  <2> SUFFICES ASSUME NEW k \in Requests
               PROVE  SafeSpec /\ TimeoutsGoOn =>
                        (k \in Promise!Open ~> (k \notin Promise!Open \/ life # "up"))
    BY DEF Promise!Kept
  <2>1. /\ k \in Promise!Open => Undecided(k)
        /\ DecidedOrOver(k) => k \notin Promise!Open \/ life # "up"
    BY DEF Promise!Open, Undecided, DecidedOrOver
  <2>2. SafeSpec /\ TimeoutsGoOn => (Undecided(k) ~> DecidedOrOver(k))
    BY DecidedInTime
  <2>3. QED
    BY <2>1, <2>2, PTL
<1>2. QED
  BY <1>1, RequestorKeepsPromises, PTL DEF PromisesSafeSpec, PromisesSpec, Promise!Spec
===============================================================================
