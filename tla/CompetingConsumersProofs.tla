----------------------- MODULE CompetingConsumersProofs -----------------------
(***************************************************************************)
(* The properties of module CompetingConsumers, for any jobs, consumers    *)
(* and workers and any timeouts; liveness follows from TimeoutsGoOn, the   *)
(* passes of the Producer's timeout thread.                                *)
(***************************************************************************)
EXTENDS CompetingConsumers, FiniteSetTheorems, TLAPS

(***************************************************************************)
(* The steps of the producer and of the consumers touch their own state.   *)
(***************************************************************************)
ProducerStep ==
  \/ \E j \in Jobs : Producing(j)
  \/ OnJobStatus \/ DeleteStatusThrows \/ LoseStatusEvent
  \/ Tick \/ CheckShutdown \/ ScanJobs \/ DestroyBegin \/ DestroyEnd

ConsumerStep == \E c \in Consumers, j \in Jobs : Consuming(c, j)

LEMMA StepKinds == [Next]_vars => ProducerStep \/ ConsumerStep \/ UNCHANGED vars
BY DEF Next, ProducerStep, ConsumerStep

LEMMA ProducerStepFrame == ProducerStep => UNCHANGED consumerVars
<1> USE DEF consumerVars
<1>1. ASSUME NEW j \in Jobs, Producing(j)
      PROVE  UNCHANGED consumerVars
  BY <1>1 DEF Producing, AddJob, ServerPosts, WriteReturns, WriteThrows, RegisterJob, ServerRemoves
<1>2. CASE OnJobStatus \/ DeleteStatusThrows \/ LoseStatusEvent
  BY <1>2 DEF OnJobStatus, DeleteStatusThrows, LoseStatusEvent
<1>3. CASE Tick \/ CheckShutdown \/ ScanJobs \/ DestroyBegin \/ DestroyEnd
  BY <1>3 DEF Tick, CheckShutdown, ScanJobs, DestroyBegin, DestroyEnd
<1>4. QED
  BY <1>1, <1>2, <1>3 DEF ProducerStep

LEMMA ConsumerStepFrame == ConsumerStep => UNCHANGED <<producerVars, posted, removing>>
<1> SUFFICES ASSUME NEW c \in Consumers, NEW j \in Jobs, Consuming(c, j)
             PROVE  UNCHANGED <<producerVars, posted, removing>>
  BY DEF ConsumerStep
<1> USE DEF serverVars
<1>1. CASE OnJobReceived(c, j) \/ DropOffer(c, j)
  BY <1>1 DEF OnJobReceived, DropOffer
<1>2. CASE FindWorker(c, j) \/ TakeWorker(c, j) \/ RefuseJob(c, j)
  BY <1>2 DEF FindWorker, TakeWorker, RefuseJob
<1>3. CASE ServerClaims(c, j) \/ ClaimReturns(c, j) \/ ClaimThrows(c, j)
  BY <1>3 DEF ServerClaims, ClaimReturns, ClaimThrows, Rethrow
<1>4. CASE DeleteJob(c, j) \/ DeleteJobThrows(c, j) \/ WorkReturns(c, j) \/ WorkThrows(c, j)
  BY <1>4 DEF DeleteJob, DeleteJobThrows, WorkReturns, WorkThrows, Rethrow
<1>5. CASE ReportProgress(c, j) \/ ReportDone(c, j)
  BY <1>5 DEF ReportProgress, ReportDone
<1>6. QED
  BY <1>1, <1>2, <1>3, <1>4, <1>5 DEF Consuming

-------------------------------------------------------------------------------
(***************************************************************************)
(* The type invariant in three parts.                                      *)
(***************************************************************************)
Events == [job : Jobs, done : BOOLEAN]

ProducerType ==
  /\ add \in [Jobs -> AddSteps]
  /\ entry \in [Jobs -> {"absent", "waiting", "satisfied"}]
  /\ told \in [Jobs -> {"none", "done", "timeout", "progress_timeout"}]
  /\ total \in [Jobs -> 0 .. JobTimeout + 1]
  /\ quiet \in [Jobs -> 0 .. ProgressTimeout + 1]
  /\ deleting \subseteq Jobs
  /\ tmo \in {"check", "sleep", "exit"}
  /\ life \in {"up", "shutdown", "destroyed"}
  /\ terminated \in BOOLEAN

ServerType ==
  /\ posted \subseteq Jobs
  /\ offered \subseteq Threads
  /\ status \in [Jobs -> {"absent", "open", "done"}]
  /\ events \in Seq(Events)
  /\ removing \subseteq Jobs

ConsumerType ==
  /\ step \in [Threads -> Steps]
  /\ held \in [Threads -> SUBSET Workers]
  /\ free \in [Consumers -> SUBSET Workers]
  /\ claims \subseteq Threads
  /\ verdict \in [Threads -> {"none", "won", "lost"}]
  /\ updates \in [Threads -> 0 .. MaxUpdates]
  /\ jobCount \in [Consumers -> Int]
  /\ crashed \subseteq Consumers

LEMMA TypeParts == TypeOK <=> ProducerType /\ ServerType /\ ConsumerType
BY DEF TypeOK, ProducerType, ServerType, ConsumerType, Events

\* The first event, the others, and one more.
LEMMA EventFacts ==
  ASSUME NEW s \in Seq(Events)
  PROVE  /\ s # << >> => Head(s) \in Events /\ Tail(s) \in Seq(Events)
         /\ \A e \in Events : Append(s, e) \in Seq(Events)
         /\ \A e \in Events : e.job \in Jobs /\ e.done \in BOOLEAN
         /\ \A j \in Jobs, d \in BOOLEAN : [job |-> j, done |-> d] \in Events
<1>1. s # << >> => Head(s) \in Events /\ Tail(s) \in Seq(Events)
  OBVIOUS
<1>2. \A e \in Events : Append(s, e) \in Seq(Events)
  OBVIOUS
<1>3. /\ \A e \in Events : e.job \in Jobs /\ e.done \in BOOLEAN
      /\ \A j \in Jobs, d \in BOOLEAN : [job |-> j, done |-> d] \in Events
  BY DEF Events
<1>4. QED
  BY <1>1, <1>2, <1>3

LEMMA ProducerTypeStep == TypeOK /\ [Next]_vars => ProducerType'
<1> SUFFICES ASSUME TypeOK, [Next]_vars
             PROVE  ProducerType'
  OBVIOUS
<1>0. ProducerType /\ ServerType
  BY TypeParts
<1> USE <1>0, JobsAssumption DEF ProducerType
<1>1. CASE UNCHANGED producerVars
  BY <1>1 DEF producerVars, tableVars
<1>2. ASSUME NEW j \in Jobs, Producing(j)
      PROVE  ProducerType'
  <2>1. CASE AddJob(j) \/ WriteReturns(j) \/ WriteThrows(j)
    BY <2>1 DEF AddJob, WriteReturns, WriteThrows, tableVars, AddSteps
  <2>2. CASE ServerPosts(j) \/ ServerRemoves(j)
    BY <1>1, <2>2 DEF ServerPosts, ServerRemoves
  <2>3. CASE RegisterJob(j)
    BY <2>3 DEF RegisterJob, AddSteps
  <2>4. QED
    BY <1>2, <2>1, <2>2, <2>3 DEF Producing
<1>3. CASE OnJobStatus
  <2>1. Head(events).job \in Jobs
    BY <1>3, EventFacts DEF OnJobStatus, ServerType
  <2> DEFINE j == Head(events).job
  <2>2. /\ quiet' = quiet \/ quiet' = [quiet EXCEPT ![j] = 0]
        /\ UNCHANGED <<add, total, tmo, life, terminated>>
    BY <1>3 DEF OnJobStatus
  <2>3. \/ /\ told' = [told EXCEPT ![j] = "done"]
           /\ entry' = [entry EXCEPT ![j] = "satisfied"]
           /\ deleting' = {j}
        \/ UNCHANGED <<told, entry, deleting>>
    BY <1>3 DEF OnJobStatus
  <2>4. QED
    BY <2>1, <2>2, <2>3
<1>4. CASE DeleteStatusThrows \/ LoseStatusEvent
  BY <1>1, <1>4 DEF DeleteStatusThrows, LoseStatusEvent, tableVars
<1>5. CASE Tick
  BY <1>5 DEF Tick
<1>6. CASE CheckShutdown \/ DestroyBegin \/ DestroyEnd
  BY <1>6 DEF CheckShutdown, DestroyBegin, DestroyEnd, tableVars
<1>7. CASE ScanJobs
  <2>1. CASE Expired \cap Satisfied # {}
    BY <1>7, <2>1 DEF ScanJobs, tableVars
  <2>2. CASE Expired \cap Satisfied = {}
    BY <1>7, <2>2 DEF ScanJobs
  <2>3. QED
    BY <2>1, <2>2
<1>8. CASE ConsumerStep \/ UNCHANGED vars
  BY <1>1, <1>8, ConsumerStepFrame DEF vars
<1>9. QED
  BY <1>2, <1>3, <1>4, <1>5, <1>6, <1>7, <1>8, StepKinds DEF ProducerStep

LEMMA ServerTypeStep == TypeOK /\ [Next]_vars => ServerType'
<1> SUFFICES ASSUME TypeOK, [Next]_vars
             PROVE  ServerType'
  OBVIOUS
<1>0. ServerType
  BY TypeParts
<1> USE <1>0 DEF ServerType
<1>1. CASE UNCHANGED serverVars
  BY <1>1 DEF serverVars
<1>2. ASSUME NEW j \in Jobs, Producing(j)
      PROVE  ServerType'
  <2>1. CASE ServerPosts(j)    BY <2>1 DEF ServerPosts, Threads
  <2>2. CASE ServerRemoves(j)  BY <2>2 DEF ServerRemoves
  <2>3. QED
    BY <1>1, <1>2, <2>1, <2>2 DEF Producing, AddJob, WriteReturns, WriteThrows, RegisterJob
<1>3. CASE OnJobStatus \/ LoseStatusEvent
  <2>1. Head(events).job \in Jobs /\ Tail(events) \in Seq(Events)
    BY <1>3, EventFacts DEF OnJobStatus, LoseStatusEvent
  <2>2. QED
    BY <1>3, <2>1 DEF OnJobStatus, LoseStatusEvent
<1>4. CASE DeleteStatusThrows \/ Tick \/ CheckShutdown \/ ScanJobs \/ DestroyBegin \/ DestroyEnd
  BY <1>1, <1>4 DEF DeleteStatusThrows, Tick, CheckShutdown, ScanJobs, DestroyBegin, DestroyEnd
<1>5. ASSUME NEW c \in Consumers, NEW j \in Jobs, Consuming(c, j)
      PROVE  ServerType'
  <2>1. \A d \in BOOLEAN : Append(events, [job |-> j, done |-> d]) \in Seq(Events)
    BY EventFacts
  <2>2. CASE OnJobReceived(c, j) \/ DropOffer(c, j)
    BY <2>2 DEF OnJobReceived, DropOffer
  <2>3. CASE ServerClaims(c, j)
    BY <2>1, <2>3 DEF ServerClaims
  <2>4. CASE ReportProgress(c, j)
    BY <2>1, <2>4 DEF ReportProgress
  <2>5. CASE ReportDone(c, j)
    BY <2>1, <2>5 DEF ReportDone
  <2>6. CASE FindWorker(c, j) \/ TakeWorker(c, j) \/ RefuseJob(c, j) \/ ClaimReturns(c, j)
    BY <1>1, <2>6 DEF FindWorker, TakeWorker, RefuseJob, ClaimReturns
  <2>7. CASE \/ ClaimThrows(c, j) \/ DeleteJob(c, j) \/ DeleteJobThrows(c, j) \/ WorkReturns(c, j)
             \/ WorkThrows(c, j)
    BY <1>1, <2>7 DEF ClaimThrows, DeleteJob, DeleteJobThrows, WorkReturns, WorkThrows, Rethrow
  <2>8. QED
    BY <1>5, <2>2, <2>3, <2>4, <2>5, <2>6, <2>7 DEF Consuming
<1>6. CASE UNCHANGED vars
  BY <1>1, <1>6 DEF vars
<1>7. QED
  BY <1>2, <1>3, <1>4, <1>5, <1>6 DEF Next

LEMMA ConsumerTypeStep == TypeOK /\ [Next]_vars => ConsumerType'
<1> SUFFICES ASSUME TypeOK, [Next]_vars
             PROVE  ConsumerType'
  OBVIOUS
<1>0. ConsumerType
  BY TypeParts
<1> USE <1>0, JobsAssumption DEF ConsumerType
<1>1. CASE UNCHANGED consumerVars
  BY <1>1 DEF consumerVars
<1>2. ASSUME NEW c \in Consumers, NEW j \in Jobs, Consuming(c, j)
      PROVE  ConsumerType'
  <2> USE DEF Steps
  <2>0. <<c, j>> \in Threads
    BY DEF Threads
  <2>1. CASE OnJobReceived(c, j)  BY <2>0, <2>1 DEF OnJobReceived
  <2>2. CASE DropOffer(c, j)      BY <1>1, <2>2 DEF DropOffer
  <2>3. CASE FindWorker(c, j)     BY <2>0, <2>3 DEF FindWorker
  <2>4. CASE TakeWorker(c, j)     BY <2>0, <2>4 DEF TakeWorker
  <2>5. CASE RefuseJob(c, j)      BY <2>0, <2>5 DEF RefuseJob
  <2>6. CASE ServerClaims(c, j)   BY <2>0, <2>6 DEF ServerClaims
  <2>7. CASE ClaimReturns(c, j)   BY <2>0, <2>7 DEF ClaimReturns
  <2>8. CASE Rethrow(c, j)        BY <2>0, <2>8 DEF Rethrow
  <2>9. CASE DeleteJob(c, j)      BY <2>0, <2>9 DEF DeleteJob
  <2>10. CASE ReportProgress(c, j)  BY <2>0, <2>10 DEF ReportProgress
  <2>11. CASE ReportDone(c, j)      BY <2>0, <2>11 DEF ReportDone
  <2>12. CASE WorkReturns(c, j)     BY <2>0, <2>12 DEF WorkReturns
  <2>13. QED
    BY <1>2, <2>1, <2>2, <2>3, <2>4, <2>5, <2>6, <2>7, <2>8, <2>9, <2>10, <2>11, <2>12
       DEF Consuming, ClaimThrows, DeleteJobThrows, WorkThrows
<1>3. CASE ProducerStep \/ UNCHANGED vars
  BY <1>1, <1>3, ProducerStepFrame DEF vars
<1>4. QED
  BY <1>2, <1>3, StepKinds DEF ConsumerStep

LEMMA TypeStep == TypeOK /\ [Next]_vars => TypeOK'
<1> SUFFICES ASSUME TypeOK, [Next]_vars
             PROVE  TypeOK'
  OBVIOUS
<1>1. ProducerType' /\ ServerType' /\ ConsumerType'
  BY ProducerTypeStep, ServerTypeStep, ConsumerTypeStep
<1>2. QED
  BY <1>1 DEF TypeOK, ProducerType, ServerType, ConsumerType, Events

-------------------------------------------------------------------------------
(***************************************************************************)
(* The producer's table against its promises.                              *)
(***************************************************************************)

\* Nothing is told before the job is registered.
FreshJobs == \A j \in Jobs : add[j] # "added" => told[j] = "none"

TableInv == FreshJobs /\ EntryMatchesPromise /\ TerminatedByFinishedJob

LEMMA TableStep == TypeOK /\ TableInv /\ [Next]_vars => TableInv'
<1> SUFFICES ASSUME TypeOK, TableInv, [Next]_vars
             PROVE  TableInv'
  OBVIOUS
<1>0. ProducerType /\ ServerType
  BY TypeParts
<1> USE <1>0 DEF TableInv, FreshJobs, EntryMatchesPromise, TerminatedByFinishedJob, ProducerType
<1>1. CASE UNCHANGED <<add, entry, told, terminated>>
  BY <1>1
<1>2. ASSUME NEW j \in Jobs, Producing(j)
      PROVE  TableInv'
  <2>1. CASE AddJob(j)     BY <2>1 DEF AddJob, tableVars
  <2>2. CASE WriteReturns(j) \/ WriteThrows(j)
    BY <2>2 DEF WriteReturns, WriteThrows, tableVars
  <2>3. CASE RegisterJob(j)  BY <2>3 DEF RegisterJob
  <2>4. CASE ServerPosts(j) \/ ServerRemoves(j)
    BY <1>1, <2>4 DEF ServerPosts, ServerRemoves, producerVars, tableVars
  <2>5. QED
    BY <1>2, <2>1, <2>2, <2>3, <2>4 DEF Producing
<1>3. CASE OnJobStatus
  <2> DEFINE j == Head(events).job
  <2>1. j \in Jobs
    BY <1>3, EventFacts DEF OnJobStatus, ServerType
  <2>2. CASE Head(events).done /\ entry[j] = "waiting"
    <3>1. /\ told' = [told EXCEPT ![j] = "done"]
          /\ entry' = [entry EXCEPT ![j] = "satisfied"]
          /\ UNCHANGED <<add, terminated>> /\ ~terminated
      BY <1>3, <2>2 DEF OnJobStatus
    <3>2. QED
      BY <2>1, <2>2, <3>1
  <2>3. CASE ~(Head(events).done /\ entry[j] = "waiting")
    BY <1>1, <1>3, <2>3 DEF OnJobStatus
  <2>4. QED
    BY <2>2, <2>3
<1>4. CASE DeleteStatusThrows \/ LoseStatusEvent \/ Tick \/ CheckShutdown \/ DestroyBegin \/ DestroyEnd
  BY <1>1, <1>4 DEF DeleteStatusThrows, LoseStatusEvent, Tick, CheckShutdown, DestroyBegin,
                    DestroyEnd, producerVars, tableVars
<1>5. CASE ScanJobs
  <2>1. CASE Expired \cap Satisfied # {}
    <3>1. PICK j \in Jobs : entry[j] = "satisfied"
      BY <2>1 DEF Satisfied
    <3>2. QED
      BY <1>5, <2>1, <3>1 DEF ScanJobs, tableVars
  <2>2. CASE Expired \cap Satisfied = {}
    <3>1. \A j \in Expired : j \in Jobs /\ entry[j] = "waiting"
      BY <2>2 DEF Expired, Satisfied
    <3>2. /\ \A j \in Jobs : (told'[j] = told[j] /\ entry'[j] = entry[j]) \/ j \in Expired
          /\ \A j \in Expired : told'[j] \in {"timeout", "progress_timeout"} /\ entry'[j] = "absent"
          /\ UNCHANGED <<add, terminated>> /\ ~terminated
      BY <1>5, <2>2, <3>1 DEF ScanJobs
    <3>3. QED
      BY <3>1, <3>2
  <2>3. QED
    BY <2>1, <2>2
<1>6. CASE ConsumerStep \/ UNCHANGED vars
  BY <1>1, <1>6, ConsumerStepFrame DEF vars, producerVars, tableVars
<1>7. QED
  BY <1>2, <1>3, <1>4, <1>5, <1>6, StepKinds DEF ProducerStep

(***************************************************************************)
(* What a job was told is never replaced.                                  *)
(***************************************************************************)
LEMMA ToldStep ==
  TypeOK /\ TableInv /\ [Next]_vars => \A j \in Jobs : told[j] # "none" => told'[j] = told[j]
<1> SUFFICES ASSUME TypeOK, TableInv, [Next]_vars, NEW j \in Jobs, told[j] # "none"
             PROVE  told'[j] = told[j]
  OBVIOUS
<1>0. ProducerType /\ entry[j] # "waiting"
  BY TypeParts DEF TableInv, EntryMatchesPromise
<1>1. CASE \E k \in Jobs : Producing(k)
  BY <1>1 DEF Producing, AddJob, ServerPosts, WriteReturns, WriteThrows, RegisterJob, ServerRemoves,
              producerVars, tableVars
<1>2. CASE OnJobStatus
  BY <1>0, <1>2 DEF OnJobStatus, ProducerType
<1>3. CASE DeleteStatusThrows \/ LoseStatusEvent \/ Tick \/ CheckShutdown \/ DestroyBegin \/ DestroyEnd
  BY <1>3 DEF DeleteStatusThrows, LoseStatusEvent, Tick, CheckShutdown, DestroyBegin, DestroyEnd,
              producerVars, tableVars
<1>4. CASE ScanJobs
  <2>1. Expired \cap Satisfied = {} => j \notin Expired
    BY <1>0 DEF Expired, Satisfied, ProducerType
  <2>2. QED
    BY <1>4, <2>1 DEF ScanJobs, tableVars
<1>5. CASE ConsumerStep \/ UNCHANGED vars
  BY <1>5, ConsumerStepFrame DEF vars, producerVars, tableVars
<1>6. QED
  BY <1>1, <1>2, <1>3, <1>4, <1>5, StepKinds DEF ProducerStep

(***************************************************************************)
(* Types and table hold together.                                          *)
(***************************************************************************)
JobInv == TypeOK /\ TableInv

THEOREM JobInvHolds == SafeSpec => []JobInv
<1>1. Init => JobInv
  <2> SUFFICES ASSUME Init
               PROVE  JobInv
    OBVIOUS
  <2>1. ProducerType /\ ServerType /\ ConsumerType
    <3>1. ProducerType
      <4>1. 0 \in 0 .. JobTimeout + 1 /\ 0 \in 0 .. ProgressTimeout + 1
        BY JobsAssumption
      <4>2. QED
        BY <4>1 DEF Init, ProducerType, AddSteps
    <3>2. ServerType
      BY DEF Init, ServerType
    <3>3. ConsumerType
      BY JobsAssumption DEF Init, ConsumerType, Steps
    <3>4. QED
      BY <3>1, <3>2, <3>3
  <2>2. TableInv
    BY DEF Init, TableInv, FreshJobs, EntryMatchesPromise, TerminatedByFinishedJob
  <2>3. QED
    BY <2>1, <2>2, TypeParts DEF JobInv
<1>2. JobInv /\ [Next]_vars => JobInv'
  BY TypeStep, TableStep DEF JobInv
<1>3. QED
  BY <1>1, <1>2, PTL DEF SafeSpec

(***************************************************************************)
(* Every variable keeps its type.                                          *)
(***************************************************************************)
THEOREM TypeCorrect == SafeSpec => []TypeOK
<1>1. JobInv => TypeOK
  BY DEF JobInv
<1>2. QED
  BY <1>1, JobInvHolds, PTL

(***************************************************************************)
(* A job that was added has a waiting entry until it is told something.    *)
(***************************************************************************)
THEOREM NoJobForgotten == SafeSpec => []EntryMatchesPromise
<1>1. JobInv => EntryMatchesPromise
  BY DEF JobInv, TableInv
<1>2. QED
  BY <1>1, JobInvHolds, PTL

(***************************************************************************)
(* Only the entry of a finished job ends the producer's process.           *)
(***************************************************************************)
THEOREM TerminationCause == SafeSpec => []TerminatedByFinishedJob
<1>1. JobInv => TerminatedByFinishedJob
  BY DEF JobInv, TableInv
<1>2. QED
  BY <1>1, JobInvHolds, PTL

(***************************************************************************)
(* A future is given one result.                                           *)
(***************************************************************************)
THEOREM JobToldOnce == SafeSpec => ToldOnce
<1>1. JobInv /\ [Next]_vars => [\A j \in Jobs : told[j] # "none" => told'[j] = told[j]]_vars
  BY ToldStep DEF JobInv
<1>2. QED
  BY <1>1, JobInvHolds, PTL DEF SafeSpec, ToldOnce

-------------------------------------------------------------------------------
(***************************************************************************)
(* Who was granted a job.  The producer removes a job's status entry at    *)
(* most once, after the job was done.  A job is intact until then: its     *)
(* first grant left an entry, which refuses every other claim.             *)
(***************************************************************************)
Intact(j) == told[j] # "done" \/ j \in removing

AtMostOne(S) == \A c, d \in S : c = d
AtMostTwo(S) == \A c, d, e \in S : c = d \/ d = e \/ c = e

RemovedWhenDone == \A j \in Jobs : j \in removing => told[j] = "done"

GrantsFollowEntry ==
  \A j \in Jobs :
    /\ Intact(j) => AtMostOne(Winners(j)) /\ (Winners(j) # {} => status[j] # "absent")
    /\ status[j] = "absent" => AtMostOne(Winners(j))
    /\ AtMostTwo(Winners(j))

ClaimInv == RemovedWhenDone /\ GrantsFollowEntry

\* A status entry is removed for a job that is done, and only once.
LEMMA RemovingStep ==
  ASSUME JobInv, RemovedWhenDone, [Next]_vars, NEW j \in Jobs
  PROVE  /\ j \in removing' => told'[j] = "done"
         /\ Intact(j)' => Intact(j)
<1>0. TypeOK /\ TableInv /\ ProducerType /\ ServerType
  BY TypeParts DEF JobInv
<1>1. told[j] # "none" => told'[j] = told[j]
  BY <1>0, ToldStep
<1>2. j \in removing' => j \in removing \/ (told[j] = "none" /\ told'[j] = "done")
  <2>1. CASE OnJobStatus
    <3> DEFINE k == Head(events).job
    <3>1. k \in Jobs
      BY <1>0, <2>1, EventFacts DEF OnJobStatus, ServerType
    <3>2. CASE Head(events).done /\ entry[k] = "waiting"
      <4>1. told' = [told EXCEPT ![k] = "done"] /\ removing' = removing \cup {k}
        BY <2>1, <3>2 DEF OnJobStatus
      <4>2. told[k] = "none"
        BY <1>0, <3>1, <3>2 DEF TableInv, EntryMatchesPromise
      <4>3. QED
        BY <1>0, <3>1, <4>1, <4>2 DEF ProducerType
    <3>3. CASE ~(Head(events).done /\ entry[k] = "waiting")
      BY <2>1, <3>3 DEF OnJobStatus
    <3>4. QED
      BY <3>2, <3>3
  <2>2. ASSUME NEW k \in Jobs, Producing(k)
        PROVE  removing' \subseteq removing
    BY <2>2 DEF Producing, AddJob, ServerPosts, WriteReturns, WriteThrows, RegisterJob,
                ServerRemoves, serverVars
  <2>3. CASE DeleteStatusThrows \/ LoseStatusEvent \/ Tick \/ CheckShutdown \/ ScanJobs
    BY <2>3 DEF DeleteStatusThrows, LoseStatusEvent, Tick, CheckShutdown, ScanJobs, serverVars
  <2>4. CASE DestroyBegin \/ DestroyEnd
    BY <2>4 DEF DestroyBegin, DestroyEnd, serverVars
  <2>5. CASE ConsumerStep \/ UNCHANGED vars
    BY <2>5, ConsumerStepFrame DEF vars, serverVars
  <2>6. QED
    BY <2>1, <2>2, <2>3, <2>4, <2>5, StepKinds DEF ProducerStep
<1>3. QED
  BY <1>1, <1>2 DEF RemovedWhenDone, Intact

\* Only two steps can cost the job its entry or add a winner.
LEMMA GrantStep ==
  ASSUME JobInv, [Next]_vars, NEW j \in Jobs
  PROVE  \/ /\ Winners(j)' \subseteq Winners(j)
            /\ status'[j] = "absent" => status[j] = "absent"
         \/ ServerRemoves(j)
         \/ \E c \in Consumers : /\ status[j] = "absent" /\ status'[j] # "absent"
                                 /\ Winners(j)' \subseteq Winners(j) \cup {c}
<1>0. ServerType /\ ConsumerType
  BY TypeParts DEF JobInv
<1> USE DEF Winners
<1>1. CASE UNCHANGED <<status, verdict>>
  BY <1>1
<1>2. ASSUME NEW k \in Jobs, Producing(k), ~ServerRemoves(j)
      PROVE  verdict' = verdict /\ status'[j] = status[j]
  BY <1>0, <1>2 DEF Producing, AddJob, ServerPosts, WriteReturns, WriteThrows, RegisterJob,
                    ServerRemoves, serverVars, consumerVars, ServerType
<1>3. CASE OnJobStatus \/ DeleteStatusThrows \/ LoseStatusEvent
  BY <1>1, <1>3 DEF OnJobStatus, DeleteStatusThrows, LoseStatusEvent, serverVars, consumerVars
<1>4. CASE Tick \/ CheckShutdown \/ ScanJobs \/ DestroyBegin \/ DestroyEnd
  BY <1>1, <1>4 DEF Tick, CheckShutdown, ScanJobs, DestroyBegin, DestroyEnd, serverVars, consumerVars
<1>5. ASSUME NEW c \in Consumers, NEW k \in Jobs, ServerClaims(c, k)
      PROVE  \/ /\ Winners(j)' \subseteq Winners(j)
                /\ status'[j] = "absent" => status[j] = "absent"
             \/ /\ status[j] = "absent" /\ status'[j] # "absent"
                /\ Winners(j)' \subseteq Winners(j) \cup {c}
  <2>0. /\ <<c, k>> \in Threads
        /\ \A d \in Consumers : <<d, j>> \in Threads /\ (<<d, j>> = <<c, k>> => d = c /\ j = k)
    BY DEF Threads
  <2>1. \A d \in Consumers : <<d, j>> # <<c, k>> => verdict'[<<d, j>>] = verdict[<<d, j>>]
    BY <1>0, <1>5, <2>0 DEF ServerClaims, ConsumerType
  <2>2. CASE j = k /\ status[j] = "absent"
    <3>1. status'[j] = "open"
      BY <1>0, <1>5, <2>2 DEF ServerClaims, ServerType
    <3>2. QED
      BY <2>0, <2>1, <2>2, <3>1
  <2>3. CASE j = k /\ status[j] # "absent"
    <3>1. status' = status /\ verdict'[<<c, j>>] \in {verdict[<<c, j>>], "lost"}
      BY <1>0, <1>5, <2>0, <2>3 DEF ServerClaims, ConsumerType
    <3>2. QED
      BY <2>0, <2>1, <2>3, <3>1
  <2>4. CASE j # k
    <3>1. status'[j] = status[j]
      BY <1>0, <1>5, <2>4 DEF ServerClaims, ServerType
    <3>2. QED
      BY <2>0, <2>1, <2>4, <3>1
  <2>5. QED
    BY <2>2, <2>3, <2>4
<1>6. ASSUME NEW c \in Consumers, NEW k \in Jobs, Consuming(c, k), ~ServerClaims(c, k)
      PROVE  verdict' = verdict /\ (status'[j] = "absent" => status[j] = "absent")
  <2>1. CASE \/ OnJobReceived(c, k) \/ DropOffer(c, k) \/ FindWorker(c, k) \/ TakeWorker(c, k)
             \/ RefuseJob(c, k) \/ ClaimReturns(c, k) \/ DeleteJob(c, k) \/ WorkReturns(c, k)
    BY <2>1 DEF OnJobReceived, DropOffer, FindWorker, TakeWorker, RefuseJob, ClaimReturns,
                DeleteJob, WorkReturns, serverVars, consumerVars
  <2>2. CASE Rethrow(c, k)
    BY <2>2 DEF Rethrow, serverVars
  <2>3. CASE ReportProgress(c, k)
    BY <1>0, <2>3 DEF ReportProgress, ServerType
  <2>4. CASE ReportDone(c, k)
    BY <1>0, <2>4 DEF ReportDone, ServerType
  <2>5. QED
    BY <1>6, <2>1, <2>2, <2>3, <2>4 DEF Consuming, ClaimThrows, DeleteJobThrows, WorkThrows
<1>7. CASE UNCHANGED vars
  BY <1>1, <1>7 DEF vars, serverVars, consumerVars
<1>8. QED
  BY <1>2, <1>3, <1>4, <1>5, <1>6, <1>7, StepKinds DEF ProducerStep, ConsumerStep

LEMMA ClaimStep == JobInv /\ ClaimInv /\ [Next]_vars => ClaimInv'
<1> SUFFICES ASSUME JobInv, ClaimInv, [Next]_vars, NEW j \in Jobs
             PROVE  /\ j \in removing' => told'[j] = "done"
                    /\ Intact(j)' => /\ AtMostOne(Winners(j)')
                                     /\ Winners(j)' # {} => status'[j] # "absent"
                    /\ status'[j] = "absent" => AtMostOne(Winners(j)')
                    /\ AtMostTwo(Winners(j)')
  BY DEF ClaimInv, RemovedWhenDone, GrantsFollowEntry, AtMostOne, AtMostTwo
<1>1. /\ j \in removing' => told'[j] = "done"
      /\ Intact(j)' => Intact(j)
  BY RemovingStep DEF ClaimInv
<1>2. /\ Intact(j) => AtMostOne(Winners(j)) /\ (Winners(j) # {} => status[j] # "absent")
      /\ status[j] = "absent" => AtMostOne(Winners(j))
      /\ AtMostTwo(Winners(j))
  BY DEF ClaimInv, GrantsFollowEntry
<1>3. CASE /\ Winners(j)' \subseteq Winners(j)
           /\ status'[j] = "absent" => status[j] = "absent"
  BY <1>1, <1>2, <1>3 DEF AtMostOne, AtMostTwo
<1>4. CASE ServerRemoves(j)
  <2>1. Intact(j) /\ j \notin removing' /\ told' = told /\ Winners(j)' = Winners(j)
    BY <1>4 DEF ServerRemoves, Intact, producerVars, tableVars, consumerVars, Winners
  <2>2. ~Intact(j)'
    BY <1>4, <2>1 DEF Intact, ClaimInv, RemovedWhenDone, ServerRemoves
  <2>3. QED
    BY <1>2, <2>1, <2>2
<1>5. ASSUME NEW c \in Consumers, status[j] = "absent", status'[j] # "absent",
             Winners(j)' \subseteq Winners(j) \cup {c}
      PROVE  /\ AtMostTwo(Winners(j)')
             /\ Intact(j) => AtMostOne(Winners(j)')
  BY <1>2, <1>5 DEF AtMostOne, AtMostTwo
<1>6. QED
  BY <1>1, <1>3, <1>4, <1>5, GrantStep

THEOREM ClaimInvHolds == SafeSpec => []ClaimInv
<1>1. Init => ClaimInv
  <2>1. Init => RemovedWhenDone
    BY DEF Init, RemovedWhenDone
  <2>2. ASSUME Init, NEW j \in Jobs
        PROVE  Winners(j) = {}
    BY <2>2 DEF Init, Winners, Threads
  <2>3. QED
    BY <2>1, <2>2 DEF ClaimInv, GrantsFollowEntry, AtMostOne, AtMostTwo
<1>2. QED
  BY <1>1, ClaimStep, JobInvHolds, PTL DEF SafeSpec

\* What the two bounds say of cardinalities.
LEMMA AtMostCardinality ==
  ASSUME NEW S
  PROVE  /\ AtMostOne(S) => Cardinality(S) <= 1
         /\ AtMostTwo(S) => Cardinality(S) <= 2
<1>1. CASE S = {}
  BY <1>1, FS_EmptySet
<1>2. CASE S # {}
  <2>1. PICK a \in S : TRUE
    BY <1>2
  <2>2. IsFiniteSet({a}) /\ Cardinality({a}) = 1
    BY FS_Singleton
  <2>3. CASE S = {a}
    BY <2>2, <2>3
  <2>4. CASE S # {a}
    <3>1. PICK b \in S : b # a
      BY <2>1, <2>4
    <3>2. ~AtMostOne(S) /\ (AtMostTwo(S) => S = {a} \cup {b})
      BY <3>1 DEF AtMostOne, AtMostTwo
    <3>3. Cardinality({a} \cup {b}) = 2
      BY <2>2, <3>1, FS_AddElement
    <3>4. QED
      BY <3>2, <3>3
  <2>5. QED
    BY <2>3, <2>4
<1>3. QED
  BY <1>1, <1>2

(***************************************************************************)
(* A job is granted to one consumer until it is done, and to two at most.  *)
(***************************************************************************)
THEOREM JobGrantedOnce == SafeSpec => []ClaimsPerJob
<1>1. ClaimInv => ClaimsPerJob
  BY AtMostCardinality DEF ClaimInv, GrantsFollowEntry, Intact, ClaimsPerJob
<1>2. QED
  BY <1>1, ClaimInvHolds, PTL

-------------------------------------------------------------------------------
(***************************************************************************)
(* Who reports on a job.  A thread past its claim was granted the job, and *)
(* a final status, on its way or told, was written by such a thread.       *)
(***************************************************************************)
WorkSteps == {"delete", "work", "returned"}

GrantedBeforeWork == \A t \in Threads : step[t] \in WorkSteps => verdict[t] = "won"

ReportedByWinner ==
  \A t \in Threads : updates[t] > 0 => /\ verdict[t] = "won"
                                       /\ step[t] \in {"work", "returned", "threw"}

Reported == {j \in Jobs : \E c \in Winners(j) : updates[<<c, j>>] > 0}

DoneIsReported == \A i \in 1 .. Len(events) : events[i].done => events[i].job \in Reported

ReportInv == GrantedBeforeWork /\ ReportedByWinner /\ DoneIsReported /\ ResultFromWinner

\* Threads of consumers keep what they were granted once they reported.
LEMMA ReporterStep ==
  ASSUME TypeOK, GrantedBeforeWork, ReportedByWinner, NEW c \in Consumers, NEW j \in Jobs,
         Consuming(c, j)
  PROVE  /\ GrantedBeforeWork' /\ ReportedByWinner'
         /\ \A t \in Threads : updates[t] > 0 => updates'[t] > 0 /\ verdict'[t] = "won"
<1>0. ConsumerType /\ <<c, j>> \in Threads
  BY TypeParts DEF Threads
<1>1. \A t \in Threads : updates[t] \in Nat
  BY <1>0, JobsAssumption DEF ConsumerType
<1> USE <1>0, <1>1, JobsAssumption
    DEF ConsumerType, GrantedBeforeWork, ReportedByWinner, WorkSteps, Running
<1>2. CASE OnJobReceived(c, j)  BY <1>2 DEF OnJobReceived
<1>3. CASE DropOffer(c, j)      BY <1>3 DEF DropOffer, consumerVars
<1>4. CASE FindWorker(c, j)     BY <1>4 DEF FindWorker
<1>5. CASE TakeWorker(c, j)     BY <1>5 DEF TakeWorker
<1>6. CASE RefuseJob(c, j)      BY <1>6 DEF RefuseJob
<1>7. CASE ServerClaims(c, j)   BY <1>7 DEF ServerClaims
<1>8. CASE ClaimReturns(c, j)   BY <1>8 DEF ClaimReturns
<1>9. CASE ClaimThrows(c, j)      BY <1>9 DEF ClaimThrows, Rethrow
<1>10. CASE DeleteJobThrows(c, j) BY <1>10 DEF DeleteJobThrows, Rethrow
<1>11. CASE WorkThrows(c, j)      BY <1>11 DEF WorkThrows, Rethrow
<1>12. CASE DeleteJob(c, j)       BY <1>12 DEF DeleteJob
<1>13. CASE WorkReturns(c, j)     BY <1>13 DEF WorkReturns
<1>14. CASE ReportProgress(c, j)
  <2>1. /\ step[<<c, j>>] \in {"work", "returned"}
        /\ updates' = [updates EXCEPT ![<<c, j>>] = @ + 1]
        /\ UNCHANGED <<step, verdict>>
    BY <1>14 DEF ReportProgress, CallbacksHeld
  <2>2. QED
    BY <2>1
<1>15. CASE ReportDone(c, j)
  <2>1. /\ step[<<c, j>>] \in {"work", "returned"}
        /\ updates' = [updates EXCEPT ![<<c, j>>] = @ + 1]
        /\ UNCHANGED <<step, verdict>>
    BY <1>15 DEF ReportDone, CallbacksHeld
  <2>2. QED
    BY <2>1
<1>16. QED
  BY <1>2, <1>3, <1>4, <1>5, <1>6, <1>7, <1>8, <1>9, <1>10, <1>11, <1>12, <1>13, <1>14, <1>15
     DEF Consuming

\* A thread that reports is a winner of its job.
LEMMA ReportMakesReported ==
  ASSUME TypeOK, GrantedBeforeWork, NEW c \in Consumers, NEW j \in Jobs, ReportDone(c, j)
  PROVE  j \in Reported'
<1>0. ConsumerType /\ <<c, j>> \in Threads
  BY TypeParts DEF Threads
<1>1. verdict[<<c, j>>] = "won" /\ verdict' = verdict
  BY <1>0 DEF ReportDone, CallbacksHeld, Running, GrantedBeforeWork, WorkSteps
<1>2. updates'[<<c, j>>] > 0
  BY <1>0, JobsAssumption DEF ReportDone, ConsumerType
<1>3. QED
  BY <1>1, <1>2 DEF Reported, Winners

\* What is written to the producer's events.
LEMMA EventsStep ==
  ASSUME TypeOK, [Next]_vars
  PROVE  \/ events' = events
         \/ events # << >> /\ events' = Tail(events) /\ UNCHANGED <<updates, verdict>>
         \/ \E c \in Consumers, j \in Jobs :
              \/ events' = Append(events, [job |-> j, done |-> FALSE])
              \/ ReportDone(c, j) /\ events' = Append(events, [job |-> j, done |-> TRUE])
<1>1. ASSUME NEW j \in Jobs, Producing(j)
      PROVE  events' = events
  BY <1>1 DEF Producing, AddJob, ServerPosts, WriteReturns, WriteThrows, RegisterJob, ServerRemoves,
              serverVars
<1>2. CASE OnJobStatus \/ LoseStatusEvent
  BY <1>2 DEF OnJobStatus, LoseStatusEvent, consumerVars
<1>3. CASE DeleteStatusThrows \/ Tick \/ CheckShutdown \/ ScanJobs \/ DestroyBegin \/ DestroyEnd
  BY <1>3 DEF DeleteStatusThrows, Tick, CheckShutdown, ScanJobs, DestroyBegin, DestroyEnd, serverVars
<1>4. ASSUME NEW c \in Consumers, NEW j \in Jobs, Consuming(c, j)
      PROVE  \/ events' = events
             \/ events' = Append(events, [job |-> j, done |-> FALSE])
             \/ ReportDone(c, j) /\ events' = Append(events, [job |-> j, done |-> TRUE])
  <2>1. CASE ServerClaims(c, j)    BY <2>1 DEF ServerClaims
  <2>2. CASE ReportProgress(c, j)  BY <2>2 DEF ReportProgress
  <2>3. CASE ReportDone(c, j)      BY <2>3 DEF ReportDone
  <2>4. CASE OnJobReceived(c, j) \/ DropOffer(c, j) \/ FindWorker(c, j) \/ TakeWorker(c, j)
             \/ RefuseJob(c, j)
    BY <2>4 DEF OnJobReceived, DropOffer, FindWorker, TakeWorker, RefuseJob, serverVars
  <2>5. CASE ClaimReturns(c, j) \/ DeleteJob(c, j) \/ WorkReturns(c, j) \/ Rethrow(c, j)
    BY <2>5 DEF ClaimReturns, DeleteJob, WorkReturns, Rethrow, serverVars
  <2>6. QED
    BY <1>4, <2>1, <2>2, <2>3, <2>4, <2>5 DEF Consuming, ClaimThrows, DeleteJobThrows, WorkThrows
<1>5. CASE UNCHANGED vars
  BY <1>5 DEF vars, serverVars
<1>6. CASE ConsumerStep
  BY <1>4, <1>6 DEF ConsumerStep
<1>7. QED
  BY <1>1, <1>2, <1>3, <1>5, <1>6, StepKinds DEF ProducerStep

LEMMA ReportStep == TypeOK /\ ReportInv /\ [Next]_vars => ReportInv'
<1> SUFFICES ASSUME TypeOK, ReportInv, [Next]_vars
             PROVE  ReportInv'
  OBVIOUS
<1>0. ProducerType /\ ServerType /\ ConsumerType
  BY TypeParts
<1>1. /\ GrantedBeforeWork' /\ ReportedByWinner'
      /\ \A t \in Threads : updates[t] > 0 => updates'[t] > 0 /\ verdict'[t] = "won"
  <2>1. CASE UNCHANGED consumerVars
    BY <2>1 DEF ReportInv, GrantedBeforeWork, ReportedByWinner, consumerVars
  <2>2. CASE ConsumerStep
    BY <2>2, ReporterStep DEF ReportInv, ConsumerStep
  <2>3. QED
    BY <2>1, <2>2, StepKinds, ProducerStepFrame DEF vars
<1>2. Reported \subseteq Reported'
  BY <1>1 DEF Reported, Winners, Threads
<1>3. DoneIsReported'
  <2>1. \A i \in 1 .. Len(events) : events[i].done => events[i].job \in Reported'
    BY <1>2 DEF ReportInv, DoneIsReported
  <2>2. CASE events' = events
    BY <2>1, <2>2 DEF DoneIsReported
  <2>3. CASE events # << >> /\ events' = Tail(events)
    <3>1. \A i \in 1 .. Len(Tail(events)) : i + 1 \in 1 .. Len(events) /\ Tail(events)[i] = events[i + 1]
      BY <1>0, <2>3 DEF ServerType
    <3>2. QED
      BY <2>1, <2>3, <3>1 DEF DoneIsReported
  <2>4. ASSUME NEW e \in Events, e.done => e.job \in Reported', events' = Append(events, e)
        PROVE  DoneIsReported'
    <3>1. /\ Len(events') = Len(events) + 1 /\ events'[Len(events) + 1] = e
          /\ \A i \in 1 .. Len(events) : events'[i] = events[i]
      BY <1>0, <2>4 DEF ServerType
    <3>2. \A i \in 1 .. Len(events') : i \in 1 .. Len(events) \/ i = Len(events) + 1
      BY <1>0, <3>1 DEF ServerType
    <3>3. QED
      BY <2>1, <2>4, <3>1, <3>2 DEF DoneIsReported
  <2>5. ASSUME NEW c \in Consumers, NEW j \in Jobs,
               \/ events' = Append(events, [job |-> j, done |-> FALSE])
               \/ ReportDone(c, j) /\ events' = Append(events, [job |-> j, done |-> TRUE])
        PROVE  DoneIsReported'
    <3>1. CASE events' = Append(events, [job |-> j, done |-> FALSE])
      BY <2>4, <3>1 DEF Events
    <3>2. CASE ReportDone(c, j) /\ events' = Append(events, [job |-> j, done |-> TRUE])
      <4>1. j \in Reported'
        BY <3>2, ReportMakesReported DEF ReportInv
      <4>2. QED
        BY <2>4, <3>2, <4>1 DEF Events
    <3>3. QED
      BY <2>5, <3>1, <3>2
  <2>6. QED
    BY <2>2, <2>3, <2>5, EventsStep
<1>4. ResultFromWinner'
  <2>1. ASSUME NEW j \in Jobs, told'[j] = "done", told[j] # "done"
        PROVE  j \in Reported
    <3>1. CASE OnJobStatus
      <4>1. events # << >> /\ Head(events) = events[1] /\ 1 \in 1 .. Len(events)
        BY <1>0, <3>1 DEF OnJobStatus, ServerType
      <4>2. Head(events).done /\ j = Head(events).job
        BY <1>0, <2>1, <3>1 DEF OnJobStatus, ProducerType
      <4>3. QED
        BY <4>1, <4>2 DEF ReportInv, DoneIsReported
    <3>2. CASE ScanJobs
      BY <1>0, <2>1, <3>2 DEF ScanJobs, ProducerType, tableVars
    <3>3. CASE \E k \in Jobs : Producing(k)
      BY <2>1, <3>3 DEF Producing, AddJob, ServerPosts, WriteReturns, WriteThrows, RegisterJob,
                        ServerRemoves, producerVars, tableVars
    <3>4. CASE DeleteStatusThrows \/ LoseStatusEvent \/ Tick \/ CheckShutdown \/ DestroyBegin \/ DestroyEnd
      BY <2>1, <3>4 DEF DeleteStatusThrows, LoseStatusEvent, Tick, CheckShutdown, DestroyBegin,
                        DestroyEnd, producerVars, tableVars
    <3>5. CASE ConsumerStep \/ UNCHANGED vars
      BY <2>1, <3>5, ConsumerStepFrame DEF vars, producerVars, tableVars
    <3>6. QED
      BY <3>1, <3>2, <3>3, <3>4, <3>5, StepKinds DEF ProducerStep
  <2>2. QED
    BY <1>2, <2>1 DEF ReportInv, ResultFromWinner, Reported, Winners
<1>5. QED
  BY <1>1, <1>3, <1>4 DEF ReportInv

(***************************************************************************)
(* A producer is told a result only by a consumer that was granted its job *)
(* and reported on it.                                                     *)
(***************************************************************************)
THEOREM ResultsFromWinners == SafeSpec => []ResultFromWinner
<1>1. Init => ReportInv
  <2> SUFFICES ASSUME Init
               PROVE  ReportInv
    OBVIOUS
  <2>1. /\ \A t \in Threads : step[t] = "none" /\ updates[t] = 0
        /\ \A j \in Jobs : told[j] = "none"
        /\ events = << >>
    BY DEF Init
  <2>2. QED
    BY <2>1 DEF ReportInv, GrantedBeforeWork, WorkSteps, ReportedByWinner, DoneIsReported,
                ResultFromWinner
<1>2. JobInv /\ ReportInv /\ [Next]_vars => ReportInv'
  BY ReportStep DEF JobInv
<1>3. ReportInv => ResultFromWinner
  BY DEF ReportInv
<1>4. QED
  BY <1>1, <1>2, <1>3, JobInvHolds, PTL DEF SafeSpec

-------------------------------------------------------------------------------
(***************************************************************************)
(* The Producer's futures against module Promises.                         *)
(***************************************************************************)

\* add_job_async goes on only when its write was answered.
WrittenIsPosted == \A j \in Jobs : add[j] \in {"written", "added"} => j \in posted

LEMMA PostedStep == TypeOK /\ WrittenIsPosted /\ [Next]_vars => WrittenIsPosted'
<1> SUFFICES ASSUME TypeOK, WrittenIsPosted, [Next]_vars
             PROVE  WrittenIsPosted'
  OBVIOUS
<1>0. ProducerType
  BY TypeParts
<1> USE <1>0 DEF ProducerType, WrittenIsPosted
<1>1. CASE UNCHANGED <<add, posted>>
  BY <1>1
<1>2. ASSUME NEW j \in Jobs, Producing(j)
      PROVE  WrittenIsPosted'
  BY <1>2 DEF Producing, AddJob, ServerPosts, WriteReturns, WriteThrows, RegisterJob, ServerRemoves,
              producerVars, serverVars
<1>3. CASE OnJobStatus \/ DeleteStatusThrows \/ LoseStatusEvent \/ Tick
  BY <1>1, <1>3 DEF OnJobStatus, DeleteStatusThrows, LoseStatusEvent, Tick, producerVars, serverVars
<1>4. CASE CheckShutdown \/ ScanJobs \/ DestroyBegin \/ DestroyEnd
  BY <1>1, <1>4 DEF CheckShutdown, ScanJobs, DestroyBegin, DestroyEnd, serverVars
<1>5. CASE ConsumerStep \/ UNCHANGED vars
  BY <1>1, <1>5, ConsumerStepFrame DEF vars, producerVars, serverVars
<1>6. QED
  BY <1>2, <1>3, <1>4, <1>5, StepKinds DEF ProducerStep

LEMMA PromiseStep == JobInv /\ WrittenIsPosted /\ [Next]_vars => [Promise!Next]_(Promise!vars)
<1> SUFFICES ASSUME JobInv, WrittenIsPosted, [Next]_vars
             PROVE  [Promise!Next]_(Promise!vars)
  OBVIOUS
<1> DEFINE Made == {j \in Jobs : add[j] = "added"}
           Sent == [j \in Jobs |-> IF j \in posted THEN 1 ELSE 0]
<1>0. ProducerType /\ ServerType /\ FreshJobs /\ EntryMatchesPromise
  BY TypeParts DEF JobInv, TableInv
<1> USE <1>0 DEF ProducerType
<1>1. CASE UNCHANGED <<add, told, posted, life, terminated>>
  BY <1>1 DEF Promise!vars
<1>2. ASSUME NEW j \in Jobs, Producing(j)
      PROVE  [Promise!Next]_(Promise!vars)
  <2>1. CASE AddJob(j) \/ WriteReturns(j) \/ WriteThrows(j)
    <3>1. /\ add[j] # "added" /\ \E s \in AddSteps \ {"added"} : add' = [add EXCEPT ![j] = s]
          /\ UNCHANGED <<told, posted, life, terminated>>
      BY <2>1 DEF AddJob, WriteReturns, WriteThrows, tableVars, serverVars, AddSteps
    <3>2. Made' = Made
      BY <3>1
    <3>3. QED
      BY <3>1, <3>2 DEF Promise!vars
  <2>2. CASE ServerPosts(j)
    <3>1. j \notin posted /\ posted' = posted \cup {j} /\ UNCHANGED <<add, told, life, terminated>>
      BY <2>2 DEF ServerPosts, producerVars, tableVars
    <3>2. Sent[j] = 0 /\ Sent' = [Sent EXCEPT ![j] = 1]
      BY <3>1
    <3>3. Promise!Transmit(j)
      BY <3>1, <3>2 DEF Promise!Transmit
    <3>4. QED
      BY <3>3 DEF Promise!Next
  <2>3. CASE RegisterJob(j)
    <3>1. /\ add[j] = "written" /\ add' = [add EXCEPT ![j] = "added"]
          /\ UNCHANGED <<told, posted, life, terminated>>
      BY <2>3 DEF RegisterJob, serverVars
    <3>2. j \notin Made /\ Made' = Made \cup {j}
      BY <3>1
    <3>3. {} \in SUBSET Promise!Open /\ Promise!Decide({})
      BY <3>1 DEF Promise!Decide
    <3>4. Promise!Make(j)
      BY <3>1, <3>2, <3>3 DEF Promise!Make
    <3>5. QED
      BY <3>4 DEF Promise!Next
  <2>4. CASE ServerRemoves(j)
    BY <1>1, <2>4 DEF ServerRemoves, producerVars, tableVars
  <2>5. QED
    BY <1>2, <2>1, <2>2, <2>3, <2>4 DEF Producing
<1>3. ASSUME NEW S \in SUBSET Jobs, \A j \in S : entry[j] = "waiting",
             UNCHANGED <<add, posted, life, terminated>>,
             \A j \in Jobs : told'[j] # told[j] => j \in S,
             \A j \in S : told'[j] # "none"
      PROVE  [Promise!Next]_(Promise!vars)
  <2>1. S \in SUBSET Promise!Open
    BY <1>3 DEF EntryMatchesPromise, Promise!Open
  <2>2. \A j \in S : Sent[j] > 0
    BY <1>3 DEF EntryMatchesPromise, WrittenIsPosted
  <2>3. Promise!Decide(S)
    BY <1>3, <2>1, <2>2 DEF Promise!Decide
  <2>4. Promise!Tell
    BY <1>3, <2>1, <2>3 DEF Promise!Tell
  <2>5. QED
    BY <2>4 DEF Promise!Next
<1>4. CASE OnJobStatus
  <2> DEFINE j == Head(events).job
  <2>1. j \in Jobs
    BY <1>4, EventFacts DEF OnJobStatus, ServerType
  <2>2. UNCHANGED <<add, posted, life, terminated>>
    BY <1>4 DEF OnJobStatus
  <2>3. CASE Head(events).done /\ entry[j] = "waiting"
    <3>1. told' = [told EXCEPT ![j] = "done"]
      BY <1>4, <2>3 DEF OnJobStatus
    <3>2. /\ \A k \in Jobs : told'[k] # told[k] => k \in {j}
          /\ \A k \in {j} : told'[k] # "none"
      BY <2>1, <3>1
    <3>3. {j} \in SUBSET Jobs /\ \A k \in {j} : entry[k] = "waiting"
      BY <2>1, <2>3
    <3>4. QED
      BY <1>3, <2>2, <3>2, <3>3
  <2>4. CASE ~(Head(events).done /\ entry[j] = "waiting")
    BY <1>1, <1>4, <2>2, <2>4 DEF OnJobStatus
  <2>5. QED
    BY <2>3, <2>4
<1>5. CASE DeleteStatusThrows \/ LoseStatusEvent \/ Tick \/ CheckShutdown
  BY <1>1, <1>5 DEF DeleteStatusThrows, LoseStatusEvent, Tick, CheckShutdown, producerVars,
                    tableVars, serverVars
<1>6. CASE ScanJobs
  <2>1. UNCHANGED <<add, posted, life>> /\ ~terminated
    BY <1>6 DEF ScanJobs, serverVars
  <2>2. CASE Expired \cap Satisfied # {}
    <3>1. told' = told /\ terminated'
      BY <1>6, <2>2 DEF ScanJobs, tableVars
    <3>2. CASE life = "up"
      <4>1. Promise!End
        BY <2>1, <3>1, <3>2 DEF Promise!End
      <4>2. QED
        BY <4>1 DEF Promise!Next
    <3>3. CASE life # "up"
      BY <2>1, <3>1, <3>3 DEF Promise!vars
    <3>4. QED
      BY <3>2, <3>3
  <2>3. CASE Expired \cap Satisfied = {}
    <3>1. Expired \in SUBSET Jobs /\ \A j \in Expired : entry[j] = "waiting"
      BY <2>3 DEF Expired, Satisfied
    <3>2. /\ \A j \in Jobs : told'[j] # told[j] => j \in Expired
          /\ \A j \in Expired : told'[j] # "none"
          /\ terminated' = terminated
      BY <1>6, <2>3, <3>1 DEF ScanJobs
    <3>3. QED
      BY <1>3, <2>1, <3>1, <3>2
  <2>4. QED
    BY <2>2, <2>3
<1>7. CASE DestroyBegin
  <2>1. Promise!End
    BY <1>7 DEF DestroyBegin, tableVars, serverVars, Promise!End
  <2>2. QED
    BY <2>1 DEF Promise!Next
<1>8. CASE DestroyEnd
  <2>1. UNCHANGED <<add, told, posted, terminated>> /\ life # "up" /\ life' # "up"
    BY <1>8 DEF DestroyEnd, tableVars, serverVars
  <2>2. QED
    BY <2>1 DEF Promise!vars
<1>9. CASE ConsumerStep \/ UNCHANGED vars
  BY <1>1, <1>9, ConsumerStepFrame DEF vars, producerVars, tableVars, serverVars
<1>10. QED
  BY <1>2, <1>4, <1>5, <1>6, <1>7, <1>8, <1>9, StepKinds DEF ProducerStep

(***************************************************************************)
(* The Producer keeps the promises of module Promises.                     *)
(***************************************************************************)
THEOREM ProducerKeepsPromises == SafeSpec => PromisesSafeSpec
<1>1. Init => Promise!Init /\ WrittenIsPosted
  BY DEF Init, Promise!Init, WrittenIsPosted
<1>2. JobInv /\ WrittenIsPosted /\ [Next]_vars => WrittenIsPosted'
  BY PostedStep DEF JobInv
<1>3. JobInv /\ WrittenIsPosted /\ [Next]_vars => [Promise!Next]_(Promise!vars)
  BY PromiseStep
<1>4. QED
  BY <1>1, <1>2, <1>3, JobInvHolds, PTL DEF SafeSpec, PromisesSafeSpec, Promise!SafeSpec

-------------------------------------------------------------------------------
(***************************************************************************)
(* Every future of the Producer is told something.                         *)
(***************************************************************************)

\* The timeout thread ends only for destroy().
TimeoutRuns == life = "up" => tmo \in {"check", "sleep"}

(***************************************************************************)
(* Only the timeout thread moves itself, and only destroy() moves life.    *)
(***************************************************************************)
LEMMA TimeoutMovesItself ==
  ASSUME [Next]_vars
  PROVE  /\ tmo' # tmo => CheckShutdown \/ <<ScanJobs>>_vars
         /\ life' # life => DestroyBegin \/ DestroyEnd
<1>1. CASE ProducerStep
  BY <1>1 DEF ProducerStep, Producing, AddJob, ServerPosts, WriteReturns, WriteThrows, RegisterJob,
              ServerRemoves, OnJobStatus, DeleteStatusThrows, LoseStatusEvent, Tick, CheckShutdown,
              ScanJobs, DestroyBegin, DestroyEnd, vars, producerVars, tableVars
<1>2. CASE ConsumerStep
  BY <1>2, ConsumerStepFrame DEF producerVars
<1>3. CASE UNCHANGED vars
  BY <1>3 DEF vars, producerVars
<1>4. QED
  BY <1>1, <1>2, <1>3, StepKinds

LEMMA TimeoutRunsHolds == SafeSpec => []TimeoutRuns
<1>1. Init => TimeoutRuns
  BY DEF Init, TimeoutRuns
<1>2. TimeoutRuns /\ [Next]_vars => TimeoutRuns'
  BY TimeoutMovesItself DEF TimeoutRuns, CheckShutdown, ScanJobs, DestroyBegin, DestroyEnd,
                            tableVars
<1>3. QED
  BY <1>1, <1>2, PTL DEF SafeSpec

\* A future without a result, one past its overall timeout, and the end of the wait.
Undecided(k) == add[k] = "added" /\ told[k] = "none"
Over == life # "up" \/ terminated
Late(k) == Undecided(k) /\ ~Over /\ total[k] > JobTimeout
DecidedOrOver(k) == told[k] # "none" \/ Over

(***************************************************************************)
(* A job past its overall timeout stays so, whatever its status, until its *)
(* future is told something.                                               *)
(***************************************************************************)
LEMMA LateStays ==
  ASSUME TypeOK, [Next]_vars, NEW k \in Jobs
  PROVE  /\ Undecided(k) => Undecided(k)' \/ DecidedOrOver(k)'
         /\ Late(k) => Late(k)' \/ DecidedOrOver(k)'
<1>0. ProducerType
  BY TypeParts
<1> USE <1>0 DEF ProducerType, Undecided, Late, DecidedOrOver
<1>1. CASE UNCHANGED <<add, total>>
  BY <1>1 DEF Over
<1>2. ASSUME NEW j \in Jobs, Producing(j), Undecided(k)
      PROVE  Undecided(k)' /\ total'[k] = total[k]
  BY <1>2 DEF Producing, AddJob, ServerPosts, WriteReturns, WriteThrows, RegisterJob, ServerRemoves,
              producerVars, tableVars
<1>3. CASE Tick
  <2>1. add' = add /\ (Late(k) => total'[k] > JobTimeout)
    <3>1. total[k] \in 0 .. JobTimeout + 1 /\ total'[k] \in {total[k], total[k] + 1}
      BY <1>3 DEF Tick
    <3>2. QED
      BY <1>3, <3>1, JobsAssumption DEF Tick
  <2>2. QED
    BY <2>1 DEF Over
<1>4. CASE ScanJobs
  <2>1. CASE Expired \cap Satisfied # {}
    BY <1>1, <1>4, <2>1 DEF ScanJobs, tableVars
  <2>2. CASE Expired \cap Satisfied = {}
    <3>1. add' = add
      BY <1>4 DEF ScanJobs
    <3>2. k \notin Expired => total'[k] = total[k]
      BY <1>4, <2>2 DEF ScanJobs
    <3>3. k \in Expired => told'[k] # "none"
      BY <1>4, <2>2 DEF ScanJobs
    <3>4. QED
      BY <3>1, <3>2, <3>3 DEF Over
  <2>3. QED
    BY <2>1, <2>2
<1>5. CASE \/ OnJobStatus \/ DeleteStatusThrows \/ LoseStatusEvent \/ CheckShutdown
           \/ DestroyBegin \/ DestroyEnd
  BY <1>1, <1>5 DEF OnJobStatus, DeleteStatusThrows, LoseStatusEvent, CheckShutdown, DestroyBegin,
                    DestroyEnd, producerVars, tableVars
<1>6. CASE ConsumerStep \/ UNCHANGED vars
  BY <1>1, <1>6, ConsumerStepFrame DEF vars, producerVars, tableVars
<1>7. CASE \E j \in Jobs : Producing(j)
  BY <1>2, <1>7 DEF Over
<1>8. QED
  BY <1>3, <1>4, <1>5, <1>6, <1>7, StepKinds DEF ProducerStep

(***************************************************************************)
(* The scan tells whoever is late, or ends the process.                    *)
(***************************************************************************)
LEMMA ScanTells ==
  ASSUME JobInv, ScanJobs, NEW k \in Jobs, Late(k)
  PROVE  DecidedOrOver(k)'
<1>1. k \in Expired
  BY DEF JobInv, TableInv, EntryMatchesPromise, Late, Undecided, Expired
<1>2. QED
  BY <1>1 DEF ScanJobs, DecidedOrOver, Over

LEMMA DecidedInTime ==
  ASSUME NEW k \in Jobs
  PROVE  SafeSpec /\ TimeoutsGoOn => (Undecided(k) ~> DecidedOrOver(k))
<1> DEFINE Asleep == Late(k) /\ tmo = "sleep"
           Scannable == ~terminated /\ tmo = "sleep" /\ JobsMutexFree
<1>1. /\ JobInv /\ Undecided(k) =>
           (entry[k] = "absent" \/ total[k] > JobTimeout \/ terminated
              => Late(k) \/ DecidedOrOver(k))
      /\ terminated => DecidedOrOver(k)
  BY DEF JobInv, TableInv, EntryMatchesPromise, Undecided, Late, DecidedOrOver, Over
<1>2. JobInv /\ [Next]_vars =>
        /\ Undecided(k) => Undecided(k)' \/ DecidedOrOver(k)'
        /\ Late(k) => Late(k)' \/ DecidedOrOver(k)'
  BY LateStays DEF JobInv
<1>3. TimeoutRuns /\ Late(k) => ~(tmo # "check") \/ Asleep
  BY DEF TimeoutRuns, Late, Over
<1>4. JobInv /\ [Next]_vars => (Asleep => Asleep' \/ <<ScanJobs>>_vars \/ DecidedOrOver(k)')
  BY LateStays, TimeoutMovesItself DEF JobInv, CheckShutdown
<1>5. JobInv /\ Late(k) /\ <<ScanJobs>>_vars => DecidedOrOver(k)'
  BY ScanTells
<1>6. Asleep /\ JobsMutexFree => Scannable
  BY DEF Late, Over
<1>7. TimeoutsGoOn => /\ []<>(tmo # "check" \/ terminated)
                      /\ []<>(JobsMutexFree \/ terminated)
                      /\ <>[]~Scannable \/ []<><<ScanJobs>>_vars
                      /\ []<>(entry[k] = "absent" \/ total[k] > JobTimeout \/ terminated)
  BY DEF TimeoutsGoOn
<1> HIDE DEF Scannable
<1>8. QED
  BY <1>1, <1>2, <1>3, <1>4, <1>5, <1>6, <1>7, JobInvHolds, TimeoutRunsHolds, PTL DEF SafeSpec

(***************************************************************************)
(* The Producer implements Promises, its liveness included: each future is *)
(* told a result, although no consumer exists, events are lost and other   *)
(* jobs block the I/O thread, unless destroy() is called or the process    *)
(* ends.                                                                   *)
(***************************************************************************)
THEOREM ProducerKeepsEveryPromise == SafeSpec /\ TimeoutsGoOn => PromisesSpec
<1>1. SafeSpec /\ TimeoutsGoOn => Promise!Kept
  <2> SUFFICES ASSUME NEW k \in Jobs
               PROVE  SafeSpec /\ TimeoutsGoOn =>
                        (k \in Promise!Open ~> (k \notin Promise!Open \/ (life # "up" \/ terminated)))
    BY DEF Promise!Kept
  <2>1. /\ k \in Promise!Open => Undecided(k)
        /\ DecidedOrOver(k) => k \notin Promise!Open \/ (life # "up" \/ terminated)
    BY DEF Promise!Open, Undecided, DecidedOrOver, Over
  <2>2. SafeSpec /\ TimeoutsGoOn => (Undecided(k) ~> DecidedOrOver(k))
    BY DecidedInTime
  <2>3. QED
    BY <2>1, <2>2, PTL
<1>2. QED
  BY <1>1, ProducerKeepsPromises, PTL DEF PromisesSafeSpec, PromisesSpec, Promise!Spec
===============================================================================
