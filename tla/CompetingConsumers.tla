--------------------------- MODULE CompetingConsumers ---------------------------
(***************************************************************************)
(* The job pattern: a Producer that posts jobs and waits for their status, *)
(* and CompetingConsumers that claim a job by creating its status entry    *)
(* (write with failIfExists), run it on a worker and report.  Each         *)
(* consumer is a process with a detached thread per job it was offered.    *)
(* The server stores the status entries and broadcasts every write to the  *)
(* other clients; what is on its way can be lost.                          *)
(*                                                                         *)
(* A request made in a listener callback is never answered, since it       *)
(* blocks the thread that reads the answers (module Requests); the         *)
(* producer's delete_key in OnJobStatus is such a request.                 *)
(***************************************************************************)
EXTENDS Integers, Sequences, FiniteSets

CONSTANTS
  Jobs,             \* the jobs, each added once
  Consumers,        \* the consumer processes
  Workers,          \* the workers each of them has
  JobTimeout,       \* Producer::timeout_, in ticks
  ProgressTimeout,  \* Producer::progress_timeout_, in ticks
  MaxUpdates        \* bound: status updates a work handler writes per job

ASSUME JobsAssumption ==
  /\ JobTimeout \in Nat
  /\ ProgressTimeout \in Nat
  /\ MaxUpdates \in Nat

VARIABLES
  add,       \* where add_job_async is, for each job
  entry,     \* the job's entry in pending_jobs_
  told,      \* what the job's promise was given
  total,     \* ticks since publish_time
  quiet,     \* ticks since last_progress
  deleting,  \* the job whose delete_key holds the producer's I/O thread and jobs_mutex_
  tmo,       \* where the producer's timeout thread is
  life,      \* how far destroy() of the producer got
  terminated, \* the timeout thread's exception ended the producer's process
  posted,    \* jobs the server has stored
  offered,   \* job events on their way to consumers
  status,    \* the status entries the server stores
  events,    \* status events on their way to the producer, in order
  removing,  \* the producer's delete_key messages on their way
  step,      \* where each consumer's thread for a job is
  held,      \* the worker that thread was given
  free,      \* each consumer's workers with available_ set
  claims,    \* claims on their way to the server
  verdict,   \* the server's answer to the claim
  updates,   \* status updates written by the work handler
  jobCount,  \* job_count_
  crashed    \* consumers ended by an uncaught exception

tableVars == <<entry, told, total, quiet>>
producerVars == <<add, tableVars, deleting, tmo, life, terminated>>
serverVars == <<posted, offered, status, events, removing>>
consumerVars == <<step, held, free, claims, verdict, updates, jobCount, crashed>>
vars == <<producerVars, serverVars, consumerVars>>

Threads == Consumers \X Jobs

AddSteps == {"idle", "writing", "written", "added", "threw"}
Steps == {"none", "query", "found", "claim", "delete", "work", "returned", "end", "threw"}

(***************************************************************************)
(* The one type invariant of the module.                                   *)
(***************************************************************************)
TypeOK ==
  /\ add \in [Jobs -> AddSteps]
  /\ entry \in [Jobs -> {"absent", "waiting", "satisfied"}]
  /\ told \in [Jobs -> {"none", "done", "timeout", "progress_timeout"}]
  /\ total \in [Jobs -> 0 .. JobTimeout + 1]
  /\ quiet \in [Jobs -> 0 .. ProgressTimeout + 1]
  /\ deleting \subseteq Jobs
  /\ tmo \in {"check", "sleep", "exit"}
  /\ life \in {"up", "shutdown", "destroyed"}
  /\ terminated \in BOOLEAN
  /\ posted \subseteq Jobs
  /\ offered \subseteq Threads
  /\ status \in [Jobs -> {"absent", "open", "done"}]
  /\ events \in Seq([job : Jobs, done : BOOLEAN])
  /\ removing \subseteq Jobs
  /\ step \in [Threads -> Steps]
  /\ held \in [Threads -> SUBSET Workers]
  /\ free \in [Consumers -> SUBSET Workers]
  /\ claims \subseteq Threads
  /\ verdict \in [Threads -> {"none", "won", "lost"}]
  /\ updates \in [Threads -> 0 .. MaxUpdates]
  /\ jobCount \in [Consumers -> Int]
  /\ crashed \subseteq Consumers

\* jobs_mutex_ is held while OnJobStatus waits for its delete_key.
JobsMutexFree == deleting = {}

Satisfied == {j \in Jobs : entry[j] = "satisfied"}

Expired ==
  {j \in Jobs : entry[j] # "absent" /\ (quiet[j] > ProgressTimeout \/ total[j] > JobTimeout)}

Init ==
  /\ add = [j \in Jobs |-> "idle"]
  /\ entry = [j \in Jobs |-> "absent"]
  /\ told = [j \in Jobs |-> "none"]
  /\ total = [j \in Jobs |-> 0]
  /\ quiet = [j \in Jobs |-> 0]
  /\ deleting = {}
  /\ tmo = "check"
  /\ life = "up"
  /\ terminated = FALSE
  /\ posted = {}
  /\ offered = {}
  /\ status = [j \in Jobs |-> "absent"]
  /\ events = << >>
  /\ removing = {}
  /\ step = [t \in Threads |-> "none"]
  /\ held = [t \in Threads |-> {}]
  /\ free = [c \in Consumers |-> Workers]
  /\ claims = {}
  /\ verdict = [t \in Threads |-> "none"]
  /\ updates = [t \in Threads |-> 0]
  /\ jobCount = [c \in Consumers |-> 0]
  /\ crashed = {}

-------------------------------------------------------------------------------
(* Producer::add_job_async: the job is written, then its entry is made.    *)

AddJob(j) ==
  /\ ~terminated /\ add[j] = "idle"
  /\ add' = [add EXCEPT ![j] = "writing"]
  /\ UNCHANGED <<tableVars, deleting, tmo, life, terminated, serverVars, consumerVars>>

\* The write may reach the server after the call that made it has failed.
ServerPosts(j) ==
  /\ add[j] \in {"writing", "threw"} /\ j \notin posted
  /\ posted' = posted \cup {j}
  /\ offered' = offered \cup (Consumers \X {j})
  /\ UNCHANGED <<producerVars, status, events, removing, consumerVars>>

WriteReturns(j) ==
  /\ ~terminated /\ add[j] = "writing" /\ j \in posted
  /\ add' = [add EXCEPT ![j] = "written"]
  /\ UNCHANGED <<tableVars, deleting, tmo, life, terminated, serverVars, consumerVars>>

\* A failed or unanswered write leaves add_job_async by its exception.
WriteThrows(j) ==
  /\ ~terminated /\ add[j] = "writing"
  /\ add' = [add EXCEPT ![j] = "threw"]
  /\ UNCHANGED <<tableVars, deleting, tmo, life, terminated, serverVars, consumerVars>>

\* Seeded bug: last_progress is left at the clock's epoch.
RegisterWithoutProgress(j) ==
  /\ ~terminated /\ add[j] = "written" /\ JobsMutexFree
  /\ add' = [add EXCEPT ![j] = "added"]
  /\ entry' = [entry EXCEPT ![j] = "waiting"]
  /\ total' = [total EXCEPT ![j] = 0]
  /\ quiet' = [quiet EXCEPT ![j] = ProgressTimeout + 2]
  /\ UNCHANGED <<told, deleting, tmo, life, terminated, serverVars, consumerVars>>

RegisterJob(j) ==
  /\ ~terminated /\ add[j] = "written" /\ JobsMutexFree
  /\ add' = [add EXCEPT ![j] = "added"]
  /\ entry' = [entry EXCEPT ![j] = "waiting"]
  /\ total' = [total EXCEPT ![j] = 0]
  /\ quiet' = [quiet EXCEPT ![j] = 0]
  /\ UNCHANGED <<told, deleting, tmo, life, terminated, serverVars, consumerVars>>

-------------------------------------------------------------------------------
(* Producer::OnJobStatus, on the I/O thread of the producer's connection.  *)

\* The event of a job that is not pending is ignored.  The first final status
\* satisfies the promise and starts delete_key; another one throws at the
\* satisfied promise, which the connection's dispatcher catches.
OnJobStatus ==
  /\ ~terminated /\ life # "destroyed" /\ JobsMutexFree /\ events # << >>
  /\ events' = Tail(events)
  /\ LET j == Head(events).job
     IN /\ quiet' = IF entry[j] = "absent" THEN quiet ELSE [quiet EXCEPT ![j] = 0]
        /\ IF Head(events).done /\ entry[j] = "waiting"
             THEN /\ told' = [told EXCEPT ![j] = "done"]
                  /\ entry' = [entry EXCEPT ![j] = "satisfied"]
                  /\ deleting' = {j}
                  /\ removing' = removing \cup {j}
             ELSE UNCHANGED <<told, entry, deleting, removing>>
  /\ UNCHANGED <<add, total, tmo, life, terminated, posted, offered, status, consumerVars>>

\* Seeded bug: the handler of that exception takes jobs_mutex_ again.
DeleteStatusRelocks ==
  /\ ~terminated /\ deleting # {} /\ JobsMutexFree
  /\ deleting' = {}
  /\ UNCHANGED <<add, tableVars, tmo, life, terminated, serverVars, consumerVars>>

\* Nothing can answer delete_key here: it ends by its timeout, and the
\* exception skips the erase of the entry.
DeleteStatusThrows ==
  /\ ~terminated /\ deleting # {}
  /\ deleting' = {}
  /\ UNCHANGED <<add, tableVars, tmo, life, terminated, serverVars, consumerVars>>

\* The message of that delete_key reaches the server all the same.
ServerRemoves(j) ==
  /\ j \in removing
  /\ removing' = removing \ {j}
  /\ status' = [status EXCEPT ![j] = "absent"]
  /\ UNCHANGED <<producerVars, posted, offered, events, consumerVars>>

\* A status event is lost with the producer's link.
LoseStatusEvent ==
  /\ events # << >>
  /\ events' = Tail(events)
  /\ UNCHANGED <<producerVars, posted, offered, status, removing, consumerVars>>

-------------------------------------------------------------------------------
(* The clock, Producer::CheckTimeouts and Producer::destroy.               *)

Tick ==
  /\ ~terminated
  /\ \E j \in Jobs : /\ entry[j] # "absent"
                     /\ total[j] <= JobTimeout \/ quiet[j] <= ProgressTimeout
  /\ total' = [j \in Jobs |-> IF entry[j] # "absent" /\ total[j] <= JobTimeout
                              THEN total[j] + 1 ELSE total[j]]
  /\ quiet' = [j \in Jobs |-> IF entry[j] # "absent" /\ quiet[j] <= ProgressTimeout
                              THEN quiet[j] + 1 ELSE quiet[j]]
  /\ UNCHANGED <<add, entry, told, deleting, tmo, life, terminated, serverVars, consumerVars>>

\* Seeded bug: the thread ends when nothing is pending.
CheckShutdownOrIdle ==
  /\ ~terminated /\ tmo = "check"
  /\ tmo' = IF life = "up" /\ \E j \in Jobs : entry[j] # "absent" THEN "sleep" ELSE "exit"
  /\ UNCHANGED <<add, tableVars, deleting, life, terminated, serverVars, consumerVars>>

CheckShutdown ==
  /\ ~terminated /\ tmo = "check"
  /\ tmo' = IF life = "up" THEN "sleep" ELSE "exit"
  /\ UNCHANGED <<add, tableVars, deleting, life, terminated, serverVars, consumerVars>>

\* Seeded bug: an expired entry is told its timeout and not erased.
ScanKeepsEntry ==
  /\ ~terminated /\ tmo = "sleep" /\ JobsMutexFree
  /\ IF Expired \cap Satisfied # {}
       THEN terminated' = TRUE /\ UNCHANGED <<entry, told, tmo>>
       ELSE /\ told' = [j \in Jobs |-> IF j \in Expired THEN "timeout" ELSE told[j]]
            /\ entry' = [j \in Jobs |-> IF j \in Expired THEN "satisfied" ELSE entry[j]]
            /\ tmo' = "check"
            /\ UNCHANGED terminated
  /\ UNCHANGED <<add, total, quiet, deleting, life, serverVars, consumerVars>>

\* set_exception throws at an expired entry whose promise is satisfied, and
\* nothing on this thread catches.
ScanJobs ==
  /\ ~terminated /\ tmo = "sleep" /\ JobsMutexFree
  /\ IF Expired \cap Satisfied # {}
       THEN terminated' = TRUE /\ UNCHANGED <<tableVars, tmo>>
       ELSE /\ told' = [j \in Jobs |-> IF j \notin Expired THEN told[j]
                                       ELSE IF quiet[j] > ProgressTimeout
                                            THEN "progress_timeout" ELSE "timeout"]
            /\ entry' = [j \in Jobs |-> IF j \in Expired THEN "absent" ELSE entry[j]]
            /\ total' = [j \in Jobs |-> IF j \in Expired THEN 0 ELSE total[j]]
            /\ quiet' = [j \in Jobs |-> IF j \in Expired THEN 0 ELSE quiet[j]]
            /\ tmo' = "check"
            /\ UNCHANGED terminated
  /\ UNCHANGED <<add, deleting, life, serverVars, consumerVars>>

DestroyBegin ==
  /\ ~terminated /\ life = "up"
  /\ life' = "shutdown"
  /\ UNCHANGED <<add, tableVars, deleting, tmo, terminated, serverVars, consumerVars>>

\* The timeout thread is joined, then the listener is removed.
DestroyEnd ==
  /\ ~terminated /\ life = "shutdown" /\ tmo = "exit"
  /\ life' = "destroyed"
  /\ UNCHANGED <<add, tableVars, deleting, tmo, terminated, serverVars, consumerVars>>

-------------------------------------------------------------------------------
(* CompetingConsumer::OnJobReceived and the detached JobHandler thread.    *)

Running(c, j, s) == c \notin crashed /\ step[<<c, j>>] = s

OnJobReceived(c, j) ==
  /\ Running(c, j, "none") /\ <<c, j>> \in offered
  /\ offered' = offered \ {<<c, j>>}
  /\ step' = [step EXCEPT ![<<c, j>>] = "query"]
  /\ UNCHANGED <<producerVars, posted, status, events, removing, held, free, claims, verdict,
                 updates, jobCount, crashed>>

\* The event is lost, the consumer was destroyed, or it rejects the job.
DropOffer(c, j) ==
  /\ <<c, j>> \in offered
  /\ offered' = offered \ {<<c, j>>}
  /\ UNCHANGED <<producerVars, posted, status, events, removing, consumerVars>>

\* WaitForWorker asks the application's handler until it has a worker.  The
\* handler tests is_available() ...
FindWorker(c, j) ==
  /\ Running(c, j, "query")
  /\ \E w \in free[c] : held' = [held EXCEPT ![<<c, j>>] = {w}]
  /\ step' = [step EXCEPT ![<<c, j>>] = "found"]
  /\ UNCHANGED <<producerVars, serverVars, free, claims, verdict, updates, jobCount, crashed>>

\* ... and calls set_available(false) later; the claim is sent next.
TakeWorker(c, j) ==
  /\ Running(c, j, "found")
  /\ free' = [free EXCEPT ![c] = @ \ held[<<c, j>>]]
  /\ claims' = claims \cup {<<c, j>>}
  /\ step' = [step EXCEPT ![<<c, j>>] = "claim"]
  /\ UNCHANGED <<producerVars, serverVars, held, verdict, updates, jobCount, crashed>>

\* kJobNotSupported or another error ends the thread.
RefuseJob(c, j) ==
  /\ Running(c, j, "query")
  /\ step' = [step EXCEPT ![<<c, j>>] = "end"]
  /\ UNCHANGED <<producerVars, serverVars, held, free, claims, verdict, updates, jobCount, crashed>>

\* Seeded bug: the claim is written without failIfExists.
ServerClaimsAlways(c, j) ==
  /\ <<c, j>> \in claims
  /\ claims' = claims \ {<<c, j>>}
  /\ status' = [status EXCEPT ![j] = "open"]
  /\ events' = Append(events, [job |-> j, done |-> FALSE])
  /\ verdict' = IF Running(c, j, "claim") THEN [verdict EXCEPT ![<<c, j>>] = "won"] ELSE verdict
  /\ UNCHANGED <<producerVars, posted, offered, removing, step, held, free, updates, jobCount,
                 crashed>>

\* failIfExists: the first claim creates the status entry.  The answer reaches
\* a thread that still waits for it.
ServerClaims(c, j) ==
  /\ <<c, j>> \in claims
  /\ claims' = claims \ {<<c, j>>}
  /\ IF status[j] = "absent"
       THEN /\ status' = [status EXCEPT ![j] = "open"]
            /\ events' = Append(events, [job |-> j, done |-> FALSE])
       ELSE UNCHANGED <<status, events>>
  /\ verdict' = IF Running(c, j, "claim")
                THEN [verdict EXCEPT ![<<c, j>>] = IF status[j] = "absent" THEN "won" ELSE "lost"]
                ELSE verdict
  /\ UNCHANGED <<producerVars, posted, offered, removing, step, held, free, updates, jobCount,
                 crashed>>

ClaimReturns(c, j) ==
  /\ Running(c, j, "claim") /\ verdict[<<c, j>>] = "won"
  /\ step' = [step EXCEPT ![<<c, j>>] = "delete"]
  /\ UNCHANGED <<producerVars, serverVars, held, free, claims, verdict, updates, jobCount, crashed>>

\* An exception in JobHandler releases the worker and is thrown on, out of the
\* detached thread: the consumer's process ends.
Rethrow(c, j) ==
  /\ free' = [free EXCEPT ![c] = @ \cup held[<<c, j>>]]
  /\ step' = [step EXCEPT ![<<c, j>>] = "threw"]
  /\ crashed' = crashed \cup {c}
  /\ UNCHANGED <<producerVars, serverVars, held, claims, verdict, updates, jobCount>>

\* Seeded bug: a refused claim is caught and the job is worked on all the same.
ClaimRefusedWorks(c, j) ==
  /\ Running(c, j, "claim") /\ verdict[<<c, j>>] # "none"
  /\ step' = [step EXCEPT ![<<c, j>>] = "delete"]
  /\ UNCHANGED <<producerVars, serverVars, held, free, claims, verdict, updates, jobCount, crashed>>

\* write reports a refused claim as a runtime_error, as it does a timeout or a
\* failed send: the handler for AlreadyExistsError is never reached.
ClaimThrows(c, j) == Running(c, j, "claim") /\ Rethrow(c, j)

\* The job is deleted from the queue, which nobody reads again, and counted.
DeleteJob(c, j) ==
  /\ Running(c, j, "delete")
  /\ step' = [step EXCEPT ![<<c, j>>] = "work"]
  /\ jobCount' = [jobCount EXCEPT ![c] = @ + 1]
  /\ UNCHANGED <<producerVars, serverVars, held, free, claims, verdict, updates, crashed>>

DeleteJobThrows(c, j) == Running(c, j, "delete") /\ Rethrow(c, j)

\* The work handler returns, or there is none, and the thread ends.  Nothing
\* here gives the worker back; that is left to the application.
WorkReturns(c, j) ==
  /\ Running(c, j, "work")
  /\ step' = [step EXCEPT ![<<c, j>>] = "returned"]
  /\ UNCHANGED <<producerVars, serverVars, held, free, claims, verdict, updates, jobCount, crashed>>

\* The work handler was given its two callbacks and may keep copies of them.
CallbacksHeld(c, j) == Running(c, j, "work") \/ Running(c, j, "returned")

\* They are called in any order and number; done only decrements the count if
\* its write fails.
ReportProgress(c, j) ==
  /\ CallbacksHeld(c, j) /\ updates[<<c, j>>] < MaxUpdates
  /\ updates' = [updates EXCEPT ![<<c, j>>] = @ + 1]
  /\ status' = [status EXCEPT ![j] = "open"]
  /\ events' = Append(events, [job |-> j, done |-> FALSE])
  /\ UNCHANGED <<producerVars, posted, offered, removing, step, held, free, claims, verdict,
                 jobCount, crashed>>

ReportDone(c, j) ==
  /\ CallbacksHeld(c, j) /\ updates[<<c, j>>] < MaxUpdates
  /\ updates' = [updates EXCEPT ![<<c, j>>] = @ + 1]
  /\ jobCount' = [jobCount EXCEPT ![c] = @ - 1]
  /\ \/ /\ status' = [status EXCEPT ![j] = "done"]
        /\ events' = Append(events, [job |-> j, done |-> TRUE])
     \/ UNCHANGED <<status, events>>
  /\ UNCHANGED <<producerVars, posted, offered, removing, step, held, free, claims, verdict,
                 crashed>>

\* The work handler throws.
WorkThrows(c, j) == Running(c, j, "work") /\ Rethrow(c, j)

-------------------------------------------------------------------------------
Producing(j) ==
  \/ AddJob(j) \/ ServerPosts(j) \/ WriteReturns(j) \/ WriteThrows(j) \/ RegisterJob(j)
  \/ ServerRemoves(j)

Consuming(c, j) ==
  \/ OnJobReceived(c, j) \/ DropOffer(c, j)
  \/ FindWorker(c, j) \/ TakeWorker(c, j) \/ RefuseJob(c, j)
  \/ ServerClaims(c, j) \/ ClaimReturns(c, j) \/ ClaimThrows(c, j)
  \/ DeleteJob(c, j) \/ DeleteJobThrows(c, j)
  \/ WorkReturns(c, j) \/ ReportProgress(c, j) \/ ReportDone(c, j) \/ WorkThrows(c, j)

Next ==
  \/ \E j \in Jobs : Producing(j)
  \/ \E c \in Consumers, j \in Jobs : Consuming(c, j)
  \/ OnJobStatus \/ DeleteStatusThrows \/ LoseStatusEvent
  \/ Tick \/ CheckShutdown \/ ScanJobs \/ DestroyBegin \/ DestroyEnd

SafeSpec == Init /\ [][Next]_vars

(***************************************************************************)
(* The producer's timeout thread is scheduled, time passes, and a request  *)
(* in a callback ends by its timeout.  Consumers and the server owe        *)
(* nothing.                                                                *)
(***************************************************************************)
Fairness ==
  /\ WF_vars(Tick)
  /\ WF_vars(CheckShutdown)
  /\ WF_vars(ScanJobs)
  /\ WF_vars(DeleteStatusThrows)

Spec == SafeSpec /\ Fairness

-------------------------------------------------------------------------------
(* Properties.                                                             *)

\* The consumers that were granted job j.
Winners(j) == {c \in Consumers : verdict[<<c, j>>] = "won"}

(***************************************************************************)
(* The claim is exclusive as long as the producer waits: before it is told *)
(* that the job is done one consumer at most was granted it, and later one *)
(* more at most, because the status entry is removed once at most.         *)
(***************************************************************************)
ClaimsPerJob ==
  \A j \in Jobs : Cardinality(Winners(j)) <= IF told[j] = "done" THEN 2 ELSE 1

(***************************************************************************)
(* The result a producer is given comes from a consumer that was granted   *)
(* the job: neither one whose claim was refused, nor one whose claim was   *)
(* applied only after it had given up, reports on it.                      *)
(***************************************************************************)
ResultFromWinner ==
  \A j \in Jobs : told[j] = "done" => \E c \in Winners(j) : updates[<<c, j>>] > 0

(***************************************************************************)
(* No pending job is forgotten: an added job that was told nothing has its *)
(* entry, an entry that waits was told nothing, and one that is satisfied  *)
(* was told its result.                                                    *)
(***************************************************************************)
EntryMatchesPromise ==
  \A j \in Jobs :
    /\ entry[j] = "waiting" <=> add[j] = "added" /\ told[j] = "none"
    /\ entry[j] = "satisfied" => told[j] = "done"

(***************************************************************************)
(* The producer's process is ended by its timeout thread only after a job  *)
(* was done: by the entry that the failed delete_key left behind.          *)
(***************************************************************************)
TerminatedByFinishedJob ==
  terminated => \E j \in Jobs : told[j] = "done" /\ entry[j] = "satisfied"

(***************************************************************************)
(* A future is given one result: a late status or timeout changes nothing. *)
(***************************************************************************)
ToldOnce == [][\A j \in Jobs : told[j] # "none" => told'[j] = told[j]]_vars

(***************************************************************************)
(* What the liveness of the futures rests on: the timeout thread goes from *)
(* pass to pass, the delete_key of a callback ends, the thread gets        *)
(* jobs_mutex_ at some time, and an entry is gone or older than timeout_.  *)
(* The code counts that age from publish_time and never from a status,     *)
(* against what the documentation says of progress: this is no claim that  *)
(* it should, see ProgressPreventsTimeouts of module RequestReply.         *)
(***************************************************************************)
TimeoutsGoOn ==
  /\ []<>(tmo # "check" \/ terminated)
  /\ []<>(JobsMutexFree \/ terminated)
  /\ <>[]~(~terminated /\ tmo = "sleep" /\ JobsMutexFree) \/ []<><<ScanJobs>>_vars
  /\ \A k \in Jobs : []<>(entry[k] = "absent" \/ total[k] > JobTimeout \/ terminated)

(***************************************************************************)
(* The Producer keeps the promises of module Promises: a job's future is   *)
(* given one result, its outcome only if the job was posted, and it is     *)
(* given something even if no consumer exists, its events are lost or      *)
(* another job's status blocks the I/O thread.  destroy() and the end of   *)
(* the process are the exceptions.                                         *)
(***************************************************************************)
Promise == INSTANCE Promises WITH
  Calls <- Jobs,
  Answers <- {"done"},
  made <- {j \in Jobs : add[j] = "added"},
  sent <- [j \in Jobs |-> IF j \in posted THEN 1 ELSE 0],
  over <- life # "up" \/ terminated

PromisesSafeSpec == Promise!SafeSpec
PromisesSpec == Promise!Spec

(***************************************************************************)
(* The documented claim (cachearoo_messaging.cc: "Job already taken by     *)
(* another consumer"): a job is granted to one consumer.                   *)
(***************************************************************************)
JobRunsOnce == \A j \in Jobs : Cardinality(Winners(j)) <= 1
=============================================================================
