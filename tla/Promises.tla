-------------------------------- MODULE Promises --------------------------------
(***************************************************************************)
(* What the three tables of pending promises have in common, seen by their *)
(* callers: AddRequest's, Requestor's and Producer's.  A call hands its    *)
(* caller a future and has one message for the other side.  The message is *)
(* transmitted once at most, before the promise exists, while it waits, or *)
(* after its caller was told that the call failed; the promise is decided  *)
(* once, and by an answer only if the message was transmitted; and every   *)
(* promise is decided as long as its owner is neither shut down nor ended. *)
(* This is an abstract specification: the detailed modules implement it.   *)
(***************************************************************************)
EXTENDS Naturals

CONSTANTS
  Calls,    \* the calls, each made once
  Answers   \* the results that only the other side can give

VARIABLES
  made,  \* the calls whose future was made
  sent,  \* how often each call's message was transmitted
  told,  \* the result each promise was given, or "none"
  over   \* the owner is being shut down, or its process ended

vars == <<made, sent, told, over>>

Open == {k \in made : told[k] = "none"}

Init ==
  /\ made = {}
  /\ sent = [k \in Calls |-> 0]
  /\ told = [k \in Calls |-> "none"]
  /\ over = FALSE

\* The promises of some open calls are decided, and no others.
Decide(S) ==
  /\ S \subseteq Open
  /\ \A k \in Calls : told'[k] # told[k] => k \in S
  /\ \A k \in S : told'[k] # "none" /\ (told'[k] \in Answers => sent[k] > 0)

\* A future is made; a promise its own replaces is broken.
Make(k) ==
  /\ k \notin made
  /\ made' = made \cup {k}
  /\ \E S \in SUBSET Open : Decide(S)
  /\ UNCHANGED <<sent, over>>

Transmit(k) ==
  /\ sent[k] = 0
  /\ sent' = [sent EXCEPT ![k] = 1]
  /\ UNCHANGED <<made, told, over>>

Tell ==
  /\ \E S \in SUBSET Open : Decide(S)
  /\ UNCHANGED <<made, sent, over>>

End ==
  /\ ~over
  /\ over' = TRUE
  /\ UNCHANGED <<made, sent, told>>

Next ==
  \/ \E k \in Calls : Make(k) \/ Transmit(k)
  \/ Tell
  \/ End

SafeSpec == Init /\ [][Next]_vars

\* Every future gets its result.
Kept == \A k \in Calls : k \in Open ~> (k \notin Open \/ over)

Spec == SafeSpec /\ Kept
===============================================================================
