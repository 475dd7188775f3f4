----------------------------- MODULE MCListeners -----------------------------
(* Instances of Listeners for TLC. *)
EXTENDS Listeners

Bars == <<"*", "|", "*">>

\* Two pairs of names that join to one event key; each has a wildcard, and one
\* event matches both.
MCPattern == [r \in Listeners |-> IF r = "left" THEN <<Wildcard, Bars>> ELSE <<Bars, Wildcard>>]

MCEvents == {<<Bars, Bars>>}
==============================================================================
