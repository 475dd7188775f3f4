------------------------------- MODULE MCSignals -------------------------------
(* Instances of Signals for TLC: names of up to three bytes, a header that *)
(* holds two bytes of each, and 16 bytes.                                  *)
EXTENDS Signals

MCCall(kind, type, bucket, key) ==
  [kind |-> kind, type |-> type, bucket |-> bucket, key |-> key, value |-> <<7>>]

\* A text and a binary signal under the same names, which fill the header; a
\* binary one whose bucket is longer and whose type overflows; a stray message.
MCSignal ==
  [s \in Signals |->
     CASE s = "text"  -> MCCall("text", 0, <<1, 2>>, <<3>>)
       [] s = "short" -> MCCall("binary", 5, <<1, 2>>, <<3>>)
       [] s = "long"  -> MCCall("binary", 16, <<1, 2, 4>>, <<3>>)
       [] s = "raw"   -> [MCCall("raw", 0, << >>, << >>) EXCEPT !.value = <<5, 1>>]]

MCApiKey == <<8, 9, 10>>

\* Listeners of the short names, of the long bucket, and of everything.
MCPattern ==
  [l \in Listeners |->
     CASE l \in {"text_exact", "exact"} -> <<<<1, 2>>, <<3>>>>
       [] l = "longer"                  -> <<<<1, 2, 4>>, <<Star>>>>
       [] l = "all"                     -> <<<<Star>>, <<Star>>>>]
================================================================================
