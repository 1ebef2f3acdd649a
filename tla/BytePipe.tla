------------------------------ MODULE BytePipe ------------------------------
(***************************************************************************)
(* What one direction of a connection promises to its two ends: a bounded  *)
(* pipe.  Bytes are counted where they go in and where they come out, in   *)
(* counters that wrap at Mod.  A byte that was put in stays until it is    *)
(* taken out or the connection ends; none appears from nowhere; never more *)
(* than Capacity are on their way; nothing moves once the pipe is closed.  *)
(***************************************************************************)
EXTENDS Integers

CONSTANTS Capacity, Mod

VARIABLES sent,  \* bytes the writer has put in, modulo Mod
          got,   \* bytes the reader has taken out, modulo Mod
          held,  \* bytes on their way
          up     \* the pipe is not closed yet

Add(a, n) == IF a + n < Mod THEN a + n ELSE a + n - Mod

Init == sent = got /\ held = 0 /\ up = TRUE

Put ==
  /\ up /\ up'
  /\ \E n \in 1..Capacity : held' = held + n /\ sent' = Add(sent, n)
  /\ held' <= Capacity
  /\ got' = got

Take ==
  /\ up /\ up'
  /\ \E n \in 1..held : held' = held - n /\ got' = Add(got, n)
  /\ sent' = sent

\* The reader may get some of what is held; what the writer puts in as the pipe
\* closes is lost with the rest.
Close ==
  /\ up /\ ~up'
  /\ \E n \in 0..held : got' = Add(got, n)
  /\ \E n \in 0..Capacity : sent' = Add(sent, n)
  /\ held' = 0

Next == Put \/ Take \/ Close

Spec == Init /\ [][Next]_<<sent, got, held, up>>
=============================================================================
