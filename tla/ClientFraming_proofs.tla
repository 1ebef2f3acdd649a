------------------------ MODULE ClientFraming_proofs ------------------------
(***************************************************************************)
(* Proofs about ClientFraming for any sizes of headers, buffers, commands  *)
(* and answers, and any number of commands.                                *)
(***************************************************************************)
EXTENDS ClientFraming, TLAPS

Types ==
  /\ cmds \in Seq([from : Nat, len : Lengths, kind : CmdKinds])
  /\ written \in Nat /\ gone \in {0, 1} /\ early \in {0, 1} /\ rude \in {0, 1}
  /\ state \in {"COMMAND", "LISTEN", "CONNECTING1", "CONNECTING2", "CONNECTED",
                "closed", "lost"}
  /\ events \subseteq {"IN", "OUT"} /\ rev \subseteq {"IN", "OUT"}
  /\ read \in Nat /\ read <= written /\ ib_size \in Nat
  /\ done \in Nat /\ last \in Nat /\ fwd \in Nat
  /\ asked \in Seq(Nat) /\ ob_size \in Nat /\ sent \in Nat

\* The commands of the client follow each other, and do not overlap.
Layout ==
  /\ \A i \in 1..Len(cmds) : cmds[i].from = EndOf(i - 1)
  /\ \A i, j \in 1..Len(cmds) : i < j => cmds[i].from + cmds[i].len <= cmds[j].from

\* A client that keeps to the protocol.
Manners ==
  rude = 0 => /\ \A i \in 1..Len(cmds) : ~BadLength(cmds[i].len)
              /\ \A i \in 1..Len(cmds) : i < Len(cmds) => cmds[i].kind # "listen"

\* While the client has not written too early: where the daemon is in the
\* stream.  A Connect or a Listen in progress is the last thing written.
InStep ==
  early = 0 /\ Open =>
    /\ done <= Len(cmds) /\ last = done
    /\ read - ib_size - fwd = EndOf(done)
    /\ state # "CONNECTED" => fwd = 0 /\ written <= End
    /\ state \in {"CONNECTING1", "CONNECTING2", "CONNECTED"} =>
         done = Len(cmds) /\ done > 0 /\ cmds[done].kind = "connect" /\ ib_size = 0
    /\ state = "LISTEN" => done > 0 /\ cmds[done].kind = "listen"
    /\ ib_size >= Hdr =>
         /\ done < Len(cmds) /\ ~BadLength(cmds[done + 1].len)
         /\ ib_size < cmds[done + 1].len
    /\ \A i \in 1..Len(cmds) : i < Len(cmds) /\ cmds[i].kind = "connect" => i <= done
    /\ \A i \in 1..Len(asked) : asked[i] <= done

\* POLLIN was reported because there is something to read, or the end.
Reported == "IN" \in rev => read < written \/ gone = 1

Inv == /\ Types /\ Layout /\ Manners /\ InStep /\ Reported /\ OutputAwaited
       /\ PoliteIsServed

\* One more answer.
LEMMA OneMore == ASSUME NEW n \in Nat, NEW a \in Nat PROVE (n + 1) * a = n * a + a
OBVIOUS

\* Nothing has been written yet.
LEMMA InitInv == Init => Inv
<1> SUFFICES ASSUME Init PROVE Inv
  OBVIOUS
<1>1. Len(cmds) = 0 /\ Len(asked) = 0 /\ 0 * Answer = 0
  BY FramingAssumption DEF Init
<1>2. cmds \in Seq([from : Nat, len : Lengths, kind : CmdKinds]) /\ asked \in Seq(Nat)
  BY DEF Init
<1> QED
  BY <1>1, <1>2, FramingAssumption
  DEF Init, Inv, Types, Layout, Manners, InStep, Reported, OutputAwaited, PoliteIsServed,
      Open, EndOf, End

\* What is known of a command.
LEMMA OfCommand ==
  ASSUME Types, NEW i \in 1..Len(cmds)
  PROVE  /\ cmds[i] \in [from : Nat, len : Lengths, kind : CmdKinds]
         /\ cmds[i].from \in Nat /\ cmds[i].len \in Nat /\ cmds[i].len > 0
<1> DEFINE S == [from : Nat, len : Lengths, kind : CmdKinds]
<1>1. cmds \in Seq(S)
  BY DEF Types
<1> HIDE DEF S
<1>2. cmds[i] \in S
  BY <1>1
<1> QED BY <1>2, FramingAssumption DEF S, Lengths

\* A new command comes after all the others.
LEMMA NewCommandKeepsInv ==
  ASSUME Inv, NEW l \in Lengths, NEW k \in CmdKinds, NewCommand(l, k)
  PROVE  Inv'
<1> DEFINE c == [from |-> End, len |-> l, kind |-> k]
<1>1. /\ cmds' = Append(cmds, c) /\ Len(cmds') = Len(cmds) + 1
      /\ cmds'[Len(cmds) + 1] = c /\ \A i \in 1..Len(cmds) : cmds'[i] = cmds[i]
      /\ Len(cmds) \in Nat
  BY DEF NewCommand, Inv, Types
<1>2. End \in Nat /\ \A i \in 1..Len(cmds) : cmds[i].from + cmds[i].len <= End
  <2>1. CASE Len(cmds) = 0
    BY <2>1 DEF End, EndOf
  <2>2. CASE Len(cmds) > 0
    <3>1. \A i \in 1..Len(cmds) : cmds[i].from \in Nat /\ cmds[i].len \in Nat
      BY OfCommand DEF Inv
    <3>2. End = cmds[Len(cmds)].from + cmds[Len(cmds)].len /\ End \in Nat
      BY <1>1, <2>2, <3>1 DEF End, EndOf
    <3>3. \A i \in 1..Len(cmds) : i < Len(cmds) =>
            cmds[i].from + cmds[i].len <= cmds[Len(cmds)].from
      BY <1>1, <2>2 DEF Inv, Layout
    <3>4. ASSUME NEW i \in 1..Len(cmds) PROVE cmds[i].from + cmds[i].len <= End
      <4>1. /\ cmds[i].from \in Nat /\ cmds[i].len \in Nat
            /\ cmds[Len(cmds)].from \in Nat /\ cmds[Len(cmds)].len \in Nat
        BY <1>1, <2>2, <3>1
      <4>2. CASE i = Len(cmds)
        BY <3>2, <4>1, <4>2
      <4>3. CASE i < Len(cmds)
        <5>1. cmds[i].from + cmds[i].len <= cmds[Len(cmds)].from
          BY <3>3, <4>3
        <5> QED BY ONLY <3>2, <4>1, <5>1
      <4> QED BY <1>1, <4>2, <4>3
    <3> QED BY <3>2, <3>4
  <2> QED BY <1>1, <2>1, <2>2
<1>3. \A i \in 0..Len(cmds) : EndOf(i)' = EndOf(i)
  BY <1>1 DEF EndOf
<1>4. Types'
  <2>1. c \in [from : Nat, len : Lengths, kind : CmdKinds]
    BY <1>2
  <2>2. cmds' \in Seq([from : Nat, len : Lengths, kind : CmdKinds])
    BY <1>1, <2>1 DEF Inv, Types
  <2> QED BY <2>2 DEF Inv, Types, NewCommand, in, out
<1>5. Layout'
  <2>1. \A i \in 1..Len(cmds') : cmds'[i].from = EndOf(i - 1)'
    BY <1>1, <1>2, <1>3 DEF Inv, Layout, End
  <2>2. \A i, j \in 1..Len(cmds') : i < j => cmds'[i].from + cmds'[i].len <= cmds'[j].from
    BY <1>1, <1>2 DEF Inv, Layout
  <2> QED BY <2>1, <2>2 DEF Layout
<1>6. Manners'
  <2>1. rude' = 0 => rude = 0 /\ ~BadLength(l) /\ \A i \in 1..Len(cmds) : cmds[i].kind # "listen"
    BY DEF NewCommand, BadLength, Listens, Inv, Types
  <2> QED BY <1>1, <2>1 DEF Inv, Manners, BadLength
<1>7. InStep'
  <2> SUFFICES ASSUME early' = 0, Open' PROVE InStep'
    BY DEF InStep
  <2>1. /\ early = 0 /\ Open /\ written = End /\ UNCHANGED <<state, written, in, out>>
    BY DEF NewCommand, Open, in, out
  <2>2. Connects => Len(cmds) <= done
    <3> SUFFICES ASSUME Connects PROVE Len(cmds) <= done
      OBVIOUS
    <3>1. Answered(Len(cmds))
      BY DEF NewCommand
    <3> QED BY <2>1, <3>1 DEF Answered, Inv, InStep
  <2>3. state \notin {"CONNECTING1", "CONNECTING2", "CONNECTED"}
    <3> SUFFICES ASSUME state \in {"CONNECTING1", "CONNECTING2", "CONNECTED"} PROVE FALSE
      OBVIOUS
    <3>1. Connects
      BY <1>1, <2>1 DEF Connects, Inv, InStep
    <3> QED BY <3>1 DEF NewCommand
  <2>4. End' = End + l
    BY <1>1 DEF End, EndOf
  <2>5. \A i \in 1..Len(cmds') : i < Len(cmds') /\ cmds'[i].kind = "connect" => i <= done
    BY <1>1, <2>1, <2>2 DEF Inv, InStep, Connects
  <2>6. /\ done \in 0..Len(cmds) /\ done' = done /\ last' = done
        /\ (read - ib_size - fwd)' = EndOf(done)'
    <3>1. done \in Nat /\ done <= Len(cmds) /\ last = done /\ read - ib_size - fwd = EndOf(done)
      BY <2>1 DEF Inv, InStep, Types
    <3> QED BY <1>1, <2>1, <3>1 DEF in, EndOf
  <2>7. fwd = 0 /\ written <= End'
    BY <1>2, <2>1, <2>3, <2>4, FramingAssumption DEF Inv, InStep, Lengths
  <2>8. state = "LISTEN" => done > 0 /\ cmds'[done].kind = "listen"
    BY <1>1, <2>1, <2>6 DEF Inv, InStep
  <2>9. ib_size >= Hdr =>
          /\ done < Len(cmds') /\ ~BadLength(cmds'[done + 1].len)
          /\ ib_size < cmds'[done + 1].len
    BY <1>1, <2>1, <2>6 DEF Inv, InStep, BadLength
  <2>10. \A i \in 1..Len(asked) : asked[i] <= done
    BY <2>1 DEF Inv, InStep
  <2> QED BY <1>1, <2>1, <2>3, <2>5, <2>6, <2>7, <2>8, <2>9, <2>10
          DEF InStep, in, out, BadLength
<1>8. Reported' /\ OutputAwaited' /\ PoliteIsServed'
  <2>1. rude' = 0 => rude = 0
    BY DEF NewCommand, Inv, Types
  <2> QED BY <2>1 DEF NewCommand, Inv, Reported, OutputAwaited, PoliteIsServed, Open, in, out
<1> QED
  BY <1>4, <1>5, <1>6, <1>7, <1>8 DEF Inv

\* So do the other steps of the client.
LEMMA WritingKeepsInv ==
  ASSUME Inv, (\E n \in 1..(Cap + 1) : WriteCommand(n)) \/ WriteData \/ Hangup
  PROVE  Inv'
<1> USE FramingAssumption
<1> DEFINE Writing ==
      /\ UNCHANGED <<cmds, rude, state, events, rev, in, out>>
      /\ written' \in Nat /\ written <= written' /\ gone' \in {0, 1} /\ early' \in {0, 1}
      /\ gone' = 0 => gone = 0
      /\ early' = 0 => early = 0 /\ (state # "CONNECTED" => written' = written \/ written' <= End)
<1>1. Writing
  <2>1. CASE \E n \in 1..(Cap + 1) : WriteCommand(n)
    BY <2>1 DEF Inv, Types, WriteCommand
  <2>2. CASE WriteData
    <3>1. early' = 0 => early = 0 /\ state = "CONNECTED"
      BY <2>2 DEF WriteData
    <3> QED BY <2>2, <3>1 DEF Inv, Types, WriteData
  <2>3. CASE Hangup
    BY <2>3 DEF Inv, Types, Hangup
  <2> QED BY <2>1, <2>2, <2>3
<1>2. Types' /\ Layout' /\ Manners'
  BY <1>1 DEF Inv, Types, Layout, Manners, in, out, EndOf
<1>3. InStep'
  BY <1>1 DEF Inv, InStep, Types, Open, End, EndOf, in, out
<1>4. Reported' /\ OutputAwaited' /\ PoliteIsServed'
  BY <1>1, <1>2 DEF Inv, Types, Reported, OutputAwaited, PoliteIsServed, Open, in, out
<1> QED
  BY <1>2, <1>3, <1>4 DEF Inv

(***************************************************************************)
(* The daemon.                                                             *)
(***************************************************************************)
\* An answer is queued.
LEMMA MessageQueued ==
  ASSUME Types, OutputAwaited, Open, NEW tag \in Nat,
         asked' = Append(asked, tag), ob_size' = ob_size + Answer, sent' = sent
  PROVE  /\ asked' \in Seq(Nat) /\ ob_size' \in Nat /\ sent' \in Nat
         /\ ob_size' > 0 /\ sent' + ob_size' = Len(asked') * Answer
         /\ Len(asked') = Len(asked) + 1 /\ asked'[Len(asked) + 1] = tag
         /\ \A i \in 1..Len(asked) : asked'[i] = asked[i]
<1>1. /\ asked' \in Seq(Nat) /\ Len(asked') = Len(asked) + 1 /\ Len(asked) \in Nat
      /\ asked'[Len(asked) + 1] = tag /\ \A i \in 1..Len(asked) : asked'[i] = asked[i]
  BY DEF Types
<1>2. Answer \in Nat /\ Answer > 0 /\ ob_size \in Nat /\ sent \in Nat
  BY FramingAssumption DEF Types
<1>3. (Len(asked) + 1) * Answer = Len(asked) * Answer + Answer
  BY <1>1, <1>2, OneMore
<1>4. sent + ob_size = Len(asked) * Answer
  BY DEF OutputAwaited
<1>5. Len(asked') * Answer = Len(asked) * Answer + Answer
  BY <1>1, <1>3, Zenon
<1>6. sent' + ob_size' = Len(asked') * Answer
  BY ONLY <1>2, <1>4, <1>5, ob_size' = ob_size + Answer, sent' = sent
<1> QED BY <1>1, <1>2, <1>6

\* With input to be read and the stream in step, it is the next command.
LEMMA NextCommand ==
  ASSUME Inv, early = 0, Open, state # "CONNECTED", read < written
  PROVE  /\ done < Len(cmds) /\ CmdAt(read - ib_size) = done + 1
         /\ LengthsAt(read - ib_size) = {cmds[done + 1].len}
         /\ KindsAt(read - ib_size) = {cmds[done + 1].kind}
         /\ read - ib_size = cmds[done + 1].from /\ EndOf(done) = cmds[done + 1].from
<1>1. /\ done \in Nat /\ done <= Len(cmds) /\ read - ib_size = EndOf(done)
      /\ written <= End /\ Len(cmds) \in Nat /\ read \in Nat /\ ib_size \in Nat /\ written \in Nat
  BY DEF Inv, InStep, Types
<1>2. done < Len(cmds)
  <2> SUFFICES ASSUME done = Len(cmds) PROVE FALSE
    BY <1>1
  <2>1. read - ib_size = End
    BY <1>1 DEF End
  <2> QED BY <1>1, <2>1
<1>3. done + 1 \in 1..Len(cmds) /\ cmds[done + 1].from = EndOf(done)
  <2>1. done + 1 \in 1..Len(cmds) /\ (done + 1) - 1 = done
    BY <1>1, <1>2
  <2>2. cmds[done + 1].from = EndOf((done + 1) - 1)
    BY <2>1 DEF Inv, Layout
  <2> QED BY <2>1, <2>2
<1>4. \A i \in 1..Len(cmds) : cmds[i].from = cmds[done + 1].from => i = done + 1
  <2> SUFFICES ASSUME NEW i \in 1..Len(cmds), cmds[i].from = cmds[done + 1].from, i # done + 1
      PROVE FALSE
    OBVIOUS
  <2>1. /\ cmds[i].from \in Nat /\ cmds[i].len \in Nat /\ cmds[i].len > 0
        /\ cmds[done + 1].len \in Nat /\ cmds[done + 1].len > 0
    BY <1>3, OfCommand DEF Inv
  <2>2. i < done + 1 => cmds[i].from + cmds[i].len <= cmds[done + 1].from
    BY <1>3 DEF Inv, Layout
  <2>3. done + 1 < i => cmds[done + 1].from + cmds[done + 1].len <= cmds[i].from
    BY <1>3 DEF Inv, Layout
  <2> QED BY <1>1, <2>1, <2>2, <2>3
<1>5. CmdAt(read - ib_size) = done + 1
  BY <1>1, <1>3, <1>4 DEF CmdAt
<1> QED
  BY <1>1, <1>2, <1>3, <1>5 DEF LengthsAt, KindsAt

\* The position of a command is a number, whatever is found there.
LEMMA CmdAtNat == ASSUME Types, NEW q PROVE CmdAt(q) \in Nat
<1>1. Len(cmds) \in Nat
  BY DEF Types
<1>2. CASE \E i \in 1..Len(cmds) : cmds[i].from = q
  <2>1. CmdAt(q) \in 1..Len(cmds)
    BY <1>2 DEF CmdAt
  <2> QED BY <1>1, <2>1
<1>3. CASE ~\E i \in 1..Len(cmds) : cmds[i].from = q
  BY <1>3 DEF CmdAt
<1> QED BY <1>2, <1>3

\* What is in the stream, and what the client has done, does not depend on what
\* the daemon does.
LEMMA StreamStays ==
  ASSUME Inv, UNCHANGED client
  PROVE  /\ Layout' /\ Manners' /\ End' = End
         /\ cmds' = cmds /\ written' = written /\ gone' = gone /\ early' = early /\ rude' = rude
         /\ \A i \in Nat : EndOf(i)' = EndOf(i)
BY DEF Inv, client, Layout, Manners, End, EndOf, BadLength

\* A client that is closed for a reason.
LEMMA ClosingKeepsInv ==
  ASSUME Inv, UNCHANGED client, UNCHANGED <<in, out>>, rev' = {}, events' = {},
         state' \in {"closed", "lost"}, early = 1 \/ rude = 1 \/ gone = 1
  PROVE  Inv'
<1>1. Types'
  BY DEF Inv, Types, client, in, out
<1>2. Layout' /\ Manners'
  BY StreamStays
<1>3. InStep' /\ Reported' /\ OutputAwaited' /\ PoliteIsServed'
  BY DEF Inv, Types, client, InStep, Reported, OutputAwaited, PoliteIsServed, Open
<1> QED BY <1>1, <1>2, <1>3 DEF Inv

\* ppoll: only what can be read is reported as input.
LEMMA PollKeepsInv == ASSUME Inv, NEW room \in BOOLEAN, Poll(room) PROVE Inv'
<1>1. UNCHANGED client /\ UNCHANGED <<state, events, in, out>>
  BY DEF Poll
<1>2. Layout' /\ Manners' /\ End' = End /\ \A i \in Nat : EndOf(i)' = EndOf(i)
  BY <1>1, StreamStays
<1>3. rev' \subseteq events /\ ("IN" \in rev' => Avail > 0 \/ gone = 1)
  BY DEF Poll
<1>4. Types'
  BY <1>1, <1>3 DEF Inv, Types, client, in, out
<1>5. Reported'
  BY <1>1, <1>3 DEF Inv, Types, Reported, Avail, client, in
<1>6. InStep'
  BY <1>1, <1>2 DEF Inv, Types, InStep, Open, client, in, out, BadLength
<1>7. OutputAwaited' /\ PoliteIsServed'
  BY <1>1 DEF Inv, OutputAwaited, PoliteIsServed, Open, client, in, out
<1> QED BY <1>2, <1>4, <1>5, <1>6, <1>7 DEF Inv

\* After a Connect nothing is left to read until the client has the answer.
LEMMA NothingAfterConnect ==
  ASSUME Inv, early = 0, state \in {"CONNECTING1", "CONNECTING2"}
  PROVE  ~(read < written)
<1>1. Open /\ state # "CONNECTED"
  BY DEF Open
<1>2. /\ done = Len(cmds) /\ ib_size = 0 /\ fwd = 0 /\ written <= End
      /\ read - ib_size - fwd = EndOf(done)
  BY <1>1 DEF Inv, InStep
<1>3. read = End
  BY <1>2 DEF End, Inv, Types
<1>4. SUFFICES ASSUME read < written PROVE FALSE
  OBVIOUS
<1>5. done < Len(cmds)
  BY <1>1, <1>4, NextCommand
<1> QED BY <1>2, <1>5 DEF Inv, Types

\* device_client_process: data only move on.
LEMMA DataKeepsInv ==
  ASSUME Inv, UNCHANGED client, rev' = {}, state = "CONNECTED", "IN" \in rev,
         device_client_process
  PROVE  Inv'
<1>1. CASE Avail = 0 /\ client_close /\ UNCHANGED in
  <2>1. ~(read < written)
    BY <1>1 DEF Avail, Inv, Types
  <2> QED BY <1>1, <2>1, ClosingKeepsInv DEF client_close, Inv, Reported
<1>2. ASSUME NEW n \in 1..Avail, read' = read + n, fwd' = fwd + n,
             UNCHANGED <<state, events, out, ib_size, done, last>>
      PROVE  Inv'
  <2>1. n \in Nat /\ n <= written - read
    BY <1>2 DEF Avail, Inv, Types
  <2>2. Layout' /\ Manners' /\ End' = End /\ \A i \in Nat : EndOf(i)' = EndOf(i)
    BY StreamStays
  <2>3. Types'
    BY <1>2, <2>1 DEF Inv, Types, client, out
  <2>4. InStep'
    <3> SUFFICES ASSUME early = 0 PROVE InStep'
      BY DEF InStep, client
    <3>1. /\ done <= Len(cmds) /\ last = done
          /\ read - ib_size - fwd = EndOf(done)
          /\ done = Len(cmds) /\ done > 0 /\ cmds[done].kind = "connect" /\ ib_size = 0
          /\ \A i \in 1..Len(cmds) : i < Len(cmds) /\ cmds[i].kind = "connect" => i <= done
          /\ \A i \in 1..Len(asked) : asked[i] <= done
      BY DEF Inv, InStep, Open
    <3>2. read' - ib_size' - fwd' = EndOf(done)'
      BY <1>2, <2>1, <2>2, <3>1 DEF Inv, Types, EndOf, client
    <3> QED
      BY <1>2, <3>1, <3>2, FramingAssumption DEF InStep, client, out
  <2>5. Reported' /\ OutputAwaited' /\ PoliteIsServed'
    BY <1>2 DEF Inv, Reported, OutputAwaited, PoliteIsServed, Open, client, out
  <2> QED BY <2>2, <2>3, <2>4, <2>5 DEF Inv
<1> QED BY <1>1, <1>2 DEF device_client_process

\* output_buffer_process: what send() takes leaves ob_buf.
LEMMA OutputKeepsInv ==
  ASSUME Inv, UNCHANGED client, rev' = {}, Open, state # "CONNECTED", output_buffer_process
  PROVE  Inv'
<1>1. UNCHANGED in
  BY DEF output_buffer_process
<1>2. Layout' /\ Manners' /\ End' = End /\ \A i \in Nat : EndOf(i)' = EndOf(i)
  BY StreamStays
<1>3. CASE ob_size > 0 /\ gone = 1 /\ client_close
  BY <1>1, <1>3, ClosingKeepsInv DEF client_close
<1>4. ASSUME asked' = asked, ob_size' \in Nat, sent' \in Nat,
             sent' + ob_size' = sent + ob_size, events' \subseteq {"IN", "OUT"},
             ob_size' > 0 => "OUT" \in events' /\ state' # "CONNECTED",
             state' = state \/ (state = "CONNECTING2" /\ state' = "CONNECTED")
      PROVE  Inv'
  <2>1. Types'
    BY <1>1, <1>4 DEF Inv, Types, client, in
  <2>2. InStep'
    <3> SUFFICES ASSUME early = 0 PROVE InStep'
      BY DEF InStep, client
    <3>1. /\ done <= Len(cmds) /\ last = done
          /\ read - ib_size - fwd = EndOf(done)
          /\ fwd = 0 /\ written <= End
          /\ state \in {"CONNECTING1", "CONNECTING2", "CONNECTED"} =>
               done = Len(cmds) /\ done > 0 /\ cmds[done].kind = "connect" /\ ib_size = 0
          /\ state = "LISTEN" => done > 0 /\ cmds[done].kind = "listen"
          /\ ib_size >= Hdr =>
               /\ done < Len(cmds) /\ ~BadLength(cmds[done + 1].len)
               /\ ib_size < cmds[done + 1].len
          /\ \A i \in 1..Len(cmds) : i < Len(cmds) /\ cmds[i].kind = "connect" => i <= done
          /\ \A i \in 1..Len(asked) : asked[i] <= done
      BY DEF Inv, InStep
    <3>2. EndOf(done)' = EndOf(done)
      BY <1>1 DEF EndOf, client, in
    <3> QED
      BY <1>1, <1>2, <1>4, <3>1, <3>2 DEF InStep, client, in, BadLength
  <2>3. OutputAwaited'
    <3>1. sent + ob_size = Len(asked) * Answer
      BY DEF Inv, OutputAwaited
    <3> QED BY <1>4, <3>1 DEF OutputAwaited
  <2>4. Reported' /\ PoliteIsServed'
    BY <1>4 DEF Inv, Reported, PoliteIsServed, Open, client
  <2> QED BY <1>2, <2>1, <2>2, <2>3, <2>4 DEF Inv
<1>5. CASE ob_size = 0 /\ events' = events \ {"OUT"} /\ UNCHANGED <<state, out>>
  <2>1. asked' = asked /\ ob_size' = ob_size /\ sent' = sent /\ state' = state
    BY <1>5 DEF out
  <2>2. ob_size \in Nat /\ sent \in Nat /\ events \subseteq {"IN", "OUT"}
    BY DEF Inv, Types
  <2>3. /\ events' \subseteq {"IN", "OUT"} /\ ~(ob_size' > 0)
        /\ ob_size' \in Nat /\ sent' \in Nat /\ sent' + ob_size' = sent + ob_size
    BY <1>5, <2>1, <2>2
  <2> QED BY <1>4, <2>1, <2>3
<1>6. ASSUME NEW n \in 1..ob_size, SendSome(n) PROVE Inv'
  <2>1. /\ sent \in Nat /\ ob_size \in Nat /\ n \in Nat /\ n <= ob_size
        /\ ob_size > 0 => "OUT" \in events
    BY <1>6 DEF Inv, Types, OutputAwaited
  <2>2. /\ asked' = asked /\ sent' = sent + n /\ ob_size' = ob_size - n
    BY <1>6 DEF SendSome
  <2>3. ob_size' \in Nat /\ sent' \in Nat /\ sent' + ob_size' = sent + ob_size
    BY <2>1, <2>2
  <2>4. \/ n < ob_size /\ state' = state /\ events' = events
        \/ n = ob_size /\ state = "CONNECTING2" /\ state' = "CONNECTED" /\ events' = {"IN"}
        \/ n = ob_size /\ state # "CONNECTING2" /\ state' = state /\ events' = events \ {"OUT"}
    BY <1>6 DEF SendSome
  <2>5. events \subseteq {"IN", "OUT"} /\ (ob_size' > 0 => n < ob_size)
    BY <2>1, <2>2 DEF Inv, Types
  <2>6. events' \subseteq {"IN", "OUT"}
    BY <2>4, <2>5
  <2>7. ob_size' > 0 => "OUT" \in events' /\ state' # "CONNECTED"
    BY <2>1, <2>4, <2>5
  <2>8. state' = state \/ (state = "CONNECTING2" /\ state' = "CONNECTED")
    BY <2>4
  <2> QED BY <1>4, <2>2, <2>3, <2>6, <2>7, <2>8
<1> QED BY <1>3, <1>5, <1>6 DEF output_buffer_process

\* An answer or an event outside of input_buffer_process.
LEMMA MessageKeepsInv ==
  ASSUME Inv, UNCHANGED <<client, rev, in>>, Open, state # "CONNECTED",
         NEW tag \in Nat, tag <= done \/ early = 1,
         asked' = Append(asked, tag), ob_size' = ob_size + Answer, sent' = sent,
         events' \subseteq {"IN", "OUT"}, "OUT" \in events',
         \/ state' = state
         \/ state = "CONNECTING1" /\ state' \in {"CONNECTING2", "COMMAND"}
  PROVE  Inv'
<1>1. /\ asked' \in Seq(Nat) /\ ob_size' \in Nat /\ sent' \in Nat
      /\ ob_size' > 0 /\ sent' + ob_size' = Len(asked') * Answer
      /\ Len(asked') = Len(asked) + 1 /\ asked'[Len(asked) + 1] = tag
      /\ \A i \in 1..Len(asked) : asked'[i] = asked[i]
  BY MessageQueued DEF Inv
<1>2. Layout' /\ Manners' /\ End' = End /\ \A i \in Nat : EndOf(i)' = EndOf(i)
  BY StreamStays
<1>3. Types'
  BY <1>1 DEF Inv, Types, client, in
<1>4. InStep'
  <2> SUFFICES ASSUME early = 0 PROVE InStep'
    BY DEF InStep, client
  <2>1. /\ done <= Len(cmds) /\ last = done
        /\ read - ib_size - fwd = EndOf(done)
        /\ fwd = 0 /\ written <= End
        /\ state \in {"CONNECTING1", "CONNECTING2", "CONNECTED"} =>
             done = Len(cmds) /\ done > 0 /\ cmds[done].kind = "connect" /\ ib_size = 0
        /\ state = "LISTEN" => done > 0 /\ cmds[done].kind = "listen"
        /\ ib_size >= Hdr =>
             /\ done < Len(cmds) /\ ~BadLength(cmds[done + 1].len)
             /\ ib_size < cmds[done + 1].len
        /\ \A i \in 1..Len(cmds) : i < Len(cmds) /\ cmds[i].kind = "connect" => i <= done
        /\ \A i \in 1..Len(asked) : asked[i] <= done
    BY DEF Inv, InStep
  <2>2. EndOf(done)' = EndOf(done)
    BY DEF EndOf, client, in
  <2>3. \A i \in 1..Len(asked') : asked'[i] <= done
    <3> SUFFICES ASSUME NEW i \in 1..Len(asked') PROVE asked'[i] <= done
      OBVIOUS
    <3>1. Len(asked) \in Nat /\ tag <= done
      BY DEF Inv, Types
    <3>2. i \in 1..Len(asked) \/ i = Len(asked) + 1
      BY <1>1, <3>1
    <3> QED BY <1>1, <2>1, <3>1, <3>2
  <2> QED
    BY <1>2, <2>1, <2>2, <2>3 DEF InStep, client, in, BadLength
<1>5. OutputAwaited'
  BY <1>1 DEF OutputAwaited, Open
<1>6. Reported' /\ PoliteIsServed'
  BY DEF Inv, Reported, PoliteIsServed, Open, client, in
<1> QED BY <1>2, <1>3, <1>4, <1>5, <1>6 DEF Inv

\* What one recv() of input_buffer_process can bring of the next command: never
\* more than belongs to it, and something if there is something.
LEMMA NeverTooMuch ==
  ASSUME Inv, early = 0, Open, state # "CONNECTED", read < written,
         NEW l, l = cmds[done + 1].len, NEW n,
         n = IF Avail < Wanted(ib_size, l) THEN Avail ELSE Wanted(ib_size, l)
  PROVE  /\ n > 0 /\ l \in Nat
         /\ ib_size + n >= Hdr /\ ~BadLength(l) /\ ib_size + n >= l => ib_size + n = l
<1>1. done + 1 \in 1..Len(cmds)
  BY NextCommand DEF Inv, Types
<1>2. l \in Nat /\ l > 0
  BY <1>1, OfCommand DEF Inv
<1>3. /\ read \in Nat /\ written \in Nat /\ ib_size \in Nat /\ Hdr \in Nat /\ Hdr > 0
      /\ Avail \in Nat /\ Avail > 0
  BY FramingAssumption DEF Inv, Types, Avail
<1>4. ib_size >= Hdr => ib_size < l
  BY DEF Inv, InStep
<1>5. /\ Wanted(ib_size, l) \in Nat /\ Wanted(ib_size, l) > 0
      /\ Wanted(ib_size, l) = IF ib_size < Hdr THEN Hdr - ib_size ELSE l - ib_size
  BY <1>2, <1>3, <1>4 DEF Wanted
<1>6. n \in Nat /\ n > 0 /\ n <= Wanted(ib_size, l)
  BY <1>3, <1>5
<1>7. ~BadLength(l) => l >= Hdr
  BY <1>2, <1>3 DEF BadLength
<1> QED BY <1>2, <1>3, <1>5, <1>6, <1>7

\* handle_command on the command that has just been completed.
LEMMA TakingKeepsInv ==
  ASSUME Inv, UNCHANGED client, rev' = {}, Open,
         state \notin {"CONNECTED", "CONNECTING2"}, read < written,
         NEW n \in Nat, read + n <= written, read' = read + n, fwd' = fwd,
         NEW l, NEW k, ~BadLength(l),
         early = 0 => /\ l = cmds[done + 1].len /\ k = cmds[done + 1].kind
                      /\ ib_size + n = l,
         TakeCommand(read - ib_size, k)
  PROVE  Inv'
<1> DEFINE c == CmdAt(read - ib_size)
<1>1. /\ last' = c /\ done' = done + 1 /\ ib_size' = 0 /\ handle_command(c, k)
  BY DEF TakeCommand
<1>2. c \in Nat /\ (early = 0 => c = done + 1)
  BY CmdAtNat, NextCommand DEF Inv
<1>3. /\ early = 0 => /\ done + 1 \in 1..Len(cmds) /\ EndOf(done) = cmds[done + 1].from
                      /\ read - ib_size = cmds[done + 1].from
                      /\ cmds[done + 1].from \in Nat /\ cmds[done + 1].len \in Nat
  <2> SUFFICES ASSUME early = 0 PROVE
        /\ done + 1 \in 1..Len(cmds) /\ EndOf(done) = cmds[done + 1].from
        /\ read - ib_size = cmds[done + 1].from
        /\ cmds[done + 1].from \in Nat /\ cmds[done + 1].len \in Nat
    OBVIOUS
  <2>1. /\ done < Len(cmds) /\ EndOf(done) = cmds[done + 1].from
        /\ read - ib_size = cmds[done + 1].from
    BY NextCommand
  <2>2. done + 1 \in 1..Len(cmds)
    BY <2>1 DEF Inv, Types
  <2> QED BY <2>1, <2>2, OfCommand DEF Inv
<1>4. early = 0 => state # "CONNECTING1"
  BY NothingAfterConnect
<1>5. Layout' /\ Manners' /\ End' = End
  BY StreamStays
<1> HIDE DEF c
<1>6. done' \in Nat /\ last' \in Nat /\ ib_size' \in Nat /\ read' \in Nat /\ fwd' \in Nat
  BY <1>1, <1>2 DEF Inv, Types
\* The stream after it.
<1>7. early = 0 => /\ done' <= Len(cmds) /\ last' = done' /\ done' > 0
                   /\ read' - ib_size' - fwd' = EndOf(done)'
                   /\ fwd' = 0 /\ written' <= End'
                   /\ cmds[done'].kind = k
                   /\ ~(ib_size' >= Hdr)
                   /\ \A i \in 1..Len(cmds') :
                        i < Len(cmds') /\ cmds'[i].kind = "connect" => i <= done'
  <2> SUFFICES ASSUME early = 0 PROVE
                   /\ done' <= Len(cmds) /\ last' = done' /\ done' > 0
                   /\ read' - ib_size' - fwd' = EndOf(done)'
                   /\ fwd' = 0 /\ written' <= End'
                   /\ cmds[done'].kind = k
                   /\ ~(ib_size' >= Hdr)
                   /\ \A i \in 1..Len(cmds') :
                        i < Len(cmds') /\ cmds'[i].kind = "connect" => i <= done'
    OBVIOUS
  <2>1. /\ fwd = 0 /\ written <= End
        /\ \A i \in 1..Len(cmds) : i < Len(cmds) /\ cmds[i].kind = "connect" => i <= done
    BY DEF Inv, InStep
  <2>2. done \in Nat /\ Len(cmds) \in Nat /\ read \in Nat /\ ib_size \in Nat
    BY DEF Inv, Types
  <2>3. EndOf(done)' = cmds[done + 1].from + cmds[done + 1].len
    BY <1>1, <2>2 DEF EndOf, client
  <2>4. read' = cmds[done + 1].from + cmds[done + 1].len
    BY <1>3, <2>2
  <2>5. ~(0 >= Hdr)
    BY FramingAssumption
  <2>6. cmds' = cmds /\ written' = written
    BY DEF client
  <2>7. \A i \in 1..Len(cmds) : i < Len(cmds) /\ cmds[i].kind = "connect" => i <= done + 1
    BY <2>1, <2>2
  <2>8. read' - ib_size' - fwd' = EndOf(done)'
    BY <1>1, <1>3, <2>1, <2>3, <2>4
  <2> QED BY <1>1, <1>2, <1>3, <1>5, <2>1, <2>2, <2>5, <2>6, <2>7, <2>8
<1>8. early = 0 => \A i \in 1..Len(asked) : asked[i] <= done
  BY DEF Inv, InStep
<1>9. Reported'
  BY DEF Reported
\* In a state that does not take commands the client is closed.
<1>10. CASE state # "COMMAND" /\ client_close
  <2>1. state' = "closed" /\ events' = {} /\ UNCHANGED out
    BY <1>10 DEF client_close
  <2>2. Types'
    BY <1>6, <2>1 DEF Inv, Types, client, out
  <2>3. InStep' /\ OutputAwaited'
    BY <2>1 DEF InStep, OutputAwaited, Open
  <2>4. early = 1 \/ rude = 1 \/ gone = 1
    <3> SUFFICES ASSUME early = 0, rude = 0 PROVE FALSE
      BY DEF Inv, Types
    <3>1. state = "LISTEN"
      BY <1>4, <1>10 DEF Inv, Types, Open
    <3>2. done > 0 /\ cmds[done].kind = "listen"
      BY <3>1 DEF Inv, InStep
    <3>3. done \in 1..Len(cmds) /\ done < Len(cmds)
      BY <1>3, <3>2, SMTT(30) DEF Inv, Types
    <3> QED BY <3>2, <3>3 DEF Inv, Manners
  <2>5. PoliteIsServed'
    BY <2>4 DEF PoliteIsServed, client
  <2> QED BY <1>5, <1>9, <2>2, <2>3, <2>5 DEF Inv
\* It is not answered, now or ever.
<1>11. ASSUME UNCHANGED <<events, out>>, state = "COMMAND",
              state' = state \/ (state' = "CONNECTING1" /\ k = "connect")
       PROVE  Inv'
  <2>1. Types'
    BY <1>6, <1>11 DEF Inv, Types, client, out
  <2>2. early = 0 /\ state' = "CONNECTING1" => done' = Len(cmds)
    BY <1>1, <1>3, <1>11, SMTT(30) DEF Inv, InStep, Types
  <2>3. InStep'
    <3>1. early = 0 => \A i \in 1..Len(asked') : asked'[i] <= done'
      BY <1>1, <1>8, <1>11, SMTT(30) DEF Inv, Types, out
    <3> QED BY <1>1, <1>7, <1>11, <2>2, <3>1 DEF InStep, client
  <2>4. OutputAwaited' /\ PoliteIsServed'
    BY <1>11, SMTT(30) DEF Inv, OutputAwaited, PoliteIsServed, Open, client, out
  <2> QED BY <1>5, <1>9, <2>1, <2>3, <2>4 DEF Inv
\* It is answered at once.
<1>12. CASE /\ state = "COMMAND" /\ k # "mute"
            /\ state' = IF k = "listen" THEN "LISTEN" ELSE state
            /\ output_buffer_add_message(c)
  <2>1. /\ asked' = Append(asked, c) /\ ob_size' = ob_size + Answer /\ sent' = sent
        /\ events' = events \cup {"OUT"}
    BY <1>12 DEF output_buffer_add_message
  <2>2. /\ asked' \in Seq(Nat) /\ ob_size' \in Nat /\ sent' \in Nat
        /\ ob_size' > 0 /\ sent' + ob_size' = Len(asked') * Answer
        /\ Len(asked') = Len(asked) + 1 /\ asked'[Len(asked) + 1] = c
        /\ \A i \in 1..Len(asked) : asked'[i] = asked[i]
    BY <1>2, <2>1, MessageQueued DEF Inv
  <2>3. state' \in {"COMMAND", "LISTEN"} /\ (state' = "LISTEN" => k = "listen")
    BY <1>12
  <2>4. Types'
    BY <1>6, <2>1, <2>2, <2>3, SMTT(30) DEF Inv, Types, client
  <2>5. InStep'
    <3>1. ASSUME early = 0, NEW i \in 1..Len(asked') PROVE asked'[i] <= done'
      <4>1. Len(asked) \in Nat /\ done \in Nat
        BY DEF Inv, Types
      <4>2. CASE i \in 1..Len(asked)
        <5>1. asked'[i] = asked[i] /\ asked[i] <= done
          BY <1>8, <2>2, <3>1, <4>2, Zenon
        <5>2. asked[i] \in Nat
          BY <4>2 DEF Inv, Types
        <5> QED BY ONLY <1>1, <4>1, <5>1, <5>2
      <4>3. CASE i = Len(asked) + 1
        BY <1>1, <1>2, <2>2, <3>1, <4>1, <4>3
      <4> QED BY <2>2, <4>1, <4>2, <4>3
    <3>2. /\ state' \notin {"CONNECTING1", "CONNECTING2", "CONNECTED"}
          /\ cmds' = cmds /\ early' = early
      BY <2>3 DEF client
    <3>3. early = 0 => \A i \in 1..Len(asked') : asked'[i] <= done'
      BY <3>1
    <3>4. CASE early = 0
      <4>1. state' = "LISTEN" => done' > 0 /\ cmds'[done'].kind = "listen"
        BY <1>7, <2>3, <3>2, <3>4
      <4>2. done' <= Len(cmds') /\ ~(ib_size' >= Hdr)
        BY <1>7, <3>2, <3>4
      <4> QED BY <1>7, <3>2, <3>3, <3>4, <4>1, <4>2 DEF InStep
    <3>5. CASE early # 0
      BY <3>2, <3>5 DEF InStep
    <3> QED BY <3>4, <3>5
  <2>6. OutputAwaited'
    BY <2>1, <2>2, <2>3 DEF OutputAwaited
  <2>7. PoliteIsServed'
    BY <2>3 DEF PoliteIsServed, Open
  <2> QED BY <1>5, <1>9, <2>4, <2>5, <2>6, <2>7 DEF Inv
<1>13. \/ state # "COMMAND" /\ client_close
       \/ state = "COMMAND" /\ k = "mute" /\ UNCHANGED <<state, events, out>>
       \/ state = "COMMAND" /\ k = "connect" /\ state' = "CONNECTING1" /\ UNCHANGED <<events, out>>
       \/ /\ state = "COMMAND" /\ k # "mute"
          /\ state' = IF k = "listen" THEN "LISTEN" ELSE state
          /\ output_buffer_add_message(c)
  BY <1>1 DEF handle_command
<1> QED BY <1>10, <1>11, <1>12, <1>13

\* What is taken for a length is a number.
LEMMA LengthsInt == ASSUME Types, NEW q, NEW l \in LengthsAt(q) PROVE l \in Int
<1>1. CASE CmdAt(q) = 0
  BY <1>1, FramingAssumption DEF LengthsAt, Lengths
<1>2. CASE CmdAt(q) # 0
  <2>1. \E i \in 1..Len(cmds) : cmds[i].from = q
    BY <1>2 DEF CmdAt
  <2>2. CmdAt(q) \in 1..Len(cmds)
    BY <2>1 DEF CmdAt
  <2>3. cmds[CmdAt(q)].len \in Nat
    BY <2>2, OfCommand
  <2> QED BY <1>2, <2>3 DEF LengthsAt
<1> QED BY <1>1, <1>2

\* input_buffer_process.
LEMMA InputKeepsInv ==
  ASSUME Inv, UNCHANGED client, rev' = {}, Open, "IN" \in rev,
         state \notin {"CONNECTED", "CONNECTING2"}, input_buffer_process
  PROVE  Inv'
<1> DEFINE base == read - ib_size
<1>1. PICK l \in LengthsAt(base), k \in KindsAt(base) :
        Input(base, l, k, IF Avail < Wanted(ib_size, l) THEN Avail ELSE Wanted(ib_size, l))
  BY DEF input_buffer_process
<1> DEFINE n == IF Avail < Wanted(ib_size, l) THEN Avail ELSE Wanted(ib_size, l)
<1>2. early = 0 /\ read < written => l = cmds[done + 1].len /\ k = cmds[done + 1].kind
  BY NextCommand
<1>3. early = 0 /\ read < written =>
        /\ n > 0 /\ l \in Nat
        /\ ib_size + n >= Hdr /\ ~BadLength(l) /\ ib_size + n >= l => ib_size + n = l
  BY <1>2, NeverTooMuch
<1>4. CASE n = 0 /\ client_close /\ UNCHANGED in
  <2>1. early = 1 \/ gone = 1
    BY <1>3, <1>4 DEF Inv, Types, Reported
  <2> QED BY <1>4, <2>1, ClosingKeepsInv DEF client_close
<1>5. CASE
  /\ n > 0 /\ read' = read + n /\ UNCHANGED fwd
  /\ \/ /\ ib_size + n < Hdr \/ (~BadLength(l) /\ ib_size + n < l)
        /\ ib_size' = ib_size + n
        /\ UNCHANGED <<state, events, out, done, last>>
     \/ /\ ib_size + n >= Hdr /\ BadLength(l)
        /\ client_close /\ UNCHANGED <<ib_size, done, last>>
     \/ /\ ib_size + n >= Hdr /\ ~BadLength(l) /\ ib_size + n >= l
        /\ TakeCommand(base, k)
  <2>1. l \in Int
    BY LengthsInt DEF Inv
  <2>2. read \in Nat /\ written \in Nat /\ ib_size \in Nat /\ Hdr \in Nat /\ Hdr > 0
    BY FramingAssumption DEF Inv, Types
  <2>3. n \in Nat /\ read + n <= written /\ read < written
    BY <1>5, <2>1, <2>2, SMTT(30) DEF Avail, Wanted
  <2> HIDE DEF n
  \* Not yet a header, or not yet the command.
  <2>4. CASE /\ ib_size + n < Hdr \/ (~BadLength(l) /\ ib_size + n < l)
             /\ ib_size' = ib_size + n
             /\ UNCHANGED <<state, events, out, done, last>>
    <3>1. Layout' /\ Manners' /\ End' = End
      BY StreamStays, SMTT(30)
    <3>2. Types'
      BY <1>5, <2>2, <2>3, <2>4 DEF Inv, Types, client, out
    <3>3. InStep'
      <4>0. early' = early
        BY DEF client
      <4> SUFFICES ASSUME early = 0 PROVE InStep'
        BY <4>0, Zenon DEF InStep
      <4>1. /\ done <= Len(cmds) /\ last = done
            /\ read - ib_size - fwd = EndOf(done)
            /\ fwd = 0 /\ written <= End
            /\ state = "LISTEN" => done > 0 /\ cmds[done].kind = "listen"
            /\ \A i \in 1..Len(cmds) : i < Len(cmds) /\ cmds[i].kind = "connect" => i <= done
            /\ \A i \in 1..Len(asked) : asked[i] <= done
        BY DEF Inv, InStep
      <4>2. state \in {"COMMAND", "LISTEN"} /\ done < Len(cmds)
        <5>1. state # "CONNECTING1" /\ done < Len(cmds)
          BY <2>3, NothingAfterConnect, NextCommand
        <5> QED BY <5>1 DEF Inv, Types, Open
      <4>3. EndOf(done)' = EndOf(done) /\ EndOf(done) \in Int
        BY <2>2, <2>4, <4>1, SMTT(30) DEF EndOf, client, Inv, Types
      <4>4. read' - ib_size' - fwd' = EndOf(done)'
        BY <1>5, <2>2, <2>3, <2>4, <4>1, <4>3, SMTT(30)
      <4>5. ib_size' >= Hdr => ~BadLength(cmds[done + 1].len) /\ ib_size' < cmds[done + 1].len
        <5>1. l = cmds[done + 1].len
          BY <1>2, <2>3, Zenon
        <5> QED BY ONLY <2>2, <2>3, <2>4, <5>1
      <4> QED
        <5>1. /\ cmds' = cmds /\ written' = written /\ early' = early /\ asked' = asked
              /\ state' = state /\ done' = done /\ last' = last /\ fwd' = fwd
          BY <1>5, <2>4 DEF client, out
        <5> QED
          BY ONLY <3>1, <4>1, <4>2, <4>4, <4>5, <5>1, SMTT(30) DEF InStep, BadLength
    <3>4. Reported' /\ OutputAwaited' /\ PoliteIsServed'
      BY <2>4 DEF Inv, Reported, OutputAwaited, PoliteIsServed, Open, client, out
    <3> QED BY <3>1, <3>2, <3>3, <3>4 DEF Inv
  \* A header that is refused.
  <2>5. CASE /\ ib_size + n >= Hdr /\ BadLength(l)
             /\ client_close /\ UNCHANGED <<ib_size, done, last>>
    <3>1. Layout' /\ Manners'
      BY StreamStays
    <3>2. Types'
      BY <1>5, <2>2, <2>3, <2>5, SMTT(30) DEF Inv, Types, client, out, client_close
    <3>3. early = 1 \/ rude = 1
      <4> SUFFICES ASSUME early = 0, rude = 0 PROVE FALSE
        BY SMTT(30) DEF Inv, Types
      <4>1. done + 1 \in 1..Len(cmds)
        <5>1. done < Len(cmds)
          BY <2>3, NextCommand
        <5>2. done \in Nat /\ Len(cmds) \in Nat
          BY DEF Inv, Types
        <5> QED BY ONLY <5>1, <5>2
      <4> QED BY <1>2, <2>3, <2>5, <4>1 DEF Inv, Manners
    <3>4. InStep' /\ Reported' /\ OutputAwaited' /\ PoliteIsServed'
      <4>1. ~Open'
        BY <2>5 DEF client_close, Open
      <4>2. InStep' /\ OutputAwaited'
        BY ONLY <4>1 DEF InStep, OutputAwaited
      <4>3. Reported'
        BY Zenon DEF Reported
      <4>4. early' = early /\ rude' = rude
        BY DEF client
      <4>5. PoliteIsServed'
        BY ONLY <3>3, <4>4 DEF PoliteIsServed
      <4> QED BY <4>2, <4>3, <4>5
    <3> QED BY <3>1, <3>2, <3>4 DEF Inv
  \* The command is complete.
  <2>6. CASE /\ ib_size + n >= Hdr /\ ~BadLength(l) /\ ib_size + n >= l
             /\ TakeCommand(base, k)
    <3>1. early = 0 => /\ l = cmds[done + 1].len /\ k = cmds[done + 1].kind
                       /\ ib_size + n = l
      BY <1>2, <1>3, <2>3, <2>6
    <3> QED BY <1>5, <2>3, <2>6, <3>1, TakingKeepsInv
  <2>7. \/ /\ ib_size + n < Hdr \/ (~BadLength(l) /\ ib_size + n < l)
           /\ ib_size' = ib_size + n
           /\ UNCHANGED <<state, events, out, done, last>>
        \/ /\ ib_size + n >= Hdr /\ BadLength(l)
           /\ client_close /\ UNCHANGED <<ib_size, done, last>>
        \/ /\ ib_size + n >= Hdr /\ ~BadLength(l) /\ ib_size + n >= l
           /\ TakeCommand(base, k)
    BY <1>5
  <2> QED BY <2>4, <2>5, <2>6, <2>7
<1> QED BY <1>1, <1>4, <1>5 DEF Input

\* Every step.
LEMMA NextKeepsInv == Inv /\ [Next]_vars => Inv'
<1> SUFFICES ASSUME Inv, [Next]_vars PROVE Inv'
  OBVIOUS
<1>1. ASSUME NEW l \in Lengths, NEW k \in CmdKinds, NewCommand(l, k) PROVE Inv'
  BY <1>1, NewCommandKeepsInv
<1>2. CASE (\E n \in 1..(Cap + 1) : WriteCommand(n)) \/ WriteData \/ Hangup
  BY <1>2, WritingKeepsInv
<1>3. ASSUME NEW room \in BOOLEAN, Poll(room) PROVE Inv'
  BY <1>3, PollKeepsInv
<1>4. CASE client_process
  <2>1. Open /\ rev' = {} /\ UNCHANGED client
    BY <1>4 DEF client_process
  <2>2. CASE state = "CONNECTED" /\ "IN" \in rev /\ device_client_process
    BY <2>1, <2>2, DataKeepsInv
  <2>3. CASE state = "CONNECTING2" /\ "IN" \in rev /\ InputWithoutBuffer
    <3>1. early = 1 \/ gone = 1
      BY <2>3, NothingAfterConnect DEF Inv, Reported, Types
    <3>2. state' \in {"closed", "lost"} /\ events' = {} /\ UNCHANGED <<in, out>>
      BY <2>3 DEF InputWithoutBuffer
    <3> QED BY <2>1, <3>1, <3>2, ClosingKeepsInv
  <2>4. CASE state \notin {"CONNECTED", "CONNECTING2"} /\ "IN" \in rev /\ input_buffer_process
    BY <2>1, <2>4, InputKeepsInv
  <2>5. CASE state # "CONNECTED" /\ "IN" \notin rev /\ output_buffer_process
    BY <2>1, <2>5, OutputKeepsInv
  <2> QED BY <1>4, <2>2, <2>3, <2>4, <2>5 DEF client_process
<1>5. CASE Accept
  <2>1. last \in Nat /\ (last <= done \/ early = 1)
    BY <1>5 DEF Accept, Inv, Types, InStep, Open
  <2> QED BY <1>5, <2>1, MessageKeepsInv DEF Accept, Open
<1>6. CASE Refuse
  <2>1. last \in Nat /\ (last <= done \/ early = 1)
    BY <1>6 DEF Refuse, Inv, Types, InStep, Open
  <2>2. events \subseteq {"IN", "OUT"}
    BY DEF Inv, Types
  <2> QED BY <1>6, <2>1, <2>2, MessageKeepsInv DEF Refuse, Open, output_buffer_add_message
<1>7. CASE Notify
  <2>1. 0 \in Nat /\ 0 <= done /\ events \subseteq {"IN", "OUT"}
    BY DEF Inv, Types
  <2> QED BY <1>7, <2>1, MessageKeepsInv DEF Notify, Open, output_buffer_add_message
<1>8. CASE UNCHANGED vars
  <2>1. UNCHANGED client /\ UNCHANGED <<state, events, rev, in, out>>
    BY <1>8 DEF vars
  <2>2. Layout' /\ Manners' /\ End' = End /\ EndOf(done)' = EndOf(done)
    BY <2>1, StreamStays DEF Inv, EndOf, client, in
  <2>3. Types' /\ Reported' /\ OutputAwaited' /\ PoliteIsServed'
    BY <2>1
    DEF Inv, Types, Reported, OutputAwaited, PoliteIsServed, Open, client, in, out
  <2>4. InStep'
    BY <2>1, <2>2 DEF Inv, InStep, Open, client, in, out, BadLength
  <2> QED BY <2>2, <2>3, <2>4 DEF Inv
<1> QED
  BY <1>1, <1>2, <1>3, <1>4, <1>5, <1>6, <1>7, <1>8 DEF Next, ClientNext, Over

(***************************************************************************)
(* Which answers have been queued.                                         *)
(***************************************************************************)
InOrder ==
  early = 0 /\ Open =>
    /\ \A i, j \in 1..Len(asked) : j < i => asked[j] < asked[i] \/ asked[i] = 0
    /\ \A i \in 1..Len(asked) : asked[i] # 0 => asked[i] \in 1..done /\ Wants(asked[i])
    /\ \A j \in 1..done : Wants(j) => \E i \in 1..Len(asked) : asked[i] = j

\* The order of the answers follows from InOrder.
LEMMA InOrderImplies == Inv /\ InOrder => AnswersInOrder
<1> SUFFICES ASSUME Inv, InOrder, early = 0, Open
             PROVE /\ \A i \in 1..Len(asked) : \A j \in 1..(i - 1) :
                        asked[j] < asked[i] \/ asked[i] = 0
                   /\ {asked[i] : i \in 1..Len(asked)} \ {0} = {i \in 1..done : Wants(i)}
  BY DEF AnswersInOrder
<1>1. \A i \in 1..Len(asked) : \A j \in 1..(i - 1) : j \in 1..Len(asked) /\ j < i
  BY DEF Inv, Types
<1>2. \A i \in 1..Len(asked) : \A j \in 1..(i - 1) : asked[j] < asked[i] \/ asked[i] = 0
  BY <1>1 DEF InOrder
<1>3. \A i \in 1..Len(asked) : asked[i] # 0 => asked[i] \in 1..done /\ Wants(asked[i])
  BY DEF InOrder
<1>4. \A j \in 1..done : j # 0 /\ (Wants(j) => \E i \in 1..Len(asked) : asked[i] = j)
  BY DEF InOrder
<1>5. {asked[i] : i \in 1..Len(asked)} \ {0} = {i \in 1..done : Wants(i)}
  BY <1>3, <1>4, Zenon
<1> QED BY <1>2, <1>5

\* No answer is queued and no command handled.
LEMMA SameAnswers ==
  ASSUME Inv, InOrder, asked' = asked, done' = done, early' = 0 => early = 0,
         Open' => Open /\ (state' = "CONNECTING1" <=> state = "CONNECTING1"),
         early = 0 /\ Open => \A i \in 1..done : cmds'[i].kind = cmds[i].kind
  PROVE  InOrder'
<1> SUFFICES ASSUME early' = 0, Open' PROVE
      /\ \A i, j \in 1..Len(asked) : j < i => asked[j] < asked[i] \/ asked[i] = 0
      /\ \A i \in 1..Len(asked) : asked[i] # 0 => asked[i] \in 1..done /\ Wants(asked[i])'
      /\ \A j \in 1..done : Wants(j)' => \E i \in 1..Len(asked) : asked[i] = j
  BY DEF InOrder, Wants
<1>1. \A j \in 1..done : Wants(j)' <=> Wants(j)
  BY DEF Wants
<1> QED BY <1>1 DEF InOrder

\* A command is handled and not answered yet.
LEMMA NoAnswer ==
  ASSUME Inv, InOrder, early = 0, Open, UNCHANGED client, asked' = asked, done' = done + 1,
         state = "COMMAND",
         \/ cmds[done + 1].kind = "mute" /\ state' = state
         \/ state' = "CONNECTING1"
  PROVE  InOrder'
<1>1. done \in Nat /\ cmds' = cmds /\ early' = early
  BY DEF Inv, Types, client
<1>2. \A j \in 1..done : j \in 1..(done + 1) /\ j # done + 1
  BY <1>1
<1>3. \A j \in 1..done : Wants(j)' <=> Wants(j)
  BY <1>1, <1>2 DEF Wants
<1>4. \A j \in 1..(done + 1) : j = done + 1 => ~Wants(j)'
  BY <1>1 DEF Wants
<1>5. \A j \in 1..(done + 1) : j \in 1..done \/ j = done + 1
  BY <1>1
<1>6. \A i \in 1..Len(asked) : asked[i] # 0 => asked[i] \in 1..(done + 1) /\ Wants(asked[i])'
  BY <1>2, <1>3 DEF InOrder
<1>7. \A j \in 1..(done + 1) : Wants(j)' => \E i \in 1..Len(asked) : asked[i] = j
  BY <1>3, <1>4, <1>5 DEF InOrder
<1> QED BY <1>6, <1>7 DEF InOrder, Wants

\* An answer to the command with the number done, or an event.
LEMMA OneMoreAnswer ==
  ASSUME Inv, InOrder, early = 0, Open, UNCHANGED client, NEW tag \in Nat,
         asked' = Append(asked, tag), state' # "CONNECTING1", done' \in {done, done + 1},
         \/ tag = 0 /\ done' = done /\ state # "CONNECTING1"
         \/ /\ tag = done' /\ done' > 0 /\ cmds[tag].kind # "mute"
            /\ state = "CONNECTING1" <=> done' = done
  PROVE  InOrder'
<1>1. done \in Nat /\ cmds' = cmds /\ early' = early /\ Len(asked) \in Nat
  BY DEF Inv, Types, client
<1>2. /\ Len(asked') = Len(asked) + 1 /\ asked'[Len(asked) + 1] = tag
      /\ \A i \in 1..Len(asked) : asked'[i] = asked[i] /\ asked[i] \in Nat
  BY DEF Inv, Types
<1>3. \A i \in 1..Len(asked') : i \in 1..Len(asked) \/ i = Len(asked) + 1
  BY <1>1, <1>2
\* What has been answered before keeps being asked for, and was asked for earlier.
<1>4. \A i \in 1..Len(asked) : asked[i] # 0 => asked[i] \in 1..done /\ Wants(asked[i])
  BY DEF InOrder
<1>5. \A j \in 1..done : Wants(j) => j \in 1..done' /\ Wants(j)' /\ (tag # 0 => j < tag)
  BY <1>1 DEF Wants
<1>6. \A j \in 1..done' : Wants(j)' => j = tag \/ (j \in 1..done /\ Wants(j))
  BY <1>1 DEF Wants
<1>7. tag # 0 => tag \in 1..done' /\ \A j \in 1..done' : j = tag => Wants(j)'
  BY <1>1 DEF Wants
<1>8. \A i, j \in 1..Len(asked') : j < i => asked'[j] < asked'[i] \/ asked'[i] = 0
  <2> SUFFICES ASSUME NEW i \in 1..Len(asked'), NEW j \in 1..Len(asked'), j < i, asked'[i] # 0
               PROVE  asked'[j] < asked'[i]
    OBVIOUS
  <2>1. j \in 1..Len(asked)
    BY <1>1, <1>2, <1>3
  <2>2. CASE i \in 1..Len(asked)
    BY <1>2, <2>1, <2>2 DEF InOrder
  <2>3. CASE i = Len(asked) + 1
    <3>1. tag # 0 /\ asked'[i] = tag /\ asked'[j] = asked[j]
      BY <1>2, <2>1, <2>3
    <3>2. asked[j] = 0 \/ asked[j] < tag
      BY <1>4, <1>5, <2>1, <3>1
    <3> QED BY <3>1, <3>2
  <2> QED BY <1>3, <2>2, <2>3
<1>9. ASSUME NEW i \in 1..Len(asked'), asked'[i] # 0
      PROVE  asked'[i] \in 1..done' /\ Wants(asked[i])'
  <2>1. CASE i \in 1..Len(asked)
    BY <1>2, <1>4, <1>5, <1>9, <2>1
  <2>2. CASE i = Len(asked) + 1
    BY <1>2, <1>7, <1>9, <2>2
  <2> QED BY <1>3, <2>1, <2>2
<1>10. ASSUME NEW j \in 1..done', Wants(j)' PROVE \E i \in 1..Len(asked') : asked'[i] = j
  <2>1. CASE j = tag
    <3>1. Len(asked) + 1 \in 1..Len(asked') /\ asked'[Len(asked) + 1] = j
      BY <1>1, <1>2, <2>1
    <3> QED BY <3>1
  <2>2. CASE j \in 1..done /\ Wants(j)
    <3>1. PICK i \in 1..Len(asked) : asked[i] = j
      BY <2>2 DEF InOrder
    <3>2. i \in 1..Len(asked') /\ asked'[i] = j
      BY <1>1, <1>2, <3>1
    <3> QED BY <3>2
  <2> QED BY <1>6, <1>10, <2>1, <2>2
<1> QED BY <1>8, <1>9, <1>10 DEF InOrder, Wants


\* input_buffer_process.
LEMMA InputKeepsOrder ==
  ASSUME Inv, InOrder, UNCHANGED client, Open,
         state \notin {"CONNECTED", "CONNECTING2"}, input_buffer_process
  PROVE  InOrder'
<1> SUFFICES ASSUME early = 0 PROVE InOrder'
  BY DEF InOrder, client
<1> DEFINE base == read - ib_size
<1>1. cmds' = cmds /\ early' = early
  BY DEF client
<1>2. PICK l \in LengthsAt(base), k \in KindsAt(base) :
        Input(base, l, k, IF Avail < Wanted(ib_size, l) THEN Avail ELSE Wanted(ib_size, l))
  BY DEF input_buffer_process
<1> DEFINE n == IF Avail < Wanted(ib_size, l) THEN Avail ELSE Wanted(ib_size, l)
<1>3. CASE UNCHANGED <<asked, done>> /\ (state' = state \/ state' = "closed")
  BY <1>1, <1>3, SameAnswers DEF Open
<1>4. CASE n > 0 /\ TakeCommand(base, k)
  <2>1. /\ l \in Int /\ read \in Nat /\ written \in Nat
        /\ ib_size \in Nat /\ Hdr \in Nat
    BY LengthsInt, FramingAssumption DEF Inv, Types
  <2>2. read < written
    BY <1>4, <2>1, SMTT(30) DEF Avail, Wanted
  <2>3. CmdAt(base) = done + 1 /\ k = cmds[done + 1].kind /\ done \in Nat
    BY <2>2, NextCommand DEF Inv, Types
  <2>4. handle_command(done + 1, k) /\ done' = done + 1
    BY <1>4, <2>3, SMTT(30) DEF TakeCommand
  <2>5. CASE state # "COMMAND" /\ client_close
    BY <2>5, SMTT(30) DEF client_close, InOrder, Open
  <2>6. CASE state = "COMMAND" /\ k = "mute" /\ UNCHANGED <<state, events, out>>
    BY <2>3, <2>4, <2>6, NoAnswer DEF out
  <2>7. CASE /\ state = "COMMAND" /\ k = "connect"
             /\ state' = "CONNECTING1" /\ UNCHANGED <<events, out>>
    BY <2>3, <2>4, <2>7, NoAnswer DEF out
  <2>8. CASE /\ state = "COMMAND" /\ k # "mute"
             /\ state' = IF k = "listen" THEN "LISTEN" ELSE state
             /\ output_buffer_add_message(done + 1)
    <3>1. asked' = Append(asked, done + 1) /\ state' # "CONNECTING1"
      BY <2>8 DEF output_buffer_add_message
    <3>2. done + 1 \in Nat /\ done + 1 > 0 /\ done + 1 # done
      BY <2>3
    <3> QED BY <2>3, <2>4, <2>8, <3>1, <3>2, OneMoreAnswer
  <2> QED BY <2>4, <2>5, <2>6, <2>7, <2>8 DEF handle_command
<1> HIDE DEF n
<1>5. (UNCHANGED <<asked, done>> /\ (state' = state \/ state' = "closed"))
      \/ (n > 0 /\ TakeCommand(base, k))
  BY <1>2 DEF Input, client_close, in, out, n
<1> QED BY <1>3, <1>4, <1>5

\* Every step keeps the order of the answers.
LEMMA NextKeepsOrder == Inv /\ InOrder /\ [Next]_vars => InOrder'
<1> SUFFICES ASSUME Inv, InOrder, [Next]_vars PROVE InOrder'
  OBVIOUS
<1>1. ASSUME NEW l \in Lengths, NEW k \in CmdKinds, NewCommand(l, k) PROVE InOrder'
  <2>1. asked' = asked /\ done' = done /\ early' = early /\ state' = state
    BY <1>1 DEF NewCommand, in, out
  <2>2. early = 0 /\ Open => \A i \in 1..done : i \in 1..Len(cmds)
    <3> SUFFICES ASSUME early = 0, Open PROVE \A i \in 1..done : i \in 1..Len(cmds)
      OBVIOUS
    <3>1. done <= Len(cmds)
      BY DEF Inv, InStep
    <3>2. done \in Nat /\ Len(cmds) \in Nat
      BY DEF Inv, Types
    <3> QED BY ONLY <3>1, <3>2
  <2>3. cmds' = Append(cmds, [from |-> End, len |-> l, kind |-> k])
    BY <1>1 DEF NewCommand
  <2>4. \A i \in 1..Len(cmds) : cmds'[i] = cmds[i]
    BY <2>3 DEF Inv, Types
  <2> QED BY <2>1, <2>2, <2>4, SameAnswers DEF Open
<1>2. ASSUME cmds' = cmds, early' = 0 => early = 0, UNCHANGED <<state, in, out>>
      PROVE  InOrder'
  BY <1>2, SameAnswers DEF in, out, Open
<1>3. CASE (\E n \in 1..(Cap + 1) : WriteCommand(n)) \/ WriteData \/ Hangup
  <2>1. cmds' = cmds /\ UNCHANGED <<state, in, out>>
    BY <1>3 DEF WriteCommand, WriteData, Hangup
  <2>2. early' = 0 => early = 0
    BY <1>3 DEF WriteCommand, WriteData, Hangup
  <2> QED BY <1>2, <2>1, <2>2
<1>4. CASE \E room \in BOOLEAN : Poll(room)
  BY <1>2, <1>4 DEF Poll, client
<1>5. CASE client_process
  <2>1. Open /\ UNCHANGED client /\ cmds' = cmds /\ early' = early
    BY <1>5 DEF client_process, client
  <2>2. ASSUME UNCHANGED <<asked, done>>,
               \/ state' \in {state, "closed", "lost"}
               \/ state = "CONNECTING2" /\ state' = "CONNECTED"
        PROVE  InOrder'
    BY <2>1, <2>2, SameAnswers DEF Open
  <2>3. CASE device_client_process
    <3>1. UNCHANGED <<asked, done>> /\ state' \in {state, "closed"}
      BY <2>3 DEF device_client_process, client_close, in, out
    <3> QED BY <2>2, <3>1
  <2>4. CASE InputWithoutBuffer
    <3>1. UNCHANGED <<asked, done>> /\ state' \in {"lost", "closed"}
      BY <2>4 DEF InputWithoutBuffer, in, out
    <3> QED BY <2>2, <3>1
  <2>5. CASE output_buffer_process
    <3>1. UNCHANGED <<asked, done>>
      BY <2>5 DEF output_buffer_process, SendSome, client_close, in, out
    <3>2. \/ state' \in {state, "closed"}
          \/ state = "CONNECTING2" /\ state' = "CONNECTED"
      BY <2>5 DEF output_buffer_process, SendSome, client_close
    <3> QED BY <2>2, <3>1, <3>2
  <2>6. CASE state \notin {"CONNECTED", "CONNECTING2"} /\ input_buffer_process
    BY <2>1, <2>6, InputKeepsOrder
  <2> QED BY <1>5, <2>3, <2>4, <2>5, <2>6 DEF client_process
<1>6. CASE Accept \/ Refuse
  <2>1. /\ state = "CONNECTING1" /\ asked' = Append(asked, last) /\ state' # "CONNECTING1"
        /\ UNCHANGED client /\ done' = done /\ Open /\ early' = early
    BY <1>6 DEF Accept, Refuse, output_buffer_add_message, Open, in, client
  <2> SUFFICES ASSUME early = 0 PROVE InOrder'
    BY <2>1 DEF InOrder
  <2>2. last = done /\ done > 0 /\ cmds[done].kind = "connect" /\ done \in Nat
    BY <2>1 DEF Inv, InStep, Types
  <2> QED BY <2>1, <2>2, OneMoreAnswer
<1>7. CASE Notify
  <2>1. /\ state = "LISTEN" /\ asked' = Append(asked, 0) /\ state' = state
        /\ UNCHANGED client /\ done' = done /\ Open /\ early' = early
    BY <1>7 DEF Notify, output_buffer_add_message, Open, in, client
  <2> SUFFICES ASSUME early = 0 PROVE InOrder'
    BY <2>1 DEF InOrder
  <2> QED BY <2>1, OneMoreAnswer
<1>8. CASE UNCHANGED vars
  BY <1>2, <1>8 DEF vars, client
<1> QED
  BY <1>1, <1>3, <1>4, <1>5, <1>6, <1>7, <1>8, SMTT(30) DEF Next, ClientNext, Over

(***************************************************************************)
(* Theorems.                                                               *)
(***************************************************************************)
\* The inductive invariant holds of every reachable state.
THEOREM Invariant == Spec => []Inv
<1>1. Init => Inv
  BY InitInv
<1>2. Inv /\ [Next]_vars => Inv'
  BY NextKeepsInv
<1> QED BY <1>1, <1>2, PTL DEF Spec

\* Commands are cut from the stream where the client put their boundaries.
THEOREM FramingInStep == Spec => []CommandsInStep
<1>1. Inv => CommandsInStep
  BY DEF Inv, InStep, CommandsInStep
<1> QED BY <1>1, Invariant, PTL

\* Every command that wants one has one answer, in the order of the commands.
THEOREM AnswersKeepOrder == Spec => []AnswersInOrder
<1>1. Init => InOrder
  BY DEF Init, InOrder
<1>2. Inv /\ InOrder /\ [Next]_vars => InOrder'
  BY NextKeepsOrder
<1>3. Spec => []InOrder
  BY <1>1, <1>2, Invariant, PTL DEF Spec
<1> QED BY <1>3, Invariant, InOrderImplies, PTL

\* Answers leave whole and in order, and what is left of them is waited for.
THEOREM OutputIsAwaited == Spec => []OutputAwaited
<1>1. Inv => OutputAwaited
  BY DEF Inv
<1> QED BY <1>1, Invariant, PTL

\* The daemon does not close, or read the freed buffer of, a client that keeps
\* to the protocol.
THEOREM PoliteClientsStay == Spec => []PoliteIsServed
<1>1. Inv => PoliteIsServed
  BY DEF Inv
<1> QED BY <1>1, Invariant, PTL

\* What the types say of ib_buf and of the numbers of commands.
Bounded ==
  /\ ib_size <= Cap
  /\ last \in 0..Len(cmds) /\ \A i \in 1..Len(asked) : asked[i] \in 0..Len(cmds)

\* What a step may do to them: take part of a command that fits, or all of it,
\* and queue an answer to a command of the client.
Bounds ==
  /\ ib_size' <= Cap
  /\ last' \in 0..Len(cmds)
  /\ \/ asked' = asked
     \/ \E t \in 0..Len(cmds) : asked' = Append(asked, t)

\* Input is cut off at the capacity.
LEMMA InputBounds ==
  ASSUME Types, Bounded, input_buffer_process
  PROVE  Bounds
<1> DEFINE base == read - ib_size
           tag == CmdAt(base)
<1>1. tag \in 0..Len(cmds) /\ Len(cmds) \in Nat
  <2>1. Len(cmds) \in Nat
    BY DEF Types
  <2>2. CASE \E i \in 1..Len(cmds) : cmds[i].from = base
    <3>1. tag \in 1..Len(cmds)
      BY <2>2 DEF CmdAt
    <3> QED BY <2>1, <3>1
  <2>3. CASE ~\E i \in 1..Len(cmds) : cmds[i].from = base
    BY <2>1, <2>3 DEF CmdAt
  <2> QED BY <2>1, <2>2, <2>3
<1> HIDE DEF tag
<1>a. PICK l \in LengthsAt(base), k \in KindsAt(base) : \E n : Input(base, l, k, n)
  BY DEF input_buffer_process
<1>2. PICK n : Input(base, l, k, n)
  BY <1>a
<1>3. \/ /\ UNCHANGED <<ib_size, last, asked>>
      \/ /\ n > 0 /\ ib_size' = ib_size + n /\ UNCHANGED <<last, asked>>
         /\ ib_size + n < Hdr \/ (~BadLength(l) /\ ib_size + n < l)
      \/ TakeCommand(base, k)
  BY <1>2 DEF Input, client_close, in, out
<1>4. CASE UNCHANGED <<ib_size, last, asked>>
  BY <1>4 DEF Bounded, Bounds
<1>5. CASE /\ n > 0 /\ ib_size' = ib_size + n /\ UNCHANGED <<last, asked>>
           /\ ib_size + n < Hdr \/ (~BadLength(l) /\ ib_size + n < l)
  <2>0. l \in Int
    <3>1. CASE tag = 0
      BY <3>1, FramingAssumption DEF LengthsAt, Lengths, tag
    <3>2. CASE tag # 0
      <4>1. tag \in 1..Len(cmds)
        BY <1>1, <3>2
      <4>2. cmds[tag].len \in Nat
        BY <4>1, OfCommand
      <4>3. l = cmds[tag].len
        BY <3>2 DEF LengthsAt, tag
      <4> QED BY <4>2, <4>3
    <3> QED BY <3>1, <3>2
  <2>1. ib_size' < Hdr \/ (l <= Cap /\ ib_size' < l)
    BY <1>5, <2>0, FramingAssumption DEF BadLength
  <2>2. ib_size' <= Cap
    <3>1. ib_size' \in Int /\ l \in Int /\ Hdr \in Int /\ Cap \in Int /\ Hdr <= Cap
      BY <1>5, <2>0, FramingAssumption DEF Types
    <3> QED BY <2>1, <3>1
  <2> QED BY <1>5, <2>2 DEF Bounded, Bounds
<1>6. CASE TakeCommand(base, k)
  <2>1. ib_size' <= Cap /\ last' = tag
    BY <1>6, FramingAssumption DEF TakeCommand, tag
  <2>2. asked' = asked \/ asked' = Append(asked, tag)
    BY <1>6 DEF TakeCommand, handle_command, client_close, output_buffer_add_message, out, tag
  <2> QED BY <1>1, <2>1, <2>2 DEF Bounds
<1> QED BY <1>3, <1>4, <1>5, <1>6

\* No other step adds to the input.
LEMMA NextBounds == ASSUME Types, Bounded, [Next]_vars PROVE Bounds
<1>0. Len(cmds) \in Nat
  BY DEF Types
<1>1. CASE UNCHANGED <<ib_size, last, asked>>
  BY <1>1 DEF Bounded, Bounds
<1>2. CASE ClientNext \/ Over \/ (\E room \in BOOLEAN : Poll(room)) \/ UNCHANGED vars
  BY <1>1, <1>2 DEF ClientNext, NewCommand, WriteCommand, WriteData, Hangup, Over, Poll, vars,
                    in, out
<1>3. CASE client_process
  <2>1. input_buffer_process \/ UNCHANGED <<ib_size, last, asked>>
    BY <1>3 DEF client_process, device_client_process, InputWithoutBuffer,
                output_buffer_process, SendSome, client_close, in, out
  <2> QED BY <1>1, <2>1, InputBounds
<1>4. CASE Accept \/ Refuse
  BY <1>4 DEF Accept, Refuse, output_buffer_add_message, Bounded, Bounds, in
<1>5. CASE Notify
  BY <1>0, <1>5 DEF Notify, output_buffer_add_message, Bounded, Bounds, in
<1> QED BY <1>2, <1>3, <1>4, <1>5 DEF Next

\* The types; above all, ib_buf never holds more than its capacity, whatever
\* lengths the client writes into its headers, and whether or not it waits for the
\* answer to Connect (input_buffer_process).
THEOREM TypeCorrect == Spec => []TypeOK
<1>1. Init => Bounded
  BY FramingAssumption DEF Init, Bounded
<1>2. ASSUME Inv, Inv', Bounded, [Next]_vars PROVE Bounded'
  <2>1. Bounds /\ Types /\ Types'
    BY <1>2, NextBounds DEF Inv
  <2>2. Len(cmds) \in Nat /\ Len(cmds') \in Nat /\ Len(cmds) <= Len(cmds')
    <3>1. cmds' = cmds \/ \E c : cmds' = Append(cmds, c)
      BY <1>2 DEF Next, ClientNext, NewCommand, WriteCommand, WriteData, Hangup, Poll,
                  client_process, Accept, Refuse, Notify, Over, vars, client
    <3>2. ASSUME NEW c, cmds' = Append(cmds, c) PROVE Len(cmds') = Len(cmds) + 1
      BY <2>1, <3>2 DEF Types
    <3>3. Len(cmds) \in Nat /\ Len(cmds') \in Nat
      BY <2>1 DEF Types
    <3> QED BY ONLY <3>1, <3>2, <3>3
  <2>3. ASSUME NEW i \in 1..Len(asked') PROVE asked'[i] \in 0..Len(cmds')
    <3>1. CASE asked' = asked
      BY <2>2, <2>3, <3>1, <1>2 DEF Bounded
    <3>2. ASSUME NEW t \in 0..Len(cmds), asked' = Append(asked, t)
          PROVE  asked'[i] \in 0..Len(cmds')
      <4>1. (i \in 1..Len(asked) /\ asked'[i] = asked[i]) \/ asked'[i] = t
        <5>1. asked \in Seq(Nat) /\ Len(asked) \in Nat /\ t \in Nat
          BY <2>1, <2>2, <3>2 DEF Types
        <5>2. /\ Len(asked') = Len(asked) + 1 /\ asked'[Len(asked) + 1] = t
              /\ \A j \in 1..Len(asked) : asked'[j] = asked[j]
          BY <3>2, <5>1
        <5>3. i \in 1..Len(asked) \/ i = Len(asked) + 1
          BY <2>3, <5>1, <5>2
        <5> QED BY <5>2, <5>3
      <4> QED BY <1>2, <2>2, <3>2, <4>1 DEF Bounded
    <3> QED BY <2>1, <3>1, <3>2 DEF Bounds
  <2> QED BY <2>1, <2>2, <2>3 DEF Bounds, Bounded
<1>3. ASSUME Inv, Bounded PROVE TypeOK
  <2>1. Types
    BY <1>3 DEF Inv
  <2>2. asked \in Seq(0..Len(cmds))
    <3>1. asked \in Seq(Nat) /\ \A i \in 1..Len(asked) : asked[i] \in 0..Len(cmds)
      BY <1>3, <2>1 DEF Types, Bounded
    <3> QED BY <3>1
  <2>3. read \in 0..written /\ ib_size \in 0..Cap
    BY <1>3, <2>1, FramingAssumption DEF Types, Bounded
  <2> QED BY <1>3, <2>1, <2>2, <2>3 DEF Types, Bounded, TypeOK
<1> QED BY <1>1, <1>2, <1>3, Invariant, PTL DEF Spec
=============================================================================
