--------------------------- MODULE ClientFraming ---------------------------
(***************************************************************************)
(* One client socket, byte by byte: how input_buffer_process cuts commands *)
(* from what recv() returns, how answers leave ob_buf in parts, and how    *)
(* the socket turns from commands into the data of a connection.  Bytes    *)
(* are told by their position in the stream, so a command is a range of    *)
(* positions and the header of a command is what is found where one        *)
(* starts.  What ppoll reported may be old when it is acted on: the USB    *)
(* side of the same iteration of the main loop runs first.                 *)
(***************************************************************************)
EXTENDS Integers, Sequences

CONSTANTS
  Hdr,       \* sizeof(struct usbmuxd_header)
  Cap,       \* CMD_BUF_SIZE
  Answer,    \* bytes of an answer
  MaxCmds,   \* bound: commands the client writes
  MaxData,   \* bound: bytes of data it writes after them
  MaxOut     \* bound: messages queued for a listener so far, when an event comes

ASSUME FramingAssumption ==
  /\ Hdr \in Nat \ {0} /\ Cap \in Nat /\ Hdr <= Cap
  /\ Answer \in Nat \ {0} /\ MaxCmds \in Nat /\ MaxData \in Nat /\ MaxOut \in Nat

\* "ask": answered at once, whatever the answer; "mute": a plist that does not
\* parse, which is not answered.
CmdKinds == {"ask", "mute", "listen", "connect"}
Lengths == 1..(Cap + 2)

VARIABLES
  cmds,     \* what the client has written: [from, len, kind], in order
  written,  \* bytes it has written, data included
  gone,     \* 1 once it has closed its end
  early,    \* 1 once it wrote on while it had to wait for the answer to Connect
  rude,     \* 1 once it wrote a command that is too long or short, or not allowed
  state,    \* client->state; "closed": freed; "lost": ib_buf was used after free
  events,   \* client->events
  rev,      \* what ppoll returned and client_process has not seen yet
  read,     \* bytes taken by recv()
  ib_size,  \* of them, those in ib_buf
  done,     \* commands handed to handle_command
  last,     \* which command the last one was, 0 if none of the client's
  fwd,      \* bytes given to device_client_process
  asked,    \* tags of the answers queued, in order
  ob_size,  \* bytes in ob_buf
  sent      \* bytes taken by send()

client == <<cmds, written, gone, early, rude>>
in == <<read, ib_size, done, last, fwd>>
out == <<asked, ob_size, sent>>
vars == <<client, state, events, rev, in, out>>

Open == state \notin {"closed", "lost"}
EndOf(i) == IF i = 0 THEN 0 ELSE cmds[i].from + cmds[i].len
End == EndOf(Len(cmds))
Avail == written - read

Init ==
  /\ cmds = <<>> /\ written = 0 /\ gone = 0 /\ early = 0 /\ rude = 0
  /\ state = "COMMAND" /\ events = {"IN"} /\ rev = {}
  /\ read = 0 /\ ib_size = 0 /\ done = 0 /\ last = 0 /\ fwd = 0
  /\ asked = <<>> /\ ob_size = 0 /\ sent = 0

(***************************************************************************)
(* The client.                                                             *)
(***************************************************************************)
\* Has it written a Connect that it has not seen refused?
Connects == cmds # <<>> /\ cmds[Len(cmds)].kind = "connect"
Answered(i) == \E k \in 1..Len(asked) : asked[k] = i /\ k * Answer <= sent
Listens == \E i \in 1..Len(cmds) : cmds[i].kind = "listen"

\* It begins a command when the one before is written, and after Connect only
\* when the answer is there and says no.
NewCommand(l, k) ==
  /\ gone = 0 /\ early = 0 /\ written = End /\ Len(cmds) < MaxCmds
  /\ Connects => Answered(Len(cmds)) /\ state = "COMMAND"
  /\ cmds' = Append(cmds, [from |-> End, len |-> l, kind |-> k])
  /\ rude' = IF l < Hdr \/ l > Cap \/ Listens THEN 1 ELSE rude
  /\ UNCHANGED <<written, gone, early, state, events, rev, in, out>>

\* It writes some of it ...
WriteCommand(n) ==
  /\ gone = 0 /\ written + n <= End
  /\ written' = written + n
  /\ UNCHANGED <<cmds, gone, early, rude, state, events, rev, in, out>>

\* ... or data for the device, too early if the answer is not there.
WriteData ==
  /\ gone = 0 /\ Connects /\ written >= End /\ written < End + MaxData
  /\ Answered(Len(cmds)) => state = "CONNECTED"
  /\ written' = written + 1
  /\ early' = IF Answered(Len(cmds)) THEN early ELSE 1
  /\ UNCHANGED <<cmds, gone, rude, state, events, rev, in, out>>

Hangup ==
  /\ gone = 0
  /\ gone' = 1
  /\ UNCHANGED <<cmds, written, early, rude, state, events, rev, in, out>>

(***************************************************************************)
(* Output.                                                                 *)
(***************************************************************************)
NoWakeup(tag) ==
  /\ asked' = Append(asked, tag)
  /\ ob_size' = ob_size + Answer
  /\ UNCHANGED <<events, sent>>

\* output_buffer_add_message, which grows ob_buf as needed.
output_buffer_add_message(tag) ==
  /\ asked' = Append(asked, tag)
  /\ ob_size' = ob_size + Answer
  /\ events' = events \cup {"OUT"}
  /\ UNCHANGED sent

client_close == state' = "closed" /\ events' = {} /\ UNCHANGED out

SwitchOnAnySend(n) ==
  /\ sent' = sent + n /\ ob_size' = ob_size - n
  /\ IF state = "CONNECTING2" THEN state' = "CONNECTED" /\ events' = {"IN"}
     ELSE /\ events' = (IF n = ob_size THEN events \ {"OUT"} ELSE events)
          /\ UNCHANGED state
  /\ UNCHANGED asked

\* send() takes n bytes: with all of them out a waiting client is connected.
SendSome(n) ==
  /\ sent' = sent + n /\ ob_size' = ob_size - n
  /\ \/ n < ob_size /\ UNCHANGED <<state, events>>
     \/ n = ob_size /\ state = "CONNECTING2" /\ state' = "CONNECTED" /\ events' = {"IN"}
     \/ n = ob_size /\ state # "CONNECTING2" /\ UNCHANGED state
        /\ events' = events \ {"OUT"}
  /\ UNCHANGED asked

\* output_buffer_process; send() fails if the client is gone.
output_buffer_process ==
  /\ \/ ob_size = 0 /\ events' = events \ {"OUT"} /\ UNCHANGED <<state, out>>
     \/ ob_size > 0 /\ gone = 1 /\ client_close
     \/ \E n \in 1..ob_size : SendSome(n)
  /\ UNCHANGED in

(***************************************************************************)
(* Input.                                                                  *)
(***************************************************************************)
\* The command that starts at position p, 0 if none does.
CmdAt(p) ==
  IF \E i \in 1..Len(cmds) : cmds[i].from = p
  THEN CHOOSE i \in 1..Len(cmds) : cmds[i].from = p ELSE 0
LengthsAt(p) ==                  \* what is no header was taken for one before
  IF CmdAt(p) = 0 THEN {l \in Lengths : ib_size >= Hdr => l \in (ib_size + 1)..Cap}
  ELSE {cmds[CmdAt(p)].len}
KindsAt(p) == IF CmdAt(p) = 0 THEN CmdKinds ELSE {cmds[CmdAt(p)].kind}

AnsweredAtOnce(tag, k) ==
  \/ state # "COMMAND" /\ client_close
  \/ state = "COMMAND" /\ k = "mute" /\ UNCHANGED <<state, events, out>>
  \/ /\ state = "COMMAND" /\ k # "mute"
     /\ state' \in (IF k = "listen" THEN {"LISTEN"} ELSE
                    IF k = "connect" THEN {state, "CONNECTING1"} ELSE {state})
     /\ output_buffer_add_message(tag)

\* handle_command.
handle_command(tag, k) ==
  \/ /\ state # "COMMAND"                                \* in the wrong state
     /\ client_close
  \/ /\ state = "COMMAND" /\ k = "mute"
     /\ UNCHANGED <<state, events, out>>
  \/ /\ state = "COMMAND" /\ k = "connect"               \* device_start_connect
     /\ state' = "CONNECTING1"
     /\ UNCHANGED <<events, out>>
  \/ /\ state = "COMMAND" /\ k # "mute"                  \* answered at once
     /\ state' = IF k = "listen" THEN "LISTEN" ELSE state
     /\ output_buffer_add_message(tag)

KeepsSize(base, k) ==
  /\ handle_command(CmdAt(base), k)
  /\ last' = CmdAt(base) /\ done' = done + 1
  /\ ib_size' = Hdr

\* ib_buf holds a whole command.
TakeCommand(base, k) ==
  /\ handle_command(CmdAt(base), k)
  /\ last' = CmdAt(base) /\ done' = done + 1
  /\ ib_size' = 0

WantsTooMuch(size, l) == IF size < Hdr THEN Hdr + 1 - size ELSE l - size

\* How many bytes recv() is asked for: the header, then the rest of the command.
Wanted(size, l) == IF size < Hdr THEN Hdr - size ELSE l - size

NoLengthCheck(l) == FALSE

\* hdr->length against ib_capacity and the size of the header.
BadLength(l) == l > Cap \/ l < Hdr

\* recv() has brought n bytes of a command that begins at base: none at the end
\* of the stream; not yet a header or a command; a header that is refused; with
\* them a command is complete.
Input(base, l, k, n) ==
  \/ n = 0 /\ client_close /\ UNCHANGED in
  \/ /\ n > 0 /\ read' = read + n /\ UNCHANGED fwd
     /\ \/ /\ ib_size + n < Hdr \/ (~BadLength(l) /\ ib_size + n < l)
           /\ ib_size' = ib_size + n
           /\ UNCHANGED <<state, events, out, done, last>>
        \/ /\ ib_size + n >= Hdr /\ BadLength(l)
           /\ client_close /\ UNCHANGED <<ib_size, done, last>>
        \/ /\ ib_size + n >= Hdr /\ ~BadLength(l) /\ ib_size + n >= l
           /\ TakeCommand(base, k)

\* input_buffer_process.  One recv() each time: with the header only just read,
\* the rest waits for the next iteration.
input_buffer_process ==
  LET base == read - ib_size
  IN  \E l \in LengthsAt(base), k \in KindsAt(base) :
        LET w == Wanted(ib_size, l)
        IN  Input(base, l, k, IF Avail < w THEN Avail ELSE w)

\* The same after client_notify_connect: recv() into no buffer fails, and a
\* header that was in it is read all the same.
InputWithoutBuffer ==
  /\ state' = IF ib_size < Hdr THEN "closed" ELSE "lost"
  /\ events' = {} /\ UNCHANGED <<in, out>>

\* device_client_process, POLLIN: any number of bytes, or the end of stream.
device_client_process ==
  \/ /\ Avail = 0 /\ client_close /\ UNCHANGED in
  \/ \E n \in 1..Avail :
       /\ read' = read + n /\ fwd' = fwd + n
       /\ UNCHANGED <<state, events, out, ib_size, done, last>>

(***************************************************************************)
(* The main loop and the device.                                           *)
(***************************************************************************)
\* ppoll: the socket has input, or room for output, or both.
Poll(room) ==
  /\ Open /\ rev = {}
  /\ rev' = events \cap ((IF Avail > 0 \/ gone = 1 THEN {"IN"} ELSE {}) \cup
                         (IF room \/ gone = 1 THEN {"OUT"} ELSE {}))
  /\ rev' # {}
  /\ UNCHANGED <<client, state, events, in, out>>

\* client_process: input goes first, "not both in case client died".
client_process ==
  /\ Open /\ rev # {}
  /\ rev' = {}
  /\ \/ state = "CONNECTED" /\ "IN" \in rev /\ device_client_process
     \/ state = "CONNECTING2" /\ "IN" \in rev /\ InputWithoutBuffer
     \/ state \notin {"CONNECTED", "CONNECTING2"} /\ "IN" \in rev /\ input_buffer_process
     \/ state # "CONNECTED" /\ "IN" \notin rev /\ output_buffer_process
  /\ UNCHANGED client

\* client_notify_connect(RESULT_OK): ib_buf is freed.
Accept ==
  /\ state = "CONNECTING1"
  /\ asked' = Append(asked, last) /\ ob_size' = ob_size + Answer /\ UNCHANGED sent
  /\ state' = "CONNECTING2" /\ events' = {"OUT"}
  /\ UNCHANGED <<client, rev, in>>

\* client_notify_connect with another result.
Refuse ==
  /\ state = "CONNECTING1"
  /\ output_buffer_add_message(last)
  /\ state' = "COMMAND"
  /\ UNCHANGED <<client, rev, in>>

\* A listener is told of a device; the tag is 0.
Notify ==
  /\ state = "LISTEN" /\ Len(asked) < MaxOut
  /\ output_buffer_add_message(0)
  /\ UNCHANGED <<client, state, rev, in>>

\* The client is closed and everything is quiet.
Over == ~Open /\ UNCHANGED vars

ClientNext ==
  \/ \E l \in Lengths, k \in CmdKinds : NewCommand(l, k)
  \/ \E n \in 1..(Cap + 1) : WriteCommand(n)
  \/ WriteData \/ Hangup

Next ==
  \/ ClientNext
  \/ \E room \in BOOLEAN : Poll(room)
  \/ client_process \/ Accept \/ Refuse \/ Notify \/ Over

\* The main loop goes round, the client reads what it is sent, the device
\* answers, and the client completes a command that it has begun.
Fairness ==
  /\ WF_vars(Poll(TRUE)) /\ WF_vars(client_process)
  /\ WF_vars(Accept \/ Refuse)
  /\ WF_vars(\E n \in 1..(Cap + 1) : WriteCommand(n))

Spec == Init /\ [][Next]_vars /\ Fairness

(***************************************************************************)
(* Properties.                                                             *)
(***************************************************************************)
\* The types; ib_buf never holds more than its capacity.
TypeOK ==
  /\ cmds \in Seq([from : Nat, len : Lengths, kind : CmdKinds])
  /\ written \in Nat /\ gone \in {0, 1} /\ early \in {0, 1} /\ rude \in {0, 1}
  /\ state \in {"COMMAND", "LISTEN", "CONNECTING1", "CONNECTING2", "CONNECTED",
                "closed", "lost"}
  /\ events \subseteq {"IN", "OUT"} /\ rev \subseteq {"IN", "OUT"}
  /\ read \in 0..written /\ ib_size \in 0..Cap
  /\ done \in Nat /\ last \in 0..Len(cmds) /\ fwd \in Nat
  /\ asked \in Seq(0..Len(cmds)) /\ ob_size \in Nat /\ sent \in Nat

\* Commands are handled once each, in order and whole, however the socket cuts
\* them: the last one handled is the one its number says, and ib_buf begins
\* where the next one does.  (input_buffer_process.)
CommandsInStep ==
  early = 0 /\ Open =>
    /\ last = done
    /\ read - ib_size - fwd = EndOf(done)

\* Every command that wants an answer has exactly one, in the order of the
\* commands, but for a Connect that waits for the device.  (handle_command,
\* client_notify_connect.)
Wants(i) == cmds[i].kind # "mute" /\ ~(state = "CONNECTING1" /\ i = done)
AnswersInOrder ==
  early = 0 /\ Open =>
    /\ \A i \in 1..Len(asked) : \A j \in 1..(i - 1) : asked[j] < asked[i] \/ asked[i] = 0
    /\ {asked[i] : i \in 1..Len(asked)} \ {0} = {i \in 1..done : Wants(i)}

\* No byte of the answers is lost or sent twice, ob_buf with something in it is
\* waited for, and only a client that has all of its answers is connected.
\* (output_buffer_process.)
OutputAwaited ==
  Open => /\ sent + ob_size = Len(asked) * Answer
          /\ ob_size > 0 => "OUT" \in events /\ state # "CONNECTED"

\* A client that keeps to the protocol is not closed by the daemon and its
\* ib_buf is not used after it was freed, whatever ppoll reported before.
PoliteIsServed == early = 0 /\ rude = 0 /\ gone = 0 => Open

\* Every answer reaches a client that does not hang up.
AnswersArrive ==
  \A i \in 1..MaxCmds :
    (i <= Len(cmds) /\ cmds[i].kind # "mute" /\ early = 0 /\ rude = 0)
      ~> (Answered(i) \/ gone = 1 \/ early = 1 \/ rude = 1)

=============================================================================
