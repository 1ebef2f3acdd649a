------------------------------ MODULE MuxFlow ------------------------------
(***************************************************************************)
(* The data path of one connection: struct mux_connection's counters and   *)
(* buffers between a client socket and a device that speaks TCP over USB.  *)
(* Bytes are counted.  Sequence numbers wrap at SeqMod, as uint32_t does.  *)
(* USB is in order and reliable: the bytes and acknowledgements in flight  *)
(* are the differences between the counters of the two ends.               *)
(***************************************************************************)
EXTENDS Integers

CONSTANTS
  SeqMod,      \* number of sequence numbers, 2^32 in the code
  TxWin,       \* conn->tx_win, the window offered to the device, 131072
  InCapacity,  \* conn->ib_capacity, 262144
  MaxSend,     \* the smaller of conn->ob_capacity and conn->max_payload
  DevCapacity  \* the device's own receive buffer

ASSUME MuxFlowAssumption ==
  /\ SeqMod \in Nat /\ TxWin \in Nat \ {0} /\ InCapacity \in Nat
  /\ MaxSend \in Nat \ {0} /\ DevCapacity \in Nat
  /\ TxWin <= InCapacity
  /\ TxWin < SeqMod /\ DevCapacity < SeqMod

VARIABLES
  state,     \* conn->state, "FREE" once torn down
  cstate,    \* client->state, "FREE" once it has lost this connection
  tx_seq, tx_ack, tx_acked, rx_recvd, rx_ack, rx_win,
  sendable,  \* conn->sendable, as update_connection left it
  ib_size,   \* bytes from the device that wait for the client
  events,    \* conn->events
  devents,   \* client->devents
  cevents,   \* client->events, what ppoll() asks for
  polled,    \* the client's events at the last ppoll(), {} once processed
  flags,     \* conn->flags: 1 if CONN_ACK_PENDING
  d_seq,     \* device: next sequence number it sends
  d_ack,     \* device: latest of our acknowledgements it has seen
  d_rcv,     \* device: next sequence number it expects
  d_buf,     \* device: bytes received that its program has not read
  c_rcv,     \* client: sequence number after the last byte its socket took
  c_seq,     \* client: sequence number after the last byte read from it
  faults,    \* what was used after it was freed: "conn", "ib_buf"
  dropped    \* bytes freed with the connection: "no"; "refused" by the client's
             \* socket; or the client's state if they were not offered to it

cli == <<c_rcv, c_seq>>
dev == <<d_seq, d_ack, d_rcv, d_buf>>
mux == <<tx_seq, tx_ack, tx_acked, rx_recvd, rx_ack, rx_win, sendable, ib_size,
         events, devents, cevents, flags>>
vars == <<state, cstate, mux, polled, dev, cli, faults, dropped>>

Seq32 == 0..(SeqMod - 1)
Poll == {"IN", "OUT"}

\* uint32_t arithmetic.
Plus(a, n) == IF a + n < SeqMod THEN a + n ELSE a + n - SeqMod
Minus(a, b) == IF a >= b THEN a - b ELSE a - b + SeqMod

\* What is on its way, and how far the device may still go.
InFlightDown == Minus(d_seq, Plus(rx_recvd, 1))
InFlightUp == Minus(tx_seq, d_rcv)
\* The edge of the device's window, seen from acknowledgement a.
WindowAt(a) == DevCapacity - d_buf + Minus(d_rcv, a)

Init ==
  /\ state = "CONNECTING" /\ cstate = "CONNECTING1"
  /\ tx_seq = 0 /\ tx_ack = 0 /\ tx_acked = 0
  /\ rx_recvd = 0 /\ rx_ack = 0 /\ rx_win = 0
  /\ sendable = 0 /\ ib_size = 0
  /\ events = {} /\ devents = {} /\ cevents = {"IN"} /\ flags = 0
  /\ d_seq = 1 /\ d_ack = 1 /\ d_rcv = 1 /\ d_buf = 0
  /\ c_rcv = 1 /\ c_seq = 1
  /\ polled = {} /\ faults = {} /\ dropped = "no"

(***************************************************************************)
(* The daemon.                                                             *)
(***************************************************************************)
SendableWholeWindow(seq, ack, win) == IF win > MaxSend THEN MaxSend ELSE win

\* rx_win less what is in flight, cut to what one packet and ob_buf take.
Sendable(seq, ack, win) ==
  LET sent == Minus(seq, ack)
      room == IF win > sent THEN win - sent ELSE 0
  IN  IF room > MaxSend THEN MaxSend ELSE room

Interest(room, ib) == (IF room > 0 THEN {"IN"} ELSE {}) \cup
                      (IF ib > 0 THEN {"OUT"} ELSE {})

UpdateWithoutTimer ==
  /\ sendable' = Sendable(tx_seq', rx_ack', rx_win')
  /\ events' = Interest(sendable', ib_size')
  /\ flags' = 0
  /\ devents' = events'
  /\ cevents' = IF cstate' = "CONNECTED" THEN events' ELSE {"OUT"}

\* update_connection and client_set_events, over the counters of the new state.
update_connection ==
  /\ sendable' = Sendable(tx_seq', rx_ack', rx_win')
  /\ events' = Interest(sendable', ib_size')
  /\ flags' = IF tx_acked' # tx_ack' THEN 1 ELSE 0
  /\ devents' = events'
  /\ cevents' = IF cstate' = "CONNECTED" THEN events' ELSE {"OUT"}

\* connection_teardown with conn->events = ev and ib bytes buffered, after out
\* bytes were written: a client that is CONNECTED is offered the ib bytes and
\* takes k, before its socket fails or takes nothing for a second.
connection_teardown(ev, ib, out) ==
  LET flush == cstate = "CONNECTED" /\ "OUT" \in ev
  IN
  /\ state' = "FREE" /\ cstate' = "FREE"
  /\ \E k \in 0..ib :
       /\ k > 0 => flush
       /\ c_rcv' = Plus(c_rcv, out + k)
       /\ dropped' = IF k = ib THEN "no" ELSE IF flush THEN "refused" ELSE cstate
  /\ polled' = {}
  /\ UNCHANGED <<mux, dev>>

\* device_tcp_input, SYN|ACK with window w from a device that counts from 0: the
\* ACK goes out, the client gets its answer.
SynAck(w) ==
  /\ state = "CONNECTING"
  /\ state' = "CONNECTED" /\ cstate' = "CONNECTING2"
  /\ tx_seq' = Plus(tx_seq, 1) /\ tx_ack' = Plus(tx_ack, 1)
  /\ tx_acked' = tx_ack'
  /\ rx_recvd' = 0 /\ rx_ack' = 1 /\ rx_win' = w
  /\ UNCHANGED <<ib_size, polled, dev, cli, faults, dropped>>
  /\ update_connection

DeviceDataAckedOnReceipt(n, a, w) ==
  /\ ib_size + n <= InCapacity
  /\ rx_ack' = a /\ rx_win' = w
  /\ ib_size' = ib_size + n
  /\ rx_recvd' = Plus(rx_recvd, n)
  /\ tx_ack' = Plus(tx_ack, n)
  /\ tx_acked' = tx_ack'
  /\ UNCHANGED <<state, cstate, tx_seq, polled, dev, cli, faults, dropped>>
  /\ update_connection

DeviceDataNoWindowUpdate(n, a, w) ==
  /\ ib_size + n <= InCapacity
  /\ rx_ack' = a /\ rx_win' = IF n > 0 THEN w ELSE rx_win
  /\ ib_size' = ib_size + n
  /\ rx_recvd' = Plus(rx_recvd, n)
  /\ tx_acked' = tx_ack
  /\ UNCHANGED <<state, cstate, tx_seq, tx_ack, polled, dev, cli, faults, dropped>>
  /\ update_connection

\* device_tcp_input, ACK with n bytes, acknowledgement a and window w: into the
\* buffer (connection_device_input), then acknowledged at once (send_tcp_ack).
DeviceData(n, a, w) ==
  /\ ib_size + n <= InCapacity
  /\ rx_ack' = a /\ rx_win' = w
  /\ ib_size' = ib_size + n
  /\ rx_recvd' = Plus(rx_recvd, n)
  /\ tx_acked' = tx_ack
  /\ UNCHANGED <<state, cstate, tx_seq, tx_ack, polled, dev, cli, faults, dropped>>
  /\ update_connection

NoAckOldEvents(n) ==
  /\ ib_size + n <= InCapacity
  /\ connection_teardown(events, ib_size + n, 0)
  /\ UNCHANGED <<c_seq, faults>>

\* The same when the ACK cannot be submitted.
DeviceDataNoAck(n) ==
  /\ ib_size + n <= InCapacity
  /\ connection_teardown(Interest(sendable, ib_size + n), ib_size + n, 0)
  /\ UNCHANGED <<c_seq, faults>>

\* The same without room in the buffer: connection_device_input frees the
\* connection, and send_tcp_ack uses it.
DeviceOverflow(n) ==
  /\ ib_size + n > InCapacity
  /\ connection_teardown(events, ib_size, 0)
  /\ faults' = faults \cup {"conn"}
  /\ UNCHANGED c_seq

\* Any other segment ends the connection, and so does an ACK of the SYN|ACK that
\* cannot be submitted.  On a reliable pipe it comes after the device's data.
DeviceReset ==
  /\ state # "FREE"
  /\ InFlightDown = 0
  /\ connection_teardown(events, ib_size, 0)
  /\ UNCHANGED <<c_seq, faults>>

\* main_loop: the events the client's socket is polled for.  USB transfers are
\* handled between ppoll() and the clients.
ppoll ==
  /\ state # "FREE"
  /\ polled' = cevents
  /\ UNCHANGED <<state, cstate, mux, dev, cli, faults, dropped>>

\* The bytes device_client_process writes to a client that is ready for ev.
Written(ev, out) ==
  IF "OUT" \in ev /\ ib_size > 0 THEN out \in 1..ib_size ELSE out = 0

PartialWriteClears(ev, out, in) ==
  /\ cstate = "CONNECTED"
  /\ ev # {} /\ ev \subseteq polled
  /\ Written(ev, out)
  /\ IF "IN" \in ev /\ sendable > 0 THEN in \in 1..sendable ELSE in = 0
  /\ tx_ack' = Plus(tx_ack, out)
  /\ ib_size' = 0
  /\ tx_acked' = IF in > 0 THEN tx_ack' ELSE tx_acked
  /\ tx_seq' = Plus(tx_seq, in)
  /\ polled' = {}
  /\ c_rcv' = Plus(c_rcv, out) /\ c_seq' = Plus(c_seq, in)
  /\ UNCHANGED <<state, cstate, rx_recvd, rx_ack, rx_win, dev, faults, dropped>>
  /\ update_connection

\* device_client_process with poll events ev: out bytes written to the client,
\* in bytes read from it and sent to the device with the acknowledgement.
device_client_process(ev, out, in) ==
  /\ cstate = "CONNECTED"
  /\ ev # {} /\ ev \subseteq polled
  /\ Written(ev, out)
  /\ IF "IN" \in ev /\ sendable > 0 THEN in \in 1..sendable ELSE in = 0
  /\ tx_ack' = Plus(tx_ack, out)
  /\ ib_size' = ib_size - out
  /\ tx_acked' = IF in > 0 THEN tx_ack' ELSE tx_acked
  /\ tx_seq' = Plus(tx_seq, in)
  /\ polled' = {}
  /\ c_rcv' = Plus(c_rcv, out) /\ c_seq' = Plus(c_seq, in)
  /\ UNCHANGED <<state, cstate, rx_recvd, rx_ack, rx_win, dev, faults, dropped>>
  /\ update_connection

\* device_client_process when writing to the client fails, or, after out bytes
\* were written, reading from it fails (in = 0) or submitting the in bytes read.
ClientEnds(ev, out, in) ==
  /\ cstate = "CONNECTED"
  /\ ev \subseteq polled
  /\ \/ "OUT" \in ev /\ ib_size > 0 /\ out = 0 /\ in = 0
     \/ "IN" \in ev /\ sendable > 0 /\ Written(ev, out) /\ in \in 0..sendable
  /\ connection_teardown(events, ib_size - out, out)
  /\ c_seq' = Plus(c_seq, in)
  /\ UNCHANGED faults

\* client_close before CONNECTED takes the connection along, unflushed.
client_close ==
  /\ state' = "FREE" /\ cstate' = "FREE"
  /\ polled' = {}
  /\ UNCHANGED <<mux, dev, cli, dropped>>

\* input_buffer_process or output_buffer_process closes a client that waits for
\* its connection or for its answer to go out.
ClientAborts ==
  /\ \/ cstate = "CONNECTING1" /\ "IN" \in polled
     \/ cstate = "CONNECTING2" /\ "OUT" \in polled
  /\ client_close
  /\ UNCHANGED faults

\* input_buffer_process in CONNECTING2, on an event from before the SYN|ACK:
\* client_notify_connect has freed ib_buf, recv() fails on the null pointer.
StaleInput ==
  /\ cstate = "CONNECTING2" /\ "IN" \in polled
  /\ client_close
  /\ faults' = faults \cup {"ib_buf"}

OutputForgetsDevents ==
  /\ cstate = "CONNECTING2" /\ "OUT" \in polled
  /\ cstate' = "CONNECTED"
  /\ cevents' = cevents \ {"OUT"}
  /\ polled' = {}
  /\ UNCHANGED <<state, tx_seq, tx_ack, tx_acked, rx_recvd, rx_ack, rx_win,
                 sendable, ib_size, events, devents, flags, dev, cli, faults, dropped>>

\* output_buffer_process with the answer all sent.
output_buffer_process ==
  /\ cstate = "CONNECTING2" /\ "OUT" \in polled
  /\ cstate' = "CONNECTED"
  /\ cevents' = devents
  /\ polled' = {}
  /\ UNCHANGED <<state, tx_seq, tx_ack, tx_acked, rx_recvd, rx_ack, rx_win,
                 sendable, ib_size, events, devents, flags, dev, cli, faults, dropped>>

\* device_check_timeouts after ACK_TIMEOUT, with no descriptor ready: the
\* pending ACK, or its failure.
device_check_timeouts ==
  /\ state = "CONNECTED" /\ flags = 1
  /\ tx_acked' = tx_ack
  /\ polled' = {}
  /\ UNCHANGED <<state, cstate, tx_seq, tx_ack, rx_recvd, rx_ack, rx_win, ib_size,
                 dev, cli, faults, dropped>>
  /\ update_connection

TimeoutAckFails ==
  /\ state = "CONNECTED" /\ flags = 1
  /\ connection_teardown(events, ib_size, 0)
  /\ UNCHANGED <<c_seq, faults>>

(***************************************************************************)
(* The device: it keeps to the window it is offered, reads what it gets in *)
(* order, and reports its own window, in units that may cut it short.      *)
(***************************************************************************)
rest == <<state, cstate, mux, polled, cli, faults, dropped>>

DevSends(n) ==
  /\ state = "CONNECTED"
  /\ Minus(d_seq, d_ack) + n <= TxWin
  /\ d_seq' = Plus(d_seq, n)
  /\ UNCHANGED <<rest, d_ack, d_rcv, d_buf>>

DevSeesAck(n) ==
  /\ state = "CONNECTED"
  /\ n <= Minus(tx_acked, d_ack)
  /\ d_ack' = Plus(d_ack, n)
  /\ UNCHANGED <<rest, d_seq, d_rcv, d_buf>>

DevReceives(n) ==
  /\ state = "CONNECTED"
  /\ n <= InFlightUp
  /\ d_rcv' = Plus(d_rcv, n)
  /\ d_buf' = d_buf + n
  /\ UNCHANGED <<rest, d_seq, d_ack>>

DevReads(n) ==
  /\ state = "CONNECTED"
  /\ n <= d_buf
  /\ d_buf' = d_buf - n
  /\ UNCHANGED <<rest, d_seq, d_ack, d_rcv>>

\* A segment of the device: n bytes in flight, an acknowledgement k bytes on
\* from the last, and a window that does not go over the edge.
Segment(n, k, w) ==
  /\ state = "CONNECTED"
  /\ n <= InFlightDown
  /\ k <= Minus(d_rcv, rx_ack)
  /\ w <= WindowAt(Plus(rx_ack, k))
  /\ DeviceData(n, Plus(rx_ack, k), w)

SegmentFails(n) ==
  /\ state = "CONNECTED"
  /\ n <= InFlightDown
  /\ DeviceDataNoAck(n) \/ DeviceOverflow(n)

\* The segment that tells all the device has received and all its room, sent
\* when the device has something to tell: it never sends one unprompted.
LastSegment ==
  /\ state = "CONNECTED"
  /\ InFlightDown > 0 \/ d_rcv # rx_ack \/ WindowAt(d_rcv) # rx_win
  /\ DeviceData(InFlightDown, d_rcv, WindowAt(d_rcv))

Ended == state = "FREE" /\ UNCHANGED vars

MuxNext ==
  \/ \E w \in 0..DevCapacity : SynAck(w)
  \/ \E n \in 0..TxWin, k \in 0..DevCapacity, w \in 0..DevCapacity : Segment(n, k, w)
  \/ \E n \in 0..TxWin : SegmentFails(n)
  \/ DeviceReset \/ ppoll
  \/ \E ev \in SUBSET Poll, out \in 0..InCapacity, in \in 0..MaxSend :
       ClientEnds(ev, out, in) \/ device_client_process(ev, out, in)
  \/ ClientAborts \/ StaleInput \/ output_buffer_process
  \/ device_check_timeouts \/ TimeoutAckFails

DevNext ==
  \/ \E n \in 1..TxWin : DevSends(n) \/ DevSeesAck(n)
  \/ \E n \in 1..DevCapacity : DevReceives(n) \/ DevReads(n)

Next == MuxNext \/ DevNext \/ Ended

Spec == Init /\ [][Next]_vars

(***************************************************************************)
(* Fairness.  The main loop keeps polling, so a client that takes bytes is *)
(* served and its answer goes out; ppoll() times out once this connection  *)
(* is quiet; USB delivers; the device reports its acknowledgement and its  *)
(* window and reads its buffer.  Nothing is assumed of a client's writing. *)
(***************************************************************************)
ClientTakes == \E ev \in SUBSET Poll, out \in 0..InCapacity, in \in 0..MaxSend :
  "OUT" \in ev /\ device_client_process(ev, out, in)

Fairness ==
  /\ WF_vars(ppoll) /\ WF_vars(output_buffer_process) /\ SF_vars(ClientTakes)
  /\ WF_vars(device_check_timeouts) /\ WF_vars(LastSegment)
  /\ WF_vars(\E n \in 1..TxWin : n = Minus(tx_acked, d_ack) /\ DevSeesAck(n))
  /\ WF_vars(\E n \in 1..DevCapacity : n = InFlightUp /\ DevReceives(n))
  /\ WF_vars(\E n \in 1..DevCapacity : n = d_buf /\ DevReads(n))

FairSpec == Spec /\ Fairness

(***************************************************************************)
(* Properties.                                                             *)
(***************************************************************************)
\* Type invariant of the connection, its client's event masks and the device.
TypeOK ==
  /\ state \in {"CONNECTING", "CONNECTED", "FREE"}
  /\ cstate \in {"CONNECTING1", "CONNECTING2", "CONNECTED", "FREE"}
  /\ tx_seq \in Seq32 /\ tx_ack \in Seq32 /\ tx_acked \in Seq32
  /\ rx_recvd \in Seq32 /\ rx_ack \in Seq32 /\ rx_win \in 0..DevCapacity
  /\ sendable \in 0..MaxSend /\ ib_size \in Nat /\ flags \in {0, 1}
  /\ events \subseteq Poll /\ devents \subseteq Poll
  /\ cevents \subseteq Poll /\ polled \subseteq Poll
  /\ d_seq \in Seq32 /\ d_ack \in Seq32 /\ d_rcv \in Seq32
  /\ d_buf \in 0..DevCapacity
  /\ c_rcv \in Seq32 /\ c_seq \in Seq32
  /\ faults \subseteq {"conn", "ib_buf"}
  /\ dropped \in {"no", "refused", "CONNECTING2", "CONNECTED"}

\* The input buffer never overflows while the device keeps to tx_win: what
\* device_tcp_input acknowledges is what the client has taken, never what only
\* sits in ib_buf, so that send_tcp_ack is not reached on the connection
\* connection_device_input has just freed.
NoUseOfFreedConn == "conn" \notin faults

\* Every byte the device has sent is in flight, in ib_buf, or counted in tx_ack
\* as taken by the client, and the acknowledgements lag behind that, in this
\* order and across the wrap of the counters.  (connection_device_input,
\* device_client_process, send_tcp.)
BytesAccounted ==
  state = "CONNECTED" =>
    /\ Minus(Plus(rx_recvd, 1), tx_ack) = ib_size
    /\ Minus(d_seq, d_ack) = Minus(tx_acked, d_ack) + Minus(tx_ack, tx_acked)
                             + ib_size + InFlightDown

\* No wakeup is lost: whenever the client is CONNECTED, ppoll() asks for exactly
\* what the counters allow now (not when sendable was last computed), and the
\* ACK timer is armed exactly when an ACK is due.  (update_connection,
\* client_set_events, output_buffer_process.)
NoLostWakeup ==
  /\ cstate = "CONNECTED" =>
       cevents = Interest(Sendable(tx_seq, rx_ack, rx_win), ib_size)
  /\ state = "CONNECTED" => (flags = 1 <=> tx_ack # tx_acked)

\* A teardown frees no byte for a CONNECTED client that it has not offered to
\* the client's socket, on any path that leads to it: conn->events has POLLOUT
\* whenever ib_buf holds something.  What the socket refuses, by an error or by
\* taking nothing for a second, is lost, and so is what waits for a client whose
\* answer has not gone out yet.  (connection_teardown's flush.)
FlushTried == dropped # "CONNECTED"

\* The two directions of a connection, with what is on its way in each.
DownHeld == IF state = "CONNECTED" THEN InFlightDown + ib_size ELSE 0
UpHeld == IF state = "CONNECTED" THEN InFlightUp + d_buf ELSE 0
UpRead == Minus(d_rcv, d_buf)

Down == INSTANCE BytePipe WITH Capacity <- TxWin, Mod <- SeqMod, sent <- d_seq,
          got <- c_rcv, held <- DownHeld, up <- (state # "FREE")
Up == INSTANCE BytePipe WITH Capacity <- DevCapacity, Mod <- SeqMod, sent <- c_seq,
        got <- UpRead, held <- UpHeld, up <- (state # "FREE")

\* Device to client is a bounded pipe of tx_win bytes: what the device sends is
\* what the client's socket gets, or is still in flight or in ib_buf, through
\* partial writes and the flush of a teardown; only the end of the connection
\* loses bytes.  (connection_device_input, device_client_process.)
DownIsPipe == Down!Spec

\* Client to device is a bounded pipe as large as the device's buffer, which is
\* never overrun, although sendable and the events ppoll() returned are older
\* than the state they are used in: what is read from the client is what the
\* device's program gets.  (update_connection, device_client_process.)
UpIsPipe == Up!Spec

\* A device that has used up its window is let go on: the ACK that opens it is
\* not forgotten.  (device_check_timeouts, send_tcp_ack.)
WindowReopens == []<>(state # "CONNECTED" \/ Minus(d_seq, d_ack) < TxWin)

\* A client that waits for room towards the device is let go on.
UpstreamReopens == []<>(cstate # "CONNECTED" \/ "IN" \in cevents)

=============================================================================
