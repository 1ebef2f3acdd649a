--------------------------- MODULE MuxFlow_proofs ---------------------------
(***************************************************************************)
(* Proofs about MuxFlow, for every window, buffer size and number of       *)
(* sequence numbers.  The counters of one direction form a chain on the    *)
(* circle of sequence numbers; a step moves one link of the chain.         *)
(***************************************************************************)
EXTENDS MuxFlow, TLAPS

(***************************************************************************)
(* Arithmetic of uint32_t counters.                                        *)
(***************************************************************************)
\* Counters stay in range when less than a full circle is added.
LEMMA PlusType ==
  ASSUME NEW a \in Seq32, NEW n \in Nat, n < SeqMod
  PROVE  Plus(a, n) \in Seq32
  BY MuxFlowAssumption DEF Plus, Seq32

\* A distance is a natural number below SeqMod.
LEMMA MinusType ==
  ASSUME NEW a \in Seq32, NEW b \in Seq32
  PROVE  Minus(a, b) \in Nat /\ Minus(a, b) < SeqMod
  BY MuxFlowAssumption DEF Minus, Seq32

\* Two counters are equal exactly when their distance is 0.
LEMMA MinusZero ==
  ASSUME NEW a \in Seq32, NEW b \in Seq32
  PROVE  (Minus(a, b) = 0) <=> (a = b)
  BY MuxFlowAssumption DEF Minus, Seq32

\* Moving the leading counter on adds to the distance.
LEMMA LeadMoves ==
  ASSUME NEW a \in Seq32, NEW b \in Seq32, NEW n \in Nat, Minus(a, b) + n < SeqMod
  PROVE  Minus(Plus(a, n), b) = Minus(a, b) + n
  BY MuxFlowAssumption DEF Plus, Minus, Seq32

\* Moving the trailing counter on takes from it.
LEMMA TrailMoves ==
  ASSUME NEW a \in Seq32, NEW b \in Seq32, NEW n \in Nat, n <= Minus(a, b)
  PROVE  Minus(a, Plus(b, n)) = Minus(a, b) - n
  BY MuxFlowAssumption DEF Plus, Minus, Seq32

\* Distances add up as long as they stay below a full circle.
LEMMA Chain ==
  ASSUME NEW a \in Seq32, NEW b \in Seq32, NEW c \in Seq32,
         Minus(a, b) + Minus(b, c) < SeqMod
  PROVE  Minus(a, c) = Minus(a, b) + Minus(b, c)
  BY MuxFlowAssumption DEF Minus, Seq32

\* rx_recvd may be moved on before or after the SYN is counted.
LEMMA PlusSwap ==
  ASSUME NEW a \in Seq32, NEW n \in Nat, n < SeqMod
  PROVE  Plus(Plus(a, n), 1) = Plus(Plus(a, 1), n)
  BY MuxFlowAssumption DEF Plus, Seq32

(***************************************************************************)
(* The inductive invariant.                                                *)
(***************************************************************************)
Received == Plus(rx_recvd, 1)

\* The connection and its client go through their states together.
Phases ==
  /\ (state = "FREE") <=> (cstate = "FREE")
  /\ (state = "CONNECTING") <=> (cstate = "CONNECTING1")

\* Nothing has been counted before the SYN|ACK.
Fresh ==
  state = "CONNECTING" =>
    /\ tx_seq = 0 /\ tx_ack = 0 /\ rx_recvd = 0 /\ ib_size = 0
    /\ d_seq = 1 /\ d_ack = 1 /\ d_rcv = 1 /\ d_buf = 0

\* d_ack, tx_acked, tx_ack, Received, d_seq follow each other, within tx_win.
DownChain ==
  state = "CONNECTED" =>
    /\ Minus(Received, tx_ack) = ib_size
    /\ Minus(d_seq, d_ack) = Minus(tx_acked, d_ack) + Minus(tx_ack, tx_acked)
                             + ib_size + Minus(d_seq, Received)
    /\ Minus(d_seq, d_ack) <= TxWin

\* rx_ack, d_rcv, tx_seq follow each other, within the device's buffer; the
\* window last heard of does not go over the edge of the one there is.
UpChain ==
  state = "CONNECTED" =>
    /\ Minus(tx_seq, rx_ack) = Minus(tx_seq, d_rcv) + Minus(d_rcv, rx_ack)
    /\ Minus(tx_seq, rx_ack) <= DevCapacity
    /\ Minus(tx_seq, d_rcv) + d_buf <= DevCapacity
    /\ rx_win <= DevCapacity - d_buf + Minus(d_rcv, rx_ack)

\* sendable and the masks are what update_connection makes of the counters.
Masks ==
  state = "CONNECTED" =>
    /\ sendable = Sendable(tx_seq, rx_ack, rx_win)
    /\ events = Interest(sendable, ib_size)
    /\ devents = events
    /\ cevents = IF cstate = "CONNECTED" THEN events ELSE {"OUT"}
    /\ flags = IF tx_acked # tx_ack THEN 1 ELSE 0

Inv ==
  /\ TypeOK /\ Phases /\ Fresh /\ DownChain /\ UpChain /\ Masks
  /\ NoUseOfFreedConn /\ FlushTried

\* A connection starts in the invariant.
LEMMA InitInv == Init => Inv
  BY MuxFlowAssumption
  DEF Init, Inv, TypeOK, Phases, Fresh, DownChain, UpChain, Masks, NoUseOfFreedConn,
      FlushTried, Seq32, Poll

\* The types that arithmetic on the state needs.
LEMMA Types ==
  ASSUME Inv
  PROVE  /\ tx_seq \in Seq32 /\ tx_ack \in Seq32 /\ tx_acked \in Seq32 /\ rx_ack \in Seq32
         /\ d_seq \in Seq32 /\ d_ack \in Seq32 /\ d_rcv \in Seq32
         /\ ib_size \in Nat /\ sendable \in Nat /\ d_buf \in Nat
         /\ rx_win \in Nat /\ rx_win <= DevCapacity
         /\ c_rcv \in Seq32 /\ c_seq \in Seq32
  BY MuxFlowAssumption DEF Inv, TypeOK

\* What can be sent now fits into one packet.
LEMMA SendableType ==
  ASSUME NEW a \in Seq32, NEW b \in Seq32, NEW w \in Nat
  PROVE  Sendable(a, b, w) \in 0..MaxSend
  <1>1. Minus(a, b) \in Nat
    BY MinusType
  <1> QED BY <1>1, MuxFlowAssumption DEF Sendable

\* What can be sent now stays within the window.
LEMMA SendableBound ==
  ASSUME NEW a \in Seq32, NEW b \in Seq32, NEW w \in Nat, Sendable(a, b, w) > 0
  PROVE  Sendable(a, b, w) <= w - Minus(a, b)
  <1>1. Minus(a, b) \in Nat
    BY MinusType
  <1> QED BY <1>1, MuxFlowAssumption DEF Sendable

\* update_connection leaves everything that is derived from the counters right.
LEMMA UpdateDerives ==
  ASSUME tx_seq' \in Seq32, rx_ack' \in Seq32, rx_win' \in 0..DevCapacity,
         ib_size' \in Nat, update_connection
  PROVE  /\ sendable' \in 0..MaxSend /\ flags' \in {0, 1}
         /\ events' \subseteq Poll /\ devents' \subseteq Poll /\ cevents' \subseteq Poll
         /\ Masks'
  <1>1. rx_win' \in Nat
    BY MuxFlowAssumption
  <1>2. sendable' \in 0..MaxSend
    BY <1>1, SendableType DEF update_connection
  <1>3. events' \subseteq Poll /\ devents' \subseteq Poll /\ cevents' \subseteq Poll
    BY DEF update_connection, Interest, Poll
  <1>4. flags' \in {0, 1}
    BY DEF update_connection
  <1>5. Masks'
    BY DEF update_connection, Masks
  <1> QED BY <1>2, <1>3, <1>4, <1>5

\* A teardown that finds POLLOUT set whenever there is something to flush keeps
\* the invariant.
LEMMA TeardownKeeps ==
  ASSUME Inv, state # "FREE", NEW ev, NEW ib \in Nat, NEW out \in Nat,
         connection_teardown(ev, ib, out),
         state = "CONNECTING" => ib = 0,
         ib > 0 => "OUT" \in ev,
         out + ib < SeqMod, c_seq' \in Seq32, UNCHANGED faults
  PROVE  Inv'
  <1>1. /\ state' = "FREE" /\ cstate' = "FREE" /\ polled' = {}
        /\ UNCHANGED <<tx_seq, tx_ack, tx_acked, rx_recvd, rx_ack, rx_win, sendable,
                       ib_size, events, devents, cevents, flags>>
        /\ UNCHANGED <<d_seq, d_ack, d_rcv, d_buf>>
    BY DEF connection_teardown, mux, dev
  <1>2. PICK k \in 0..ib :
          /\ k > 0 => cstate = "CONNECTED" /\ "OUT" \in ev
          /\ c_rcv' = Plus(c_rcv, out + k)
          /\ dropped' = IF k = ib THEN "no"
                        ELSE IF cstate = "CONNECTED" /\ "OUT" \in ev THEN "refused"
                        ELSE cstate
    BY DEF connection_teardown
  <1>3. c_rcv' \in Seq32
    <2>1. out + k \in Nat /\ out + k < SeqMod
      BY <1>2, MuxFlowAssumption
    <2> QED BY <1>2, <2>1, PlusType, Types
  <1>4. dropped' \in {"no", "refused", "CONNECTING2"}
    <2>1. CASE k = ib
      BY <1>2, <2>1
    <2>2. CASE k # ib
      <3>1. ib > 0 /\ state # "CONNECTING"
        BY <2>2
      <3>2. cstate \in {"CONNECTING2", "CONNECTED"}
        BY <3>1 DEF Inv, TypeOK, Phases
      <3> QED BY <1>2, <2>2, <3>1, <3>2
    <2> QED BY <2>1, <2>2
  <1>5. TypeOK'
    BY <1>1, <1>3, <1>4 DEF Inv, TypeOK
  <1>6. Phases' /\ Fresh' /\ DownChain' /\ UpChain' /\ Masks'
    BY <1>1 DEF Phases, Fresh, DownChain, UpChain, Masks
  <1>7. NoUseOfFreedConn' /\ FlushTried'
    BY <1>1, <1>4 DEF Inv, NoUseOfFreedConn, FlushTried
  <1> QED BY <1>5, <1>6, <1>7 DEF Inv

\* client_close of a waiting client ends the connection with nothing to flush.
LEMMA CloseKeeps ==
  ASSUME Inv, client_close, faults' \in {faults, faults \cup {"ib_buf"}}
  PROVE  Inv'
  <1>1. /\ state' = "FREE" /\ cstate' = "FREE" /\ polled' = {} /\ UNCHANGED <<c_rcv, c_seq, dropped>>
        /\ UNCHANGED <<tx_seq, tx_ack, tx_acked, rx_recvd, rx_ack, rx_win, sendable,
                       ib_size, events, devents, cevents, flags>>
        /\ UNCHANGED <<d_seq, d_ack, d_rcv, d_buf>>
    BY DEF client_close, mux, dev, cli
  <1>2. TypeOK'
    BY <1>1 DEF Inv, TypeOK
  <1>3. Phases' /\ Fresh' /\ DownChain' /\ UpChain' /\ Masks'
    BY <1>1 DEF Phases, Fresh, DownChain, UpChain, Masks
  <1>4. NoUseOfFreedConn' /\ FlushTried'
    BY <1>1 DEF Inv, NoUseOfFreedConn, FlushTried
  <1> QED BY <1>2, <1>3, <1>4 DEF Inv

\* The SYN|ACK starts both chains.
LEMMA SynAckKeeps ==
  ASSUME Inv, NEW w \in 0..DevCapacity, SynAck(w)
  PROVE  Inv'
  <1>1. /\ state = "CONNECTING" /\ state' = "CONNECTED" /\ cstate' = "CONNECTING2"
        /\ UNCHANGED <<ib_size, polled, c_rcv, c_seq, faults, dropped>>
        /\ UNCHANGED <<d_seq, d_ack, d_rcv, d_buf>>
        /\ update_connection
    BY DEF SynAck, dev, cli
  <1>2. 1 < SeqMod
    BY MuxFlowAssumption
  <1>3. /\ tx_seq' = 1 /\ tx_ack' = 1 /\ tx_acked' = 1 /\ rx_recvd' = 0
        /\ rx_ack' = 1 /\ rx_win' = w /\ ib_size' = 0
        /\ d_seq' = 1 /\ d_ack' = 1 /\ d_rcv' = 1 /\ d_buf' = 0
    BY <1>1, <1>2, MuxFlowAssumption DEF SynAck, Inv, Fresh, Plus
  <1>4. 0 \in Seq32 /\ 1 \in Seq32
    BY <1>2, MuxFlowAssumption DEF Seq32
  <1>5. TypeOK' /\ Masks'
    BY <1>1, <1>3, <1>4, UpdateDerives DEF Inv, TypeOK
  <1>6. Phases' /\ Fresh'
    BY <1>1 DEF Phases, Fresh
  <1>7. DownChain' /\ UpChain'
    BY <1>2, <1>3, MuxFlowAssumption DEF DownChain, UpChain, Received, Plus, Minus
  <1>8. NoUseOfFreedConn' /\ FlushTried'
    BY <1>1 DEF Inv, NoUseOfFreedConn, FlushTried
  <1> QED BY <1>5, <1>6, <1>7, <1>8 DEF Inv

\* What Inv says of the down chain, as facts about natural numbers.
LEMMA DownFacts ==
  ASSUME Inv, state = "CONNECTED"
  PROVE  /\ Received \in Seq32
         /\ Minus(tx_acked, d_ack) \in Nat /\ Minus(tx_ack, tx_acked) \in Nat
         /\ Minus(d_seq, Received) \in Nat /\ ib_size \in Nat
         /\ Minus(d_seq, d_ack) < SeqMod
         /\ Minus(tx_ack, d_ack) = Minus(tx_acked, d_ack) + Minus(tx_ack, tx_acked)
         /\ Minus(d_seq, d_ack) \in Nat /\ Minus(d_seq, d_ack) <= TxWin
         /\ Minus(Received, tx_ack) = ib_size
         /\ Minus(d_seq, d_ack) = Minus(tx_acked, d_ack) + Minus(tx_ack, tx_acked)
                                  + ib_size + Minus(d_seq, Received)
  <1>1. /\ tx_acked \in Seq32 /\ d_ack \in Seq32 /\ tx_ack \in Seq32 /\ d_seq \in Seq32
        /\ rx_recvd \in Seq32 /\ ib_size \in Nat
    BY DEF Inv, TypeOK
  <1>2. Received \in Seq32
    BY <1>1, PlusType, MuxFlowAssumption DEF Received
  <1>3. /\ Minus(tx_acked, d_ack) \in Nat /\ Minus(tx_ack, tx_acked) \in Nat
        /\ Minus(d_seq, Received) \in Nat /\ Minus(d_seq, d_ack) \in Nat
        /\ Minus(d_seq, d_ack) < SeqMod
    BY <1>1, <1>2, MinusType
  <1>4. Minus(tx_ack, tx_acked) + Minus(tx_acked, d_ack) < SeqMod
    BY <1>1, <1>3, MuxFlowAssumption DEF Inv, DownChain
  <1>5. Minus(tx_ack, d_ack) = Minus(tx_ack, tx_acked) + Minus(tx_acked, d_ack)
    BY <1>1, <1>4, Chain
  <1>6. DownChain
    BY DEF Inv
  <1> QED BY <1>1, <1>2, <1>3, <1>5, <1>6 DEF DownChain

\* What Inv says of the up chain.
LEMMA UpFacts ==
  ASSUME Inv, state = "CONNECTED"
  PROVE  /\ Minus(tx_seq, rx_ack) \in Nat /\ Minus(tx_seq, d_rcv) \in Nat
         /\ Minus(d_rcv, rx_ack) \in Nat
         /\ Minus(tx_seq, rx_ack) = Minus(tx_seq, d_rcv) + Minus(d_rcv, rx_ack)
         /\ Minus(tx_seq, rx_ack) <= DevCapacity
         /\ Minus(tx_seq, d_rcv) + d_buf <= DevCapacity
         /\ rx_win <= DevCapacity - d_buf + Minus(d_rcv, rx_ack)
  <1>1. UpChain
    BY DEF Inv
  <1>2. /\ Minus(tx_seq, rx_ack) \in Nat /\ Minus(tx_seq, d_rcv) \in Nat
        /\ Minus(d_rcv, rx_ack) \in Nat
    BY Types, MinusType
  <1> QED BY <1>1, <1>2 DEF UpChain

\* n bytes of the device in flight move into ib_buf, and an ACK goes out.
LEMMA SegmentKeeps ==
  ASSUME Inv, NEW n \in 0..TxWin, NEW k \in 0..DevCapacity, NEW w \in 0..DevCapacity,
         Segment(n, k, w)
  PROVE  Inv'
  <1>1. /\ state = "CONNECTED"
        /\ n <= Minus(d_seq, Received)
        /\ k <= Minus(d_rcv, rx_ack)
        /\ w <= DevCapacity - d_buf + Minus(d_rcv, Plus(rx_ack, k))
        /\ rx_ack' = Plus(rx_ack, k) /\ rx_win' = w
        /\ ib_size' = ib_size + n /\ rx_recvd' = Plus(rx_recvd, n)
        /\ tx_acked' = tx_ack
        /\ UNCHANGED <<state, cstate, tx_seq, tx_ack, polled, c_rcv, c_seq, faults, dropped>>
        /\ UNCHANGED <<d_seq, d_ack, d_rcv, d_buf>>
        /\ update_connection
    BY DEF Segment, DeviceData, InFlightDown, WindowAt, Received, dev, cli
  <1>2. /\ n \in Nat /\ k \in Nat /\ w \in Nat /\ n < SeqMod /\ k < SeqMod
    BY MuxFlowAssumption
  <1>3. /\ rx_ack' \in Seq32 /\ rx_recvd' \in Seq32 /\ ib_size' \in Nat
        /\ tx_seq' \in Seq32 /\ tx_acked' \in Seq32
    BY <1>1, <1>2, PlusType DEF Inv, TypeOK
  <1>4. TypeOK' /\ Masks'
    <2>1. /\ sendable' \in 0..MaxSend /\ flags' \in {0, 1}
          /\ events' \subseteq Poll /\ devents' \subseteq Poll /\ cevents' \subseteq Poll
          /\ Masks'
      BY <1>1, <1>3, UpdateDerives
    <2> QED BY <1>1, <1>3, <2>1 DEF Inv, TypeOK
  <1>5. DownChain'
    <2>1. Received' = Plus(Received, n)
      BY <1>1, <1>2, PlusSwap DEF Received, Inv, TypeOK
    <2>2. Minus(Received, tx_ack) + n < SeqMod
      BY <1>1, <1>2, DownFacts, MuxFlowAssumption DEF DownChain
    <2>3. Minus(Received', tx_ack) = ib_size + n
      BY <1>1, <1>2, <2>1, <2>2, DownFacts, LeadMoves, Types
    <2>4. Minus(d_seq, Received') = Minus(d_seq, Received) - n
      BY <1>1, <1>2, <2>1, DownFacts, TrailMoves, SMTT(30) DEF Inv, TypeOK
    <2>5. Minus(tx_ack, tx_ack) = 0
      BY MinusZero DEF Inv, TypeOK
    <2> QED BY <1>1, <1>2, <2>3, <2>4, <2>5, DownFacts DEF DownChain
  <1>6. UpChain'
    <2>1. /\ tx_seq \in Seq32 /\ rx_ack \in Seq32 /\ d_rcv \in Seq32 /\ d_buf \in Nat
      BY MuxFlowAssumption DEF Inv, TypeOK
    <2>2. /\ Minus(d_rcv, rx_ack) \in Nat /\ Minus(tx_seq, d_rcv) \in Nat
      BY <2>1, MinusType
    <2>3. Minus(d_rcv, rx_ack') = Minus(d_rcv, rx_ack) - k
      BY <1>1, <1>2, <2>1, TrailMoves
    <2>4. Minus(tx_seq, rx_ack') = Minus(tx_seq, rx_ack) - k
      BY <1>1, <1>2, <2>1, <2>2, TrailMoves DEF Inv, UpChain
    <2> QED BY <1>1, <1>2, <2>1, <2>2, <2>3, <2>4, MuxFlowAssumption DEF Inv, UpChain
  <1>7. Phases' /\ Fresh' /\ NoUseOfFreedConn' /\ FlushTried'
    BY <1>1 DEF Inv, Phases, Fresh, NoUseOfFreedConn, FlushTried
  <1> QED BY <1>4, <1>5, <1>6, <1>7 DEF Inv

\* A segment whose ACK fails is flushed; one that does not fit never comes.
LEMMA SegmentFailsKeeps ==
  ASSUME Inv, NEW n \in 0..TxWin, SegmentFails(n)
  PROVE  Inv'
  <1>1. state = "CONNECTED" /\ n <= Minus(d_seq, Received) /\ n \in Nat
    BY MuxFlowAssumption DEF SegmentFails, InFlightDown, Received
  <1>2. /\ ib_size + n <= InCapacity /\ ib_size + n \in Nat
        /\ 0 + (ib_size + n) < SeqMod
    BY <1>1, DownFacts, MuxFlowAssumption DEF DownChain
  <1>3. DeviceDataNoAck(n)
    BY <1>2, MuxFlowAssumption DEF SegmentFails, DeviceOverflow
  <1>4. /\ connection_teardown(Interest(sendable, ib_size + n), ib_size + n, 0)
        /\ c_seq' \in Seq32 /\ UNCHANGED faults
    BY <1>3, Types DEF DeviceDataNoAck
  <1>5. ib_size + n > 0 => "OUT" \in Interest(sendable, ib_size + n)
    BY DEF Interest
  <1> QED BY <1>1, <1>2, <1>4, <1>5, TeardownKeeps

\* A teardown with conn->events as they are offers the client what there is.
LEMMA TeardownNow ==
  ASSUME Inv, state # "FREE", NEW out \in 0..ib_size,
         connection_teardown(events, ib_size - out, out),
         c_seq' \in Seq32, UNCHANGED faults
  PROVE  Inv'
  <1>1. /\ state \in {"CONNECTING", "CONNECTED"} /\ ib_size \in Nat
        /\ out \in Nat /\ ib_size - out \in Nat /\ ib_size - out <= ib_size
    BY DEF Inv, TypeOK
  <1>2. state = "CONNECTING" => ib_size = 0
    BY DEF Inv, Fresh
  <1>3. ib_size - out > 0 => "OUT" \in events
    BY <1>1, <1>2 DEF Inv, Masks, Interest
  <1>4. ib_size < SeqMod
    <2>1. CASE state = "CONNECTED"
      BY <2>1, DownFacts, MuxFlowAssumption
    <2> QED BY <1>1, <1>2, <2>1, MuxFlowAssumption
  <1>5. out + (ib_size - out) < SeqMod
    BY <1>1, <1>4, MuxFlowAssumption
  <1>6. state = "CONNECTING" => ib_size - out = 0
    BY <1>1, <1>2
  <1> QED BY <1>1, <1>3, <1>5, <1>6, TeardownKeeps

\* What may be read from the client is less than a full circle.
LEMMA SendableFits ==
  ASSUME Inv, cstate = "CONNECTED"
  PROVE  state = "CONNECTED" /\ sendable \in Nat /\ sendable <= DevCapacity
  <1>1. state = "CONNECTED"
    BY DEF Inv, Phases, TypeOK
  <1>2. tx_seq \in Seq32 /\ rx_ack \in Seq32 /\ rx_win \in Nat /\ sendable \in Nat
        /\ rx_win <= DevCapacity
    BY Types
  <1>3. sendable = Sendable(tx_seq, rx_ack, rx_win)
    BY <1>1 DEF Inv, Masks
  <1>4. Minus(tx_seq, rx_ack) \in Nat
    BY <1>2, MinusType
  <1>5. sendable > 0 => sendable <= rx_win - Minus(tx_seq, rx_ack)
    BY <1>2, <1>3, SendableBound
  <1> QED BY <1>1, <1>2, <1>4, <1>5, MuxFlowAssumption

\* Bytes go to the client and come from it; the ACK moves on only with data.
LEMMA ProcessKeeps ==
  ASSUME Inv, NEW ev \in SUBSET Poll, NEW out \in 0..InCapacity, NEW in \in 0..MaxSend,
         device_client_process(ev, out, in)
  PROVE  Inv'
  <1>1. /\ cstate = "CONNECTED"
        /\ tx_ack' = Plus(tx_ack, out) /\ ib_size' = ib_size - out
        /\ tx_acked' = IF in > 0 THEN tx_ack' ELSE tx_acked
        /\ tx_seq' = Plus(tx_seq, in) /\ polled' = {}
        /\ c_rcv' = Plus(c_rcv, out) /\ c_seq' = Plus(c_seq, in)
        /\ UNCHANGED <<state, cstate, rx_recvd, rx_ack, rx_win, faults, dropped>>
        /\ UNCHANGED <<d_seq, d_ack, d_rcv, d_buf>>
        /\ update_connection
    BY DEF device_client_process, dev
  <1>2. state = "CONNECTED"
    BY <1>1 DEF Inv, Phases, TypeOK
  <1>3. out \in Nat /\ in \in Nat /\ out <= ib_size /\ in <= sendable
    BY MuxFlowAssumption DEF device_client_process, Written, Inv, TypeOK
  <1>4. out <= ib_size /\ ib_size <= TxWin /\ out < SeqMod
    BY <1>2, <1>3, DownFacts, MuxFlowAssumption DEF DownChain
  <1>5. in > 0 => in <= rx_win - Minus(tx_seq, rx_ack)
    <2>1. tx_seq \in Seq32 /\ rx_ack \in Seq32 /\ rx_win \in Nat /\ sendable \in Nat
      BY MuxFlowAssumption DEF Inv, TypeOK
    <2>2. sendable = Sendable(tx_seq, rx_ack, rx_win)
      BY <1>2 DEF Inv, Masks
    <2>3. Minus(tx_seq, rx_ack) \in Nat
      BY <2>1, MinusType
    <2>4. sendable > 0 => sendable <= rx_win - Minus(tx_seq, rx_ack)
      BY <2>1, <2>2, SendableBound
    <2> QED BY <1>3, <2>1, <2>3, <2>4
  <1>6. /\ tx_seq \in Seq32 /\ rx_ack \in Seq32 /\ d_rcv \in Seq32 /\ d_buf \in Nat
        /\ tx_ack \in Seq32 /\ tx_acked \in Seq32 /\ rx_win \in 0..DevCapacity
        /\ rx_win \in Nat
        /\ Minus(d_rcv, rx_ack) \in Nat /\ Minus(tx_seq, d_rcv) \in Nat
        /\ Minus(tx_seq, rx_ack) \in Nat
    BY MinusType, MuxFlowAssumption DEF Inv, TypeOK
  <1>7. in < SeqMod
    BY <1>3, <1>5, <1>6, MuxFlowAssumption
  <1>8. /\ tx_ack' \in Seq32 /\ tx_seq' \in Seq32 /\ tx_acked' \in Seq32
        /\ ib_size' \in Nat /\ c_rcv' \in Seq32 /\ c_seq' \in Seq32
    BY <1>1, <1>3, <1>4, <1>6, <1>7, PlusType DEF Inv, TypeOK
  <1>9. TypeOK' /\ Masks'
    <2>1. /\ sendable' \in 0..MaxSend /\ flags' \in {0, 1}
          /\ events' \subseteq Poll /\ devents' \subseteq Poll /\ cevents' \subseteq Poll
          /\ Masks'
      BY <1>1, <1>6, <1>8, UpdateDerives
    <2> QED BY <1>1, <1>8, <2>1 DEF Inv, TypeOK
  <1>10. DownChain'
    <2>1. Received' = Received /\ Received \in Seq32
      BY <1>1, <1>2, DownFacts DEF Received
    <2>2. Minus(Received, tx_ack') = ib_size - out
      BY <1>1, <1>2, <1>3, <1>4, <1>6, <2>1, TrailMoves DEF Inv, DownChain
    <2>3. Minus(tx_ack, tx_acked) + out < SeqMod /\ Minus(tx_ack, d_ack) + out < SeqMod
      BY <1>2, <1>3, <1>4, DownFacts, MuxFlowAssumption DEF DownChain
    <2>4. Minus(tx_ack', tx_acked) = Minus(tx_ack, tx_acked) + out
      BY <1>1, <1>3, <1>6, <2>3, LeadMoves
    <2>5. Minus(tx_ack', d_ack) = Minus(tx_ack, d_ack) + out
      BY <1>1, <1>3, <1>6, <2>3, LeadMoves DEF Inv, TypeOK
    <2>6. Minus(tx_ack', tx_ack') = 0
      BY <1>8, MinusZero
    <2>7. CASE in > 0
      BY <1>1, <1>2, <1>3, <2>1, <2>2, <2>5, <2>6, <2>7, DownFacts DEF DownChain
    <2>8. CASE ~(in > 0)
      BY <1>1, <1>2, <1>3, <2>1, <2>2, <2>4, <2>8, DownFacts DEF DownChain
    <2> QED BY <2>7, <2>8
  <1>11. UpChain'
    <2>1. CASE in > 0
      <3>1. Minus(tx_seq, rx_ack) + in <= DevCapacity
        BY <1>3, <1>5, <1>6, <2>1, MuxFlowAssumption
      <3>2. Minus(tx_seq', rx_ack) = Minus(tx_seq, rx_ack) + in
        BY <1>1, <1>3, <1>6, <3>1, LeadMoves, MuxFlowAssumption
      <3>3. Minus(tx_seq, d_rcv) + in < SeqMod
        BY <1>2, <1>3, <1>6, <3>1, MuxFlowAssumption DEF Inv, UpChain
      <3>4. Minus(tx_seq', d_rcv) = Minus(tx_seq, d_rcv) + in
        BY <1>1, <1>3, <1>6, <3>3, LeadMoves
      <3> QED BY <1>1, <1>2, <1>3, <1>5, <1>6, <2>1, <3>1, <3>2, <3>4, UpFacts, MuxFlowAssumption
              DEF UpChain
    <2>2. CASE in = 0
      <3>1. tx_seq' = tx_seq
        BY <1>1, <1>6, <2>2, MuxFlowAssumption DEF Plus, Seq32
      <3> QED BY <1>1, <1>2, <3>1 DEF Inv, UpChain
    <2> QED BY <1>3, <2>1, <2>2
  <1>12. Phases' /\ Fresh' /\ NoUseOfFreedConn' /\ FlushTried'
    BY <1>1, <1>2 DEF Inv, Phases, Fresh, NoUseOfFreedConn, FlushTried
  <1> QED BY <1>9, <1>10, <1>11, <1>12 DEF Inv

\* The ACK timer moves tx_acked up to tx_ack.
LEMMA TimeoutKeeps ==
  ASSUME Inv, device_check_timeouts
  PROVE  Inv'
  <1>1. /\ state = "CONNECTED" /\ tx_acked' = tx_ack /\ polled' = {}
        /\ UNCHANGED <<state, cstate, tx_seq, tx_ack, rx_recvd, rx_ack, rx_win, ib_size,
                       c_rcv, c_seq, faults, dropped>>
        /\ UNCHANGED <<d_seq, d_ack, d_rcv, d_buf>>
        /\ update_connection
    BY DEF device_check_timeouts, dev, cli
  <1>2. TypeOK' /\ Masks'
    <2>1. /\ sendable' \in 0..MaxSend /\ flags' \in {0, 1}
          /\ events' \subseteq Poll /\ devents' \subseteq Poll /\ cevents' \subseteq Poll
          /\ Masks'
      BY <1>1, UpdateDerives DEF Inv, TypeOK
    <2> QED BY <1>1, <2>1 DEF Inv, TypeOK
  <1>3. DownChain'
    <2>1. Minus(tx_ack, tx_ack) = 0
      BY MinusZero DEF Inv, TypeOK
    <2>2. Received' = Received
      BY <1>1 DEF Received
    <2> QED BY <1>1, <2>1, <2>2, DownFacts DEF DownChain
  <1>4. UpChain' /\ Phases' /\ Fresh' /\ NoUseOfFreedConn' /\ FlushTried'
    BY <1>1 DEF Inv, UpChain, Phases, Fresh, NoUseOfFreedConn, FlushTried
  <1> QED BY <1>2, <1>3, <1>4 DEF Inv

\* Polling, and the answer that has gone out, touch no counter.
LEMMA PollKeeps ==
  ASSUME Inv, ppoll \/ output_buffer_process
  PROVE  Inv'
  <1>1. /\ UNCHANGED <<state, tx_seq, tx_ack, tx_acked, rx_recvd, rx_ack, rx_win,
                       sendable, ib_size, events, devents, flags, c_rcv, c_seq, faults,
                       dropped>>
        /\ UNCHANGED <<d_seq, d_ack, d_rcv, d_buf>>
        /\ polled' \subseteq Poll
        /\ \/ UNCHANGED <<cstate, cevents>>
           \/ cstate = "CONNECTING2" /\ cstate' = "CONNECTED" /\ cevents' = devents
    BY DEF ppoll, output_buffer_process, mux, dev, cli, Inv, TypeOK
  <1>2. TypeOK'
    BY <1>1 DEF Inv, TypeOK
  <1>3. Phases' /\ Fresh'
    BY <1>1 DEF Inv, Phases, Fresh
  <1>4. DownChain' /\ UpChain'
    BY <1>1 DEF Inv, DownChain, UpChain, Received
  <1>5. Masks'
    BY <1>1 DEF Inv, Masks
  <1>6. NoUseOfFreedConn' /\ FlushTried'
    BY <1>1 DEF Inv, NoUseOfFreedConn, FlushTried
  <1> QED BY <1>2, <1>3, <1>4, <1>5, <1>6 DEF Inv

\* A step of the device moves one of its own counters.
LEMMA DevKeeps ==
  ASSUME Inv, DevNext
  PROVE  Inv'
  <1>1. /\ state = "CONNECTED"
        /\ UNCHANGED <<state, cstate, tx_seq, tx_ack, tx_acked, rx_recvd, rx_ack, rx_win,
                       sendable, ib_size, events, devents, cevents, flags, polled, c_rcv,
                       c_seq, faults, dropped>>
    BY DEF DevNext, DevSends, DevSeesAck, DevReceives, DevReads, rest, mux, cli
  <1>2. /\ d_seq \in Seq32 /\ d_ack \in Seq32 /\ d_rcv \in Seq32 /\ d_buf \in Nat
        /\ d_buf \in 0..DevCapacity /\ rx_win \in Nat
        /\ tx_seq \in Seq32 /\ rx_ack \in Seq32 /\ tx_acked \in Seq32
        /\ Minus(d_rcv, rx_ack) \in Nat /\ Minus(tx_seq, d_rcv) \in Nat
        /\ Minus(tx_seq, rx_ack) \in Nat
    BY MinusType, MuxFlowAssumption DEF Inv, TypeOK
  <1>3. Received' = Received /\ Received \in Seq32
    BY <1>1, DownFacts DEF Received
  <1>4. Phases' /\ Fresh' /\ Masks' /\ NoUseOfFreedConn' /\ FlushTried'
    BY <1>1 DEF Inv, Phases, Fresh, Masks, NoUseOfFreedConn, FlushTried
  <1>5. ASSUME NEW n \in 1..TxWin, DevSends(n)
        PROVE  TypeOK' /\ DownChain' /\ UpChain'
    <2>1. /\ n \in Nat /\ n < SeqMod /\ Minus(d_seq, d_ack) + n <= TxWin
          /\ d_seq' = Plus(d_seq, n) /\ UNCHANGED <<d_ack, d_rcv, d_buf>>
      BY <1>5, MuxFlowAssumption DEF DevSends
    <2>2. TypeOK'
      <3>1. d_seq' \in Seq32
        BY <1>2, <2>1, PlusType
      <3> QED BY <1>1, <2>1, <3>1 DEF Inv, TypeOK
    <2>3. /\ Minus(d_seq, d_ack) + n < SeqMod /\ Minus(d_seq, Received) + n < SeqMod
      BY <1>1, <2>1, DownFacts, MuxFlowAssumption, SMTT(30) DEF DownChain
    <2>4. /\ Minus(d_seq', d_ack) = Minus(d_seq, d_ack) + n
          /\ Minus(d_seq', Received) = Minus(d_seq, Received) + n
      BY <1>2, <1>3, <2>1, <2>3, LeadMoves
    <2>5. DownChain'
      BY <1>1, <1>3, <2>1, <2>4, DownFacts, SMTT(30) DEF DownChain
    <2>6. UpChain'
      BY <1>1, <2>1 DEF Inv, UpChain
    <2> QED BY <2>2, <2>5, <2>6
  <1>6. ASSUME NEW n \in 1..TxWin, DevSeesAck(n)
        PROVE  TypeOK' /\ DownChain' /\ UpChain'
    <2>1. /\ n \in Nat /\ n < SeqMod /\ n <= Minus(tx_acked, d_ack)
          /\ d_ack' = Plus(d_ack, n) /\ UNCHANGED <<d_seq, d_rcv, d_buf>>
      BY <1>6, MuxFlowAssumption DEF DevSeesAck
    <2>2. TypeOK'
      <3>1. d_ack' \in Seq32
        BY <1>2, <2>1, PlusType
      <3> QED BY <1>1, <2>1, <3>1 DEF Inv, TypeOK
    <2>3. n <= Minus(d_seq, d_ack)
      BY <1>1, <2>1, DownFacts, SMTT(30) DEF DownChain
    <2>4. /\ Minus(tx_acked, d_ack') = Minus(tx_acked, d_ack) - n
          /\ Minus(d_seq, d_ack') = Minus(d_seq, d_ack) - n
      BY <1>2, <2>1, <2>3, TrailMoves
    <2>5. DownChain'
      <3>1. /\ Minus(d_seq, d_ack') \in Nat /\ Minus(d_seq, d_ack') <= TxWin
            /\ Minus(d_seq, d_ack') = Minus(tx_acked, d_ack') + Minus(tx_ack, tx_acked)
                                      + ib_size + Minus(d_seq, Received)
        BY <1>1, <2>1, <2>3, <2>4, DownFacts, MuxFlowAssumption, SMTT(30)
      <3> QED BY <1>1, <1>3, <2>1, <3>1, DownFacts DEF DownChain
    <2>6. UpChain'
      BY <1>1, <2>1 DEF Inv, UpChain
    <2> QED BY <2>2, <2>5, <2>6
  <1>7. ASSUME NEW n \in 1..DevCapacity, DevReceives(n)
        PROVE  TypeOK' /\ DownChain' /\ UpChain'
    <2>1. /\ n \in Nat /\ n < SeqMod /\ n <= Minus(tx_seq, d_rcv)
          /\ d_rcv' = Plus(d_rcv, n) /\ d_buf' = d_buf + n /\ UNCHANGED <<d_seq, d_ack>>
      BY <1>7, MuxFlowAssumption DEF DevReceives, InFlightUp
    <2>2. TypeOK'
      <3>1. d_rcv' \in Seq32
        BY <1>2, <2>1, PlusType
      <3>2. d_buf' \in 0..DevCapacity
        BY <1>1, <1>2, <2>1, MuxFlowAssumption DEF Inv, UpChain
      <3> QED BY <1>1, <2>1, <3>1, <3>2 DEF Inv, TypeOK
    <2>3. DownChain'
      BY <1>1, <1>3, <2>1 DEF Inv, DownChain
    <2>4. Minus(tx_seq, d_rcv') = Minus(tx_seq, d_rcv) - n
      BY <1>2, <2>1, TrailMoves
    <2>5. Minus(d_rcv, rx_ack) + n < SeqMod
      BY <1>1, <1>2, <2>1, UpFacts, MuxFlowAssumption, SMTT(30)
    <2>6. Minus(d_rcv', rx_ack) = Minus(d_rcv, rx_ack) + n
      BY <1>2, <2>1, <2>5, LeadMoves
    <2>7. UpChain'
      BY <1>1, <1>2, <2>1, <2>4, <2>6, UpFacts, MuxFlowAssumption, SMTT(30) DEF UpChain
    <2> QED BY <2>2, <2>3, <2>7
  <1>8. ASSUME NEW n \in 1..DevCapacity, DevReads(n)
        PROVE  TypeOK' /\ DownChain' /\ UpChain'
    <2>1. /\ n \in Nat /\ n <= d_buf /\ d_buf' = d_buf - n /\ UNCHANGED <<d_seq, d_ack, d_rcv>>
      BY <1>8, MuxFlowAssumption DEF DevReads
    <2>2. TypeOK'
      <3>1. d_buf' \in 0..DevCapacity
        BY <1>2, <2>1, MuxFlowAssumption
      <3> QED BY <1>1, <2>1, <3>1 DEF Inv, TypeOK
    <2>3. DownChain'
      BY <1>1, <1>3, <2>1 DEF Inv, DownChain
    <2>4. UpChain'
      BY <1>1, <1>2, <2>1, MuxFlowAssumption, UpFacts, SMTT(30) DEF UpChain
    <2> QED BY <2>2, <2>3, <2>4
  <1> QED BY <1>4, <1>5, <1>6, <1>7, <1>8 DEF DevNext, Inv

\* What is written to and read from a client whose connection then ends.
LEMMA EndsBounds ==
  ASSUME Inv, NEW ev, NEW out \in 0..InCapacity, NEW in \in 0..MaxSend,
         ClientEnds(ev, out, in)
  PROVE  state = "CONNECTED" /\ out \in 0..ib_size /\ in \in 0..DevCapacity
  <1>1. /\ state = "CONNECTED" /\ sendable \in Nat /\ sendable <= DevCapacity
        /\ ib_size \in Nat
    BY SendableFits, Types DEF ClientEnds
  <1>2. out \in 0..ib_size
    BY <1>1 DEF ClientEnds, Written
  <1>3. in \in 0..sendable
    BY <1>1 DEF ClientEnds
  <1> QED BY <1>1, <1>2, <1>3, MuxFlowAssumption

\* Every step of the connection, its client or the device keeps the invariant.
LEMMA NextKeeps == Inv /\ [Next]_vars => Inv'
  <1> SUFFICES ASSUME Inv, [Next]_vars PROVE Inv'
    OBVIOUS
  <1>1. ASSUME NEW w \in 0..DevCapacity, SynAck(w) PROVE Inv'
    BY <1>1, SynAckKeeps
  <1>2. ASSUME NEW n \in 0..TxWin, NEW k \in 0..DevCapacity, NEW w \in 0..DevCapacity,
               Segment(n, k, w)
        PROVE  Inv'
    BY <1>2, SegmentKeeps
  <1>3. ASSUME NEW n \in 0..TxWin, SegmentFails(n) PROVE Inv'
    BY <1>3, SegmentFailsKeeps
  <1>4. CASE DeviceReset \/ TimeoutAckFails
    <2>1. /\ state # "FREE" /\ connection_teardown(events, ib_size, 0)
          /\ ib_size \in Nat /\ c_seq' \in Seq32 /\ UNCHANGED faults
      BY <1>4 DEF DeviceReset, TimeoutAckFails, Inv, TypeOK
    <2>2. ib_size - 0 = ib_size /\ 0 \in 0..ib_size
      BY <2>1
    <2> QED BY <2>1, <2>2, TeardownNow
  <1>5. CASE ppoll \/ output_buffer_process
    BY <1>5, PollKeeps
  <1>6. ASSUME NEW ev \in SUBSET Poll, NEW out \in 0..InCapacity, NEW in \in 0..MaxSend,
               ClientEnds(ev, out, in)
        PROVE  Inv'
    <2>1. state # "FREE" /\ out \in 0..ib_size /\ in \in 0..DevCapacity
      BY <1>6, EndsBounds
    <2>2. c_seq' \in Seq32
      <3>1. in \in Nat /\ in < SeqMod /\ c_seq' = Plus(c_seq, in)
        BY <1>6, <2>1, MuxFlowAssumption DEF ClientEnds
      <3> QED BY <3>1, PlusType, Types
    <2> QED BY <1>6, <2>1, <2>2, TeardownNow DEF ClientEnds
  <1>7. ASSUME NEW ev \in SUBSET Poll, NEW out \in 0..InCapacity, NEW in \in 0..MaxSend,
               device_client_process(ev, out, in)
        PROVE  Inv'
    BY <1>7, ProcessKeeps
  <1>8. CASE ClientAborts \/ StaleInput
    BY <1>8, CloseKeeps DEF ClientAborts, StaleInput
  <1>9. CASE device_check_timeouts
    BY <1>9, TimeoutKeeps
  <1>10. CASE DevNext
    BY <1>10, DevKeeps
  <1>11. CASE UNCHANGED vars
    BY <1>11 DEF vars, mux, dev, cli, Inv, TypeOK, Phases, Fresh, DownChain, UpChain, Masks,
                 NoUseOfFreedConn, FlushTried, Received
  <1>12. CASE Ended
    BY <1>11, <1>12 DEF Ended
  <1> QED
    BY <1>1, <1>2, <1>3, <1>4, <1>5, <1>6, <1>7, <1>8, <1>9, <1>10, <1>11, <1>12
    DEF Next, MuxNext

(***************************************************************************)
(* The theorems.                                                           *)
(***************************************************************************)
\* The invariant holds throughout.
THEOREM Invariant == Spec => []Inv
  BY InitInv, NextKeeps, PTL DEF Spec

\* Counters, masks and buffers keep their types.
THEOREM TypeCorrect == Spec => []TypeOK
  <1>1. Inv => TypeOK
    BY DEF Inv
  <1> QED BY <1>1, Invariant, PTL

\* Whatever the sizes, a device that keeps to tx_win cannot overflow ib_buf, so
\* that send_tcp_ack is never called on a connection that was freed.
THEOREM BufferSuffices == Spec => []NoUseOfFreedConn
  <1>1. Inv => NoUseOfFreedConn
    BY DEF Inv
  <1> QED BY <1>1, Invariant, PTL

\* No byte from the device is lost, made up or acknowledged before the client
\* has it, across any number of wraps of the counters.
THEOREM BytesStayAccounted == Spec => []BytesAccounted
  <1>1. Inv => BytesAccounted
    BY DEF Inv, BytesAccounted, DownChain, InFlightDown, Received
  <1> QED BY <1>1, Invariant, PTL

\* The client is always polled for what the counters allow, and the ACK timer
\* runs exactly when an ACK is due.
THEOREM WakeupsKept == Spec => []NoLostWakeup
  <1>1. Inv => NoLostWakeup
    <2>1. Inv /\ cstate = "CONNECTED" => state = "CONNECTED"
      BY DEF Inv, Phases, TypeOK
    <2> QED BY <2>1 DEF Inv, NoLostWakeup, Masks
  <1> QED BY <1>1, Invariant, PTL

\* On no path does a teardown free bytes for a CONNECTED client that it has not
\* offered to the client's socket.
THEOREM ConnectedIsOffered == Spec => []FlushTried
  <1>1. Inv => FlushTried
    BY DEF Inv
  <1> QED BY <1>1, Invariant, PTL

(***************************************************************************)
(* The two directions implement BytePipe.                                  *)
(***************************************************************************)
\* A step that ends the connection: the client gets k bytes more, and in bytes
\* read from it are lost.
EndsWith(k, in) ==
  /\ state # "FREE" /\ state' = "FREE"
  /\ c_rcv' = Plus(c_rcv, k) /\ c_seq' = Plus(c_seq, in)
  /\ UNCHANGED <<d_seq, d_rcv, d_buf>>

\* Nothing added is no change.
LEMMA PlusZero ==
  ASSUME NEW a \in Seq32
  PROVE  Plus(a, 0) = a
  BY MuxFlowAssumption DEF Plus, Seq32

\* What the device's program has read stays while bytes come in for it.
LEMMA ReadStays ==
  ASSUME NEW a \in Seq32, NEW b \in Nat, NEW n \in Nat, b + n < SeqMod
  PROVE  Minus(Plus(a, n), b + n) = Minus(a, b)
  BY MuxFlowAssumption DEF Plus, Minus, Seq32

\* It moves on as the program reads.
LEMMA ReadMoves ==
  ASSUME NEW a \in Seq32, NEW b \in Nat, NEW n \in Nat, n <= b, b < SeqMod
  PROVE  Minus(a, b - n) = Plus(Minus(a, b), n)
  BY MuxFlowAssumption DEF Plus, Minus, Seq32

\* A teardown writes no more than what was held.
LEMMA TeardownEnds ==
  ASSUME Inv, state # "FREE", NEW ev, NEW ib \in Nat, NEW out \in Nat,
         connection_teardown(ev, ib, out), out + ib <= DownHeld, DownHeld \in Nat,
         NEW in \in 0..DevCapacity, c_seq' = Plus(c_seq, in)
  PROVE  \E k \in 0..DownHeld, i \in 0..DevCapacity : EndsWith(k, i)
  <1>1. PICK k \in 0..ib : c_rcv' = Plus(c_rcv, out + k)
    BY DEF connection_teardown
  <1>2. state' = "FREE" /\ UNCHANGED <<d_seq, d_rcv, d_buf>>
    BY DEF connection_teardown, dev
  <1>3. out + k \in 0..DownHeld
    BY <1>1
  <1>4. EndsWith(out + k, in)
    BY <1>1, <1>2 DEF EndsWith
  <1> QED BY <1>3, <1>4

\* Bytes on their way, as natural numbers.
LEMMA HeldFacts ==
  ASSUME Inv
  PROVE  /\ DownHeld \in Nat
         /\ state # "FREE" => ib_size <= DownHeld
         /\ state = "CONNECTED" =>
              /\ DownHeld = Minus(d_seq, Received) + ib_size
              /\ DownHeld <= Minus(d_seq, d_ack)
              /\ Minus(tx_seq, d_rcv) \in Nat /\ d_buf \in Nat
  <1>1. CASE state = "CONNECTED"
    <2>1. /\ d_seq \in Seq32 /\ tx_seq \in Seq32 /\ d_rcv \in Seq32 /\ d_buf \in Nat
      BY Types
    <2>2. DownHeld = Minus(d_seq, Received) + ib_size
      BY <1>1 DEF DownHeld, InFlightDown, Received
    <2>3. Minus(tx_seq, d_rcv) \in Nat
      BY <2>1, MinusType
    <2>4. /\ ib_size \in Nat /\ Minus(d_seq, Received) \in Nat
          /\ Minus(d_seq, Received) + ib_size <= Minus(d_seq, d_ack)
      BY <1>1, DownFacts, SMTT(30)
    <2> QED BY <1>1, <2>1, <2>2, <2>3, <2>4
  <1>2. CASE state # "CONNECTED" /\ state # "FREE"
    <2>1. ib_size = 0
      BY <1>2 DEF Inv, TypeOK, Fresh
    <2> QED BY <1>2, <2>1 DEF DownHeld
  <1>3. CASE state = "FREE"
    BY <1>3 DEF DownHeld
  <1> QED BY <1>1, <1>2, <1>3
\* The steps that leave the connection up, and what they do to the counters at
\* the ends of the two pipes.
LEMMA StepKinds ==
  ASSUME Inv, Next
  PROVE  \/ \E k \in 0..DownHeld, i \in 0..DevCapacity : EndsWith(k, i)
         \/ \E w \in 0..DevCapacity : SynAck(w)
         \/ \E n \in 0..TxWin, k \in 0..DevCapacity, w \in 0..DevCapacity : Segment(n, k, w)
         \/ UNCHANGED <<state, d_seq, rx_recvd, ib_size, tx_seq, d_rcv, d_buf, c_rcv, c_seq>>
         \/ \E ev \in SUBSET Poll, out \in 0..InCapacity, in \in 0..MaxSend :
              device_client_process(ev, out, in)
         \/ DevNext
  <1> DEFINE Ends == \E k \in 0..DownHeld, i \in 0..DevCapacity : EndsWith(k, i)
  <1>1. /\ 0 \in 0..DevCapacity /\ 0 \in 0..DownHeld /\ DownHeld \in Nat
        /\ state # "FREE" => ib_size <= DownHeld
        /\ ib_size \in Nat /\ c_seq = Plus(c_seq, 0) /\ c_rcv = Plus(c_rcv, 0)
    BY HeldFacts, Types, PlusZero, MuxFlowAssumption
  <1>2. ASSUME NEW n \in 0..TxWin, SegmentFails(n)
        PROVE  Ends
    <2>1. state = "CONNECTED" /\ n <= Minus(d_seq, Received) /\ n \in Nat
          /\ UNCHANGED c_seq
      BY <1>2, MuxFlowAssumption
      DEF SegmentFails, DeviceDataNoAck, DeviceOverflow, InFlightDown, Received
    <2>2. ib_size + n <= DownHeld /\ 0 + ib_size <= DownHeld /\ 0 + (ib_size + n) <= DownHeld
          /\ ib_size + n \in Nat
      BY <1>1, <2>1, HeldFacts, DownFacts
    <2>3. CASE DeviceDataNoAck(n)
      BY <1>1, <2>1, <2>2, <2>3, TeardownEnds DEF DeviceDataNoAck
    <2>4. CASE DeviceOverflow(n)
      BY <1>1, <2>1, <2>2, <2>4, TeardownEnds DEF DeviceOverflow
    <2> QED BY <1>2, <2>3, <2>4 DEF SegmentFails
  <1>3. CASE DeviceReset \/ TimeoutAckFails
    <2>1. /\ state # "FREE" /\ connection_teardown(events, ib_size, 0) /\ UNCHANGED c_seq
      BY <1>3 DEF DeviceReset, TimeoutAckFails
    <2>2. 0 + ib_size <= DownHeld
      BY <1>1, <2>1
    <2>3. Ends
      BY <1>1, <2>1, <2>2, TeardownEnds
    <2> QED BY <2>3
  <1>4. CASE ppoll \/ output_buffer_process \/ device_check_timeouts
    BY <1>4 DEF ppoll, output_buffer_process, device_check_timeouts, mux, dev, cli
  <1>5. ASSUME NEW ev \in SUBSET Poll, NEW out \in 0..InCapacity, NEW in \in 0..MaxSend,
               ClientEnds(ev, out, in)
        PROVE  Ends
    <2>1. state = "CONNECTED" /\ out \in 0..ib_size /\ in \in 0..DevCapacity
      BY <1>5, EndsBounds
    <2>2. /\ connection_teardown(events, ib_size - out, out) /\ c_seq' = Plus(c_seq, in)
          /\ out \in Nat /\ ib_size - out \in Nat /\ out + (ib_size - out) <= DownHeld
      BY <1>1, <1>5, <2>1 DEF ClientEnds
    <2> QED BY <1>1, <2>1, <2>2, TeardownEnds
  <1>6. CASE ClientAborts \/ StaleInput
    <2>1. /\ state # "FREE" /\ state' = "FREE"
          /\ UNCHANGED <<c_rcv, c_seq, d_seq, d_rcv, d_buf>>
      BY <1>6 DEF ClientAborts, StaleInput, client_close, dev, cli, Inv, Phases
    <2>2. EndsWith(0, 0)
      BY <1>1, <2>1 DEF EndsWith
    <2> QED BY <1>1, <2>2
  <1>7. CASE Ended
    BY <1>7 DEF Ended, vars, mux, dev, cli
  <1> QED BY <1>2, <1>3, <1>4, <1>5, <1>6, <1>7 DEF Next, MuxNext

\* A step that ends the connection closes both pipes.
LEMMA EndCloses ==
  ASSUME Inv, NEW k \in 0..DownHeld, NEW in \in 0..DevCapacity, EndsWith(k, in)
  PROVE  Down!Close /\ Up!Close
  <1>1. /\ d_seq' = Plus(d_seq, 0) /\ UNCHANGED UpRead
        /\ state # "FREE" /\ state' = "FREE"
        /\ c_rcv' = Plus(c_rcv, k) /\ c_seq' = Plus(c_seq, in)
    BY Types, PlusZero DEF EndsWith, UpRead
  <1>2. UpRead \in Seq32 /\ UpHeld \in Nat /\ DownHeld \in Nat
    <2>1. d_rcv \in Seq32 /\ d_buf \in Nat /\ d_buf <= DevCapacity
      BY MuxFlowAssumption DEF Inv, TypeOK
    <2>2. UpRead \in Seq32
      BY <2>1, MuxFlowAssumption DEF UpRead, Minus, Seq32
    <2> QED BY <2>2, HeldFacts DEF UpHeld, InFlightUp
  <1>3. UpRead' = Plus(UpRead, 0)
    BY <1>1, <1>2, PlusZero
  <1>4. DownHeld' = 0 /\ UpHeld' = 0
    BY <1>1 DEF DownHeld, UpHeld
  <1>5. Down!Close
    <2>1. 0 \in 0..TxWin
      BY MuxFlowAssumption
    <2> QED BY <1>1, <1>4, <2>1 DEF Down!Close, Down!Add, Plus
  <1>6. Up!Close
    <2>1. 0 \in 0..UpHeld
      BY <1>2
    <2> QED BY <1>1, <1>3, <1>4, <2>1 DEF Up!Close, Up!Add, Plus
  <1> QED BY <1>5, <1>6

\* What the two pipes are made of.
pipes == <<d_seq, c_rcv, DownHeld, c_seq, UpRead, UpHeld, (state # "FREE")>>

\* The SYN|ACK opens both pipes empty.
LEMMA SynAckEmpty ==
  ASSUME Inv, NEW w \in 0..DevCapacity, SynAck(w)
  PROVE  UNCHANGED pipes
  <1>1. /\ state = "CONNECTING" /\ state' = "CONNECTED" /\ tx_seq' = 1 /\ rx_recvd' = 0
        /\ d_seq' = 1 /\ d_rcv' = 1 /\ d_buf' = 0 /\ ib_size' = 0
        /\ UNCHANGED <<d_seq, d_rcv, d_buf, c_rcv, c_seq>>
    BY MuxFlowAssumption DEF SynAck, dev, cli, Inv, Fresh, Plus
  <1>2. DownHeld = 0 /\ UpHeld = 0 /\ UNCHANGED UpRead
    BY <1>1 DEF DownHeld, UpHeld, UpRead
  <1>3. DownHeld' = 0 /\ UpHeld' = 0
    BY <1>1, MuxFlowAssumption, SMTT(30)
    DEF DownHeld, UpHeld, InFlightUp, InFlightDown, Minus, Plus
  <1> QED BY <1>1, <1>2, <1>3 DEF pipes

\* A segment moves bytes from the wire into ib_buf, both of which are held.
LEMMA SegmentHolds ==
  ASSUME Inv, NEW n \in 0..TxWin, NEW k \in 0..DevCapacity, NEW w \in 0..DevCapacity,
         Segment(n, k, w)
  PROVE  UNCHANGED pipes
  <1>1. /\ state = "CONNECTED" /\ n <= Minus(d_seq, Received)
        /\ ib_size' = ib_size + n /\ rx_recvd' = Plus(rx_recvd, n)
        /\ UNCHANGED <<state, d_seq, d_rcv, d_buf, tx_seq, c_rcv, c_seq>>
    BY DEF Segment, DeviceData, InFlightDown, Received, dev, cli
  <1>2. n \in Nat /\ n < SeqMod
    BY MuxFlowAssumption
  <1>3. Received' = Plus(Received, n)
    BY <1>1, <1>2, PlusSwap DEF Received, Inv, TypeOK
  <1>4. Minus(d_seq, Received') = Minus(d_seq, Received) - n
    BY <1>1, <1>2, <1>3, DownFacts, TrailMoves, SMTT(30) DEF Inv, TypeOK
  <1>5. DownHeld' = Minus(d_seq, Received') + ib_size'
    BY <1>1 DEF DownHeld, InFlightDown, Received
  <1>6. UNCHANGED DownHeld
    BY <1>1, <1>2, <1>4, <1>5, HeldFacts, DownFacts
  <1>7. UNCHANGED <<UpHeld, UpRead>>
    BY <1>1 DEF UpHeld, UpRead, InFlightUp
  <1> QED BY <1>1, <1>6, <1>7 DEF pipes
\* device_client_process takes from the down pipe what it writes to the client
\* and puts into the up pipe what it reads.
LEMMA ProcessMoves ==
  ASSUME Inv, Inv', NEW ev \in SUBSET Poll, NEW out \in 0..InCapacity,
         NEW in \in 0..MaxSend, device_client_process(ev, out, in)
  PROVE  /\ Down!Take \/ UNCHANGED <<d_seq, c_rcv, DownHeld, (state # "FREE")>>
         /\ Up!Put \/ UNCHANGED <<c_seq, UpRead, UpHeld, (state # "FREE")>>
  <1>1. /\ cstate = "CONNECTED" /\ UNCHANGED <<state, d_seq, d_rcv, d_buf, rx_recvd>>
        /\ tx_seq' = Plus(tx_seq, in) /\ ib_size' = ib_size - out
        /\ c_rcv' = Plus(c_rcv, out) /\ c_seq' = Plus(c_seq, in)
    BY DEF device_client_process, dev
  <1>2. state = "CONNECTED" /\ state' = "CONNECTED"
    BY <1>1 DEF Inv, Phases, TypeOK
  <1>3. out \in Nat /\ in \in Nat /\ out <= ib_size
    <2>1. Written(ev, out) /\ out \in Nat /\ in \in Nat /\ ib_size \in Nat
      BY Types, MuxFlowAssumption, SMTT(30) DEF device_client_process
    <2> QED BY ONLY <2>1 DEF Written
  <1>4. Down!Take \/ UNCHANGED <<d_seq, c_rcv, DownHeld, (state # "FREE")>>
    <2>1. /\ DownHeld \in Nat /\ out <= DownHeld /\ DownHeld' = DownHeld - out
      <3>1. DownHeld = InFlightDown + ib_size /\ DownHeld' = InFlightDown + (ib_size - out)
        BY <1>1, <1>2 DEF DownHeld, InFlightDown
      <3>2. InFlightDown \in Nat /\ ib_size \in Nat
        BY <1>2, DownFacts DEF InFlightDown, Received
      <3> QED BY ONLY <1>3, <3>1, <3>2
    <2>2. CASE out = 0
      BY <1>1, <1>2, <2>1, <2>2, PlusZero, Types
    <2>3. CASE out > 0
      <3>1. out \in 1..DownHeld
        BY <1>3, <2>1, <2>3
      <3> QED BY <1>1, <1>2, <2>1, <3>1 DEF Down!Take, Down!Add, Plus
    <2> QED BY <1>3, <2>2, <2>3
  <1>5. Up!Put \/ UNCHANGED <<c_seq, UpRead, UpHeld, (state # "FREE")>>
    <2>1. UNCHANGED UpRead
      BY <1>1 DEF UpRead
    <2>2. CASE in = 0
      <3>1. tx_seq' = tx_seq /\ c_seq' = c_seq
        BY <1>1, <2>2, PlusZero, Types
      <3> QED BY <1>1, <2>1, <3>1 DEF UpHeld, InFlightUp
    <2>3. CASE in > 0
      <3>1. tx_seq \in Seq32 /\ d_rcv \in Seq32 /\ rx_ack \in Seq32
        BY Types
      <3>2. in <= sendable /\ sendable = Sendable(tx_seq, rx_ack, rx_win)
            /\ rx_win \in Nat /\ rx_win <= DevCapacity /\ sendable \in Nat
        <4>1. sendable \in Nat /\ rx_win \in Nat /\ rx_win <= DevCapacity
          BY Types
        <4>2. sendable = Sendable(tx_seq, rx_ack, rx_win)
          BY <1>2 DEF Inv, Masks
        <4>3. in <= sendable
          BY <2>3 DEF device_client_process
        <4> QED BY <4>1, <4>2, <4>3
      <3>3. in <= rx_win - Minus(tx_seq, rx_ack)
        BY <1>3, <2>3, <3>1, <3>2, SendableBound, MinusType
      <3>4. Minus(tx_seq, d_rcv) + in < SeqMod
        <4>1. Minus(tx_seq, d_rcv) <= Minus(tx_seq, rx_ack)
          BY <1>2, UpFacts
        <4>2. Minus(tx_seq, d_rcv) \in Nat /\ Minus(tx_seq, rx_ack) \in Nat
          BY <3>1, MinusType
        <4> QED BY ONLY <1>3, <3>2, <3>3, <4>1, <4>2, MuxFlowAssumption
      <3>5. Minus(tx_seq', d_rcv) = Minus(tx_seq, d_rcv) + in
        BY <1>1, <1>3, <3>1, <3>4, LeadMoves
      <3>6. UpHeld' = UpHeld + in /\ UpHeld \in Nat
        <4>1. UpHeld = Minus(tx_seq, d_rcv) + d_buf /\ UpHeld' = Minus(tx_seq', d_rcv) + d_buf
          BY <1>1, <1>2 DEF UpHeld, InFlightUp
        <4>2. Minus(tx_seq, d_rcv) \in Nat /\ d_buf \in Nat
          BY <1>2, HeldFacts
        <4> QED BY ONLY <1>3, <3>5, <4>1, <4>2
      <3>7. UpHeld' <= DevCapacity
        BY <1>2 DEF UpHeld, InFlightUp, Inv, UpChain
      <3>8. in \in 1..DevCapacity
        BY ONLY <1>3, <2>3, <3>6, <3>7, MuxFlowAssumption
      <3> QED BY <1>1, <1>2, <2>1, <3>6, <3>7, <3>8 DEF Up!Put, Up!Add, Plus
    <2> QED BY <1>3, <2>2, <2>3
  <1> QED BY <1>4, <1>5

\* The device puts into the down pipe what it sends and takes from the up pipe
\* what it reads.
LEMMA DevMoves ==
  ASSUME Inv, Inv', DevNext
  PROVE  /\ Down!Put \/ UNCHANGED <<d_seq, c_rcv, DownHeld, (state # "FREE")>>
         /\ Up!Take \/ UNCHANGED <<c_seq, UpRead, UpHeld, (state # "FREE")>>
  <1>1. state = "CONNECTED" /\ UNCHANGED <<state, tx_seq, rx_recvd, ib_size, c_rcv, c_seq>>
    BY DEF DevNext, DevSends, DevSeesAck, DevReceives, DevReads, rest, mux, cli
  <1>2. /\ DownHeld = Minus(d_seq, Received) + ib_size
        /\ DownHeld' = Minus(d_seq', Received) + ib_size
        /\ UpHeld = Minus(tx_seq, d_rcv) + d_buf /\ UpHeld' = Minus(tx_seq, d_rcv') + d_buf'
    BY <1>1 DEF DownHeld, UpHeld, InFlightUp, InFlightDown, Received
  <1>3. /\ Minus(d_seq, Received) \in Nat /\ ib_size \in Nat /\ Received \in Seq32
        /\ Minus(tx_seq, d_rcv) \in Nat /\ d_buf \in Nat
        /\ DownHeld \in Nat /\ DownHeld <= Minus(d_seq, d_ack) /\ Minus(d_seq, d_ack) \in Nat
    BY <1>1, HeldFacts, DownFacts
  <1>4. ASSUME NEW n \in 1..TxWin, DevSends(n)
        PROVE  Down!Put /\ UNCHANGED <<UpRead, UpHeld>>
    <2>1. /\ n \in Nat /\ n > 0 /\ d_seq' = Plus(d_seq, n) /\ UNCHANGED <<d_rcv, d_buf>>
          /\ Minus(d_seq, d_ack) + n <= TxWin
      BY <1>4, MuxFlowAssumption DEF DevSends
    <2>2. DownHeld + n <= TxWin /\ Minus(d_seq, Received) + n < SeqMod
      BY ONLY <1>2, <1>3, <2>1, MuxFlowAssumption
    <2>3. Minus(d_seq', Received) = Minus(d_seq, Received) + n
      BY <1>3, <2>1, <2>2, LeadMoves, Types, SMTT(30)
    <2>4. DownHeld' = DownHeld + n /\ DownHeld' <= TxWin
      BY ONLY <1>2, <1>3, <2>1, <2>2, <2>3
    <2>5. UNCHANGED <<UpRead, UpHeld>>
      BY <1>1, <2>1 DEF UpRead, UpHeld, InFlightUp
    <2> QED BY <1>1, <1>4, <2>1, <2>4, <2>5 DEF Down!Put, Down!Add, Plus
  <1>5. ASSUME NEW n \in 1..TxWin, DevSeesAck(n)
        PROVE  UNCHANGED <<d_seq, DownHeld, UpRead, UpHeld>>
    BY <1>2, <1>5 DEF DevSeesAck, UpRead
  <1>6. ASSUME NEW n \in 1..DevCapacity, DevReceives(n)
        PROVE  UNCHANGED <<d_seq, DownHeld, UpRead, UpHeld>>
    <2>1. /\ n \in Nat /\ n <= Minus(tx_seq, d_rcv) /\ d_rcv' = Plus(d_rcv, n)
          /\ d_buf' = d_buf + n /\ UNCHANGED d_seq
      BY <1>6, MuxFlowAssumption DEF DevReceives, InFlightUp
    <2>2. Minus(tx_seq, d_rcv') = Minus(tx_seq, d_rcv) - n
      BY <2>1, TrailMoves, Types
    <2>3. d_buf + n < SeqMod
      BY <1>1, <1>3, <2>1, UpFacts, MuxFlowAssumption
    <2>4. UNCHANGED UpRead
      BY <1>3, <2>1, <2>3, ReadStays, Types DEF UpRead
    <2> QED BY <1>2, <1>3, <2>1, <2>2, <2>4
  <1>7. ASSUME NEW n \in 1..DevCapacity, DevReads(n)
        PROVE  UNCHANGED <<d_seq, DownHeld>> /\ Up!Take
    <2>1. /\ n \in Nat /\ n > 0 /\ n <= d_buf /\ d_buf' = d_buf - n
          /\ UNCHANGED <<d_seq, d_rcv>>
      BY <1>7, MuxFlowAssumption DEF DevReads
    <2>2. UpHeld' = UpHeld - n /\ n \in 1..UpHeld
      BY ONLY <1>2, <1>3, <2>1
    <2>3. UpRead' = Plus(UpRead, n)
      <3>1. d_buf < SeqMod /\ d_rcv \in Seq32
        BY MuxFlowAssumption DEF Inv, TypeOK
      <3> QED BY <1>3, <2>1, <3>1, ReadMoves DEF UpRead
    <2>4. Up!Take
      BY <1>1, <2>2, <2>3 DEF Up!Take, Up!Add, Plus
    <2> QED BY <1>2, <2>1, <2>4
  <1> QED BY <1>1, <1>4, <1>5, <1>6, <1>7 DEF DevNext

\* Every step is a step of each pipe or leaves it alone.
LEMMA StepMoves ==
  ASSUME Inv, Inv', [Next]_vars
  PROVE  /\ [Down!Next]_<<d_seq, c_rcv, DownHeld, (state # "FREE")>>
         /\ [Up!Next]_<<c_seq, UpRead, UpHeld, (state # "FREE")>>
  <1>1. ASSUME NEW k \in 0..DownHeld, NEW i \in 0..DevCapacity, EndsWith(k, i)
        PROVE  Down!Next /\ Up!Next
    BY <1>1, EndCloses DEF Down!Next, Up!Next
  <1>2. ASSUME NEW w \in 0..DevCapacity, SynAck(w)
        PROVE  UNCHANGED pipes
    BY <1>2, SynAckEmpty
  <1>3. ASSUME NEW n \in 0..TxWin, NEW k \in 0..DevCapacity, NEW w \in 0..DevCapacity,
               Segment(n, k, w)
        PROVE  UNCHANGED pipes
    BY <1>3, SegmentHolds
  <1>4. CASE UNCHANGED <<state, d_seq, rx_recvd, ib_size, tx_seq, d_rcv, d_buf, c_rcv, c_seq>>
    <2>1. UNCHANGED pipes
      BY <1>4 DEF pipes, DownHeld, UpHeld, UpRead, InFlightUp, InFlightDown
    <2> QED BY <2>1 DEF pipes
  <1>5. ASSUME NEW ev \in SUBSET Poll, NEW out \in 0..InCapacity, NEW in \in 0..MaxSend,
               device_client_process(ev, out, in)
        PROVE  /\ Down!Next \/ UNCHANGED <<d_seq, c_rcv, DownHeld, (state # "FREE")>>
               /\ Up!Next \/ UNCHANGED <<c_seq, UpRead, UpHeld, (state # "FREE")>>
    BY <1>5, ProcessMoves DEF Down!Next, Up!Next
  <1>6. CASE DevNext
    BY <1>6, DevMoves DEF Down!Next, Up!Next
  <1>7. CASE UNCHANGED vars
    BY <1>4, <1>7 DEF vars, mux, dev, cli
  <1>8. CASE Next
    BY <1>1, <1>2, <1>3, <1>4, <1>5, <1>6, <1>8, StepKinds DEF pipes
  <1> QED BY <1>7, <1>8

\* From device to client, the daemon is a bounded pipe of tx_win bytes: what the
\* device sends reaches the client's socket or is held, until the connection ends.
THEOREM DownRefines == Spec => DownIsPipe
  <1>1. Init => Down!Init
    BY DEF Init, Down!Init, DownHeld
  <1>2. Inv /\ Inv' /\ [Next]_vars
          => [Down!Next]_<<d_seq, c_rcv, DownHeld, (state # "FREE")>>
    BY StepMoves
  <1> QED BY <1>1, <1>2, Invariant, PTL DEF Spec, DownIsPipe, Down!Spec

\* From client to device, it is a bounded pipe of the device's buffer size: what
\* is read from the client reaches the device's program or is held.
THEOREM UpRefines == Spec => UpIsPipe
  <1>1. Init => Up!Init
    BY DEF Init, Up!Init, UpHeld, UpRead, Minus
  <1>2. Inv /\ Inv' /\ [Next]_vars
          => [Up!Next]_<<c_seq, UpRead, UpHeld, (state # "FREE")>>
    BY StepMoves
  <1> QED BY <1>1, <1>2, Invariant, PTL DEF Spec, UpIsPipe, Up!Spec
=============================================================================
