----------------------------- MODULE Usb_proofs -----------------------------
(***************************************************************************)
(* Proofs about Usb for any number of read loops, writes and replugs, and  *)
(* any sets of faults; and about MuxInput, which puts together what the    *)
(* reads return, for reads and buffers of any size.                        *)
(***************************************************************************)
EXTENDS Usb, MuxInput, TLAPS

\* device_remove has been called by the time usb_disconnect waits.
RemovedFirst == pc \in {"wait", "stop", "nested", "down"} => mux = 0

Inv == TypeOK /\ MuxHasItsUsb /\ RemovedFirst

\* Initially there is no device.
LEMMA InitInv == Init => Inv
BY UsbAssumption, SMTT(30)
DEF Init, Inv, TypeOK, MuxHasItsUsb, RemovedFirst, Pending, Stages

\* The callbacks keep the invariant; those of control transfers do nothing in
\* usb_disconnect's wait, because a device with transfers is up.
LEMMA CallbackKeepsInv == Inv /\ Callback => Inv'
<1> SUFFICES ASSUME Inv, Callback PROVE Inv'
  OBVIOUS
<1> USE UsbAssumption
    DEF Inv, TypeOK, MuxHasItsUsb, RemovedFirst, Pending,
        Stages, Control, Waiting, Completing, Plugging, bus, xfers, ctl
<1>1. CASE HotplugArrived
  BY <1>1 DEF HotplugArrived, usb_device_add
<1>2. CASE HotplugLeft
  BY <1>2 DEF HotplugLeft
<1>3. CASE get_mode_cb
  BY <1>3 DEF get_mode_cb, device_complete_initialization
<1>4. CASE switch_mode_cb
  BY <1>4 DEF switch_mode_cb, device_complete_initialization
<1>5. CASE get_langid_callback
  BY <1>5 DEF get_langid_callback
<1>6. CASE SerialFails
  BY <1>6 DEF SerialFails
<1>7. CASE DeviceAddFails
  BY <1>7 DEF DeviceAddFails
<1>8. CASE NoReadLoop
  BY <1>8 DEF NoReadLoop
<1>9. CASE \E k \in 1..NumRxLoops : ReadLoopsStart(k)
  BY <1>9 DEF ReadLoopsStart
<1>10. CASE ResubmitFails
  BY <1>10 DEF ResubmitFails
<1>11. CASE RxError
  BY <1>11 DEF RxError
<1>12. CASE tx_callback
  BY <1>12, SMTT(30) DEF tx_callback
<1> QED
  BY <1>1, <1>2, <1>3, <1>4, <1>5, <1>6, <1>7, <1>8, <1>9, <1>10, <1>11, <1>12
  DEF Callback

\* So does every step.
LEMMA NextKeepsInv == Inv /\ [Next]_vars => Inv'
<1> SUFFICES ASSUME Inv, [Next]_vars PROVE Inv'
  OBVIOUS
<1> USE UsbAssumption
    DEF Inv, TypeOK, MuxHasItsUsb, RemovedFirst, Pending,
        Stages, Control, Waiting, bus, xfers, Onward, Reap
<1>1. CASE Plug
  BY <1>1 DEF Plug
<1>2. CASE Unplug
  <2>1. hot' \in Seq({"ARRIVED", "LEFT"}) /\ plugged' \in {0, 1}
    BY <1>2 DEF Unplug
  <2> QED BY <1>2, <2>1 DEF Unplug
<1>3. CASE Callback
  BY <1>3, CallbackKeepsInv
<1>4. CASE usb_send
  BY <1>4 DEF usb_send
<1>5. CASE usb_process
  BY <1>5 DEF usb_process
<1>6. CASE reap_dead_devices
  BY <1>6 DEF reap_dead_devices
<1>7. CASE Reaped
  BY <1>7 DEF Reaped
<1>8. CASE usb_disconnect
  BY <1>8 DEF usb_disconnect
<1>9. CASE DisconnectBreaks
  BY <1>9 DEF DisconnectBreaks
<1>10. CASE usb_discover
  BY <1>10 DEF usb_discover, usb_device_add
<1>11. CASE usb_shutdown
  BY <1>11 DEF usb_shutdown
<1>12. CASE UNCHANGED vars
  BY <1>12 DEF vars
<1> QED
  BY <1>1, <1>2, <1>3, <1>4, <1>5, <1>6, <1>7, <1>8, <1>9, <1>10, <1>11, <1>12
  DEF Next, BusyWait, Down

\* The inductive invariant holds of every reachable state.
THEOREM Invariant == Spec => []Inv
<1>1. Init => Inv
  BY InitInv
<1>2. Inv /\ [Next]_vars => Inv'
  BY NextKeepsInv
<1> QED
  BY <1>1, <1>2, PTL DEF Spec

\* Types; in particular rx_xfers never holds more than NUM_RX_LOOPS reads.
THEOREM TypeCorrect == Spec => []TypeOK
BY Invariant, PTL DEF Inv

\* dev->usbdev is valid for as long as there is a mux_device, and transfers are
\* only ever in flight for a device that is up.
THEOREM MuxOverUsb == Spec => []MuxHasItsUsb
BY Invariant, PTL DEF Inv

\* A mux_device whose device has left, even if another one has come to its
\* address, still has a LEFT event to come.
LeftIsDue == mux = 1 /\ ~Present => \E i \in 1..Len(hot) : hot[i] = "LEFT"

\* Every step keeps that so.
LEMMA NextKeepsLeft ==
  ASSUME Inv, LeftIsDue, [Next]_vars
  PROVE  LeftIsDue'
<1> USE DEF Inv, TypeOK, MuxHasItsUsb, LeftIsDue, Present, bus, xfers, ctl, Onward, Reap
<1>1. CASE Plug
  <2>1. /\ plugged = 0 /\ mux' = mux /\ hot \in Seq({"ARRIVED", "LEFT"})
        /\ hot' = Append(hot, "ARRIVED")
    BY <1>1 DEF Plug
  <2>2. ASSUME NEW i \in 1..Len(hot), hot[i] = "LEFT"
        PROVE  i \in 1..Len(hot') /\ hot'[i] = "LEFT"
    BY <2>1, <2>2
  <2>3. mux = 1 => \E i \in 1..Len(hot) : hot[i] = "LEFT"
    BY <2>1
  <2> QED BY <2>1, <2>2, <2>3, Zenon
<1>2. CASE Unplug
  <2>1. Len(hot) + 1 \in 1..Len(hot') /\ hot'[Len(hot) + 1] = "LEFT"
    BY <1>2 DEF Unplug
  <2> QED BY <2>1, Zenon
<1>3. CASE HotplugArrived
  <2>1. hot # <<>> /\ Head(hot) = "ARRIVED" /\ hot' = Tail(hot) /\ mux' = mux
    BY <1>3 DEF HotplugArrived
  <2>2. SUFFICES ASSUME mux = 1, ~Present'
        PROVE  \E i \in 1..Len(hot') : hot'[i] = "LEFT"
    BY <2>1
  <2>3. ~Present
    BY <1>3, <2>2 DEF HotplugArrived, usb_device_add
  <2>4. PICK i \in 1..Len(hot) : hot[i] = "LEFT"
    BY <2>2, <2>3
  <2>5. i # 1
    <3>1. hot[1] = "ARRIVED"
      BY <2>1
    <3> QED BY <2>4, <3>1, Zenon
  <2>6. i - 1 \in 1..Len(hot') /\ hot'[i - 1] = "LEFT"
    BY <2>1, <2>4, <2>5
  <2> QED BY <2>6, Zenon
<1>4. CASE HotplugLeft
  BY <1>4 DEF HotplugLeft
<1>5. CASE get_mode_cb \/ switch_mode_cb \/ get_langid_callback \/ SerialFails
           \/ DeviceAddFails \/ NoReadLoop \/ ResubmitFails \/ RxError \/ tx_callback
  BY <1>5, Zenon
  DEF get_mode_cb, switch_mode_cb, get_langid_callback, SerialFails, DeviceAddFails,
      NoReadLoop, ResubmitFails, RxError, tx_callback
<1>6. CASE \E k \in 1..NumRxLoops : ReadLoopsStart(k)
  BY <1>6, Zenon DEF ReadLoopsStart
<1>7. CASE usb_send \/ usb_process \/ reap_dead_devices \/ Reaped \/ usb_disconnect
           \/ DisconnectBreaks \/ usb_shutdown
  BY <1>7 DEF usb_send, usb_process, reap_dead_devices, Reaped, usb_disconnect,
              DisconnectBreaks, usb_shutdown
<1>8. CASE usb_discover
  BY <1>8 DEF usb_discover, usb_device_add
<1>9. CASE UNCHANGED vars
  BY <1>9 DEF vars
<1> QED
  BY <1>1, <1>2, <1>3, <1>4, <1>5, <1>6, <1>7, <1>8, <1>9
  DEF Next, Callback, BusyWait, Down

\* No device can leave unnoticed: for as long as clients see one that is not on
\* the bus any more, usb_hotplug_cb has yet to be called to remove it, however
\* often the address was used since and whatever usb_discover has found there.
THEOREM DepartureIsDue == Spec => []LeftIsDue
<1>1. Init => LeftIsDue
  BY DEF Init, LeftIsDue
<1>2. Inv /\ LeftIsDue /\ [Next]_vars => LeftIsDue'
  BY NextKeepsLeft
<1> QED
  BY <1>1, <1>2, Invariant, PTL DEF Spec

(***************************************************************************)
(* One device only: the dead are reaped.                                   *)
(***************************************************************************)
\* Without a read the device is marked dead, usb_process is about to look at it,
\* and no hotplug event that would find it again comes before one that removes it.
Doomed ==
  mux = 1 /\ rx + rxLost = 0 =>
    pc = "events" /\ alive = 0 /\ (hot = <<>> \/ Head(hot) = "LEFT")

OneInv == Inv /\ LeftIsDue /\ Doomed /\ pc # "after"

\* Appending an event leaves the head of a queue that has one.
LEMMA HeadOfAppend ==
  ASSUME NEW S, NEW s \in Seq(S), NEW e \in S
  PROVE  /\ s = <<>> => Head(Append(s, e)) = e
         /\ s # <<>> => Head(Append(s, e)) = Head(s)
BY SMTT(30)

\* Every step keeps OneInv when no other device is being disconnected.
LEMMA NextKeepsOneInv ==
  ASSUME "others" \notin faults, OneInv, [Next]_vars
  PROVE  OneInv'
<1>1. Inv' /\ LeftIsDue'
  BY NextKeepsInv, NextKeepsLeft DEF OneInv
<1> USE <1>1 DEF OneInv, Inv, TypeOK, MuxHasItsUsb, RemovedFirst, LeftIsDue, Doomed,
        Pending, Waiting, Completing, Plugging, Present, bus, xfers, ctl, Onward, Reap
<1>2. CASE Plug
  <2>1. hot' = Append(hot, "ARRIVED") /\ plugged' = 1
    BY <1>2 DEF Plug
  <2>2. Doomed'
    <3> SUFFICES ASSUME mux = 1, rx + rxLost = 0
        PROVE  pc = "events" /\ alive = 0 /\ (hot' = <<>> \/ Head(hot') = "LEFT")
      BY <1>2 DEF Plug
    <3>1. hot # <<>> /\ Head(hot) = "LEFT"
      BY <1>2 DEF Plug
    <3> QED BY <2>1, <3>1
  <2> QED BY <1>2, <2>1, <2>2 DEF Plug
<1>3. CASE Unplug
  <2>1. hot' = Append(hot, "LEFT")
    BY <1>3 DEF Unplug
  <2>2. hot = <<>> \/ Head(hot) = "LEFT" => Head(hot') = "LEFT"
    <3>1. hot \in Seq({"ARRIVED", "LEFT"})
      OBVIOUS
    <3>2. /\ hot = <<>> => Head(Append(hot, "LEFT")) = "LEFT"
          /\ hot # <<>> => Head(Append(hot, "LEFT")) = Head(hot)
      BY ONLY <3>1, HeadOfAppend
    <3> QED BY ONLY <2>1, <3>2
  <2> QED BY <1>3, <2>2 DEF Unplug
<1>4. CASE HotplugArrived
  BY <1>4 DEF HotplugArrived
<1>5. CASE HotplugLeft
  BY <1>5, SMTT(30) DEF HotplugLeft
<1>6. CASE get_mode_cb \/ switch_mode_cb \/ get_langid_callback \/ SerialFails
           \/ DeviceAddFails
  BY <1>6, Zenon DEF get_mode_cb, switch_mode_cb, get_langid_callback, SerialFails,
              DeviceAddFails, device_complete_initialization
<1>7. CASE NoReadLoop
  BY <1>7 DEF NoReadLoop
<1>8. CASE \E k \in 1..NumRxLoops : ReadLoopsStart(k)
  BY <1>8 DEF ReadLoopsStart
<1>9. CASE ResubmitFails
  BY <1>9 DEF ResubmitFails
<1>10. CASE RxError
  BY <1>10 DEF RxError
<1>11. CASE tx_callback
  BY <1>11 DEF tx_callback
<1>12. CASE usb_send
  BY <1>12 DEF usb_send
<1>13. CASE usb_process
  BY <1>13 DEF usb_process
<1>14. CASE reap_dead_devices
  BY <1>14 DEF reap_dead_devices, Dead
<1>15. CASE Reaped
  BY <1>15 DEF Reaped
<1>16. CASE usb_disconnect
  BY <1>16 DEF usb_disconnect
<1>17. CASE DisconnectBreaks
  BY <1>17 DEF DisconnectBreaks
<1>18. CASE usb_discover
  BY <1>18 DEF usb_discover, usb_device_add
<1>19. CASE usb_shutdown
  BY <1>19 DEF usb_shutdown
<1>20. CASE UNCHANGED vars
  BY <1>20 DEF vars
<1> QED
  BY <1>2, <1>3, <1>4, <1>5, <1>6, <1>7, <1>8, <1>9, <1>10, <1>11, <1>12, <1>13,
     <1>14, <1>15, <1>16, <1>17, <1>18, <1>19, <1>20, Zenon
  DEF Next, Callback, BusyWait, Down

\* The faults of a behaviour stay the same.
LEMMA FaultsStay == [Next]_vars => faults' = faults
<1> SUFFICES ASSUME [Next]_vars PROVE faults' = faults
  BY SMTT(30)
<1>1. CASE Callback
  BY <1>1, SMTT(30)
  DEF Callback, HotplugArrived, HotplugLeft, get_mode_cb, switch_mode_cb,
      get_langid_callback, SerialFails, DeviceAddFails, NoReadLoop, ReadLoopsStart,
      ResubmitFails, RxError, tx_callback, ctl, bus
<1>2. CASE Next /\ ~Callback
  BY <1>2
  DEF Next, Plug, Unplug, usb_send, usb_process, reap_dead_devices, Reaped,
      usb_disconnect, BusyWait, DisconnectBreaks, usb_discover, usb_shutdown, Down,
      bus, vars
<1>3. CASE UNCHANGED vars
  BY <1>3 DEF vars, bus
<1> QED BY <1>1, <1>2, <1>3

\* OneInv for the behaviours in which no other device is disconnected.
AloneInv == "others" \notin faults => OneInv

\* While no other device is being disconnected, a device that has lost its last
\* read is reaped, whatever hotplug events and usb_discover do in between.
THEOREM LastReadReaps == Spec => []ReadingOrReaped
<1>1. Init => AloneInv
  <2> SUFFICES ASSUME Init PROVE OneInv
    BY DEF AloneInv
  <2>1. Inv
    BY InitInv
  <2>2. mux = 0 /\ pc = "main"
    BY DEF Init
  <2> QED BY <2>1, <2>2 DEF OneInv, LeftIsDue, Doomed
<1>2. AloneInv /\ [Next]_vars => AloneInv'
  <2> SUFFICES ASSUME AloneInv, [Next]_vars, "others" \notin faults' PROVE OneInv'
    BY DEF AloneInv
  <2>1. "others" \notin faults /\ OneInv
    BY FaultsStay DEF AloneInv
  <2> QED BY <2>1, NextKeepsOneInv
<1>3. AloneInv => ReadingOrReaped
  BY DEF AloneInv, OneInv, Inv, TypeOK, Doomed, ReadingOrReaped
<1> QED
  BY <1>1, <1>2, <1>3, PTL DEF Spec

(***************************************************************************)
(* MuxInput: packets from transfers.                                       *)
(***************************************************************************)
\* While a packet that fits is received in step, pktbuf holds what has come of
\* it, behind its own header.
Gathering ==
  synced = 1 /\ cur <= DevMru /\ left > 0 =>
    pktlen = cur - left /\ (pktlen # 0 => hdr = cur)

InputInv == InputTypeOK /\ WholePacket /\ InStep /\ Gathering

\* Initially nothing has been sent, and no packet has begun.
LEMMA InputInitInv == InputInit => InputInv
BY MruAssumption
DEF InputInit, InputInv, InputTypeOK, WholePacket, InStep, Gathering

\* A packet begins.
LEMMA BeginKeepsInv == ASSUME InputInv, NEW len \in Lengths, Begin(len) PROVE InputInv'
<1>1. len \in Nat /\ len > 0
  BY MruAssumption
<1> QED
  BY <1>1, MruAssumption
  DEF Begin, InputInv, InputTypeOK, WholePacket, InStep, Gathering

\* What device_data_input does to pktlen: it stays within DEV_MRU, and a short
\* transfer leaves it at zero.
LEMMA InputKeepsBuffer ==
  ASSUME InputTypeOK, NEW n \in 1..UsbMru, NEW h \in Nat, device_data_input(n, h)
  PROVE  /\ pktlen' \in 0..DevMru /\ hdr' \in Nat /\ got' \in Nat /\ gotLen' \in Nat
         /\ n < UsbMru => pktlen' = 0
<1> USE MruAssumption DEF InputTypeOK, Dispatch, TooLarge, Complete
<1>1. CASE Drop(n)
  BY <1>1 DEF Drop
<1>2. CASE Gather(n)
  BY <1>2 DEF Gather
<1>3. CASE AppendMore(n)
  BY <1>3 DEF AppendMore
<1>4. CASE CopyFirst(n, h)
  BY <1>4 DEF CopyFirst
<1>5. CASE Direct(n, h)
  BY <1>5 DEF Direct
<1> QED
  BY <1>1, <1>2, <1>3, <1>4, <1>5 DEF device_data_input

\* One transfer of a packet that fits and is received in step: it is kept if
\* more is to come, and completes the packet otherwise.
LEMMA InputInStep ==
  ASSUME InputInv, left > 0, synced = 1, cur <= DevMru, NEW n \in 1..UsbMru,
         n = TransferSize, NEW h \in Nat, left = cur => h = cur,
         device_data_input(n, h)
  PROVE  IF left > n THEN pktlen' = cur - left + n /\ hdr' = cur /\ got' = got
                     ELSE pktlen' = 0 /\ got' = 1 /\ gotLen' = cur
<1> USE MruAssumption
    DEF InputInv, InputTypeOK, WholePacket, Gathering, TransferSize, Dispatch, TooLarge, Complete
<1>1. CASE Drop(n)
  BY <1>1 DEF Drop
<1>2. CASE Gather(n)
  BY <1>2 DEF Gather
<1>3. CASE AppendMore(n)
  BY <1>3 DEF AppendMore
<1>4. CASE CopyFirst(n, h)
  BY <1>4 DEF CopyFirst
<1>5. CASE Direct(n, h)
  BY <1>5 DEF Direct
<1> QED
  BY <1>1, <1>2, <1>3, <1>4, <1>5 DEF device_data_input

\* A transfer comes in.
LEMMA TransferKeepsInv == ASSUME InputInv, Transfer PROVE InputInv'
<1>1. PICK h \in Headers : device_data_input(TransferSize, h)
  BY DEF Transfer
<1>2. h \in Nat /\ (left = cur => h = cur)
  BY <1>1, MruAssumption DEF Headers, InputInv, InputTypeOK
<1>3. /\ TransferSize \in 1..UsbMru /\ left \in Nat /\ cur \in Nat
      /\ left > 0 /\ left' = left - TransferSize /\ last' = TransferSize
      /\ left' \in 0..cur /\ left' < left /\ left <= cur
      /\ left' > 0 => TransferSize = UsbMru
      /\ cur' = cur /\ synced' = synced /\ synced \in {0, 1}
  BY MruAssumption DEF Transfer, TransferSize, InputInv, InputTypeOK
<1>4. /\ pktlen' \in 0..DevMru /\ hdr' \in Nat /\ got' \in Nat /\ gotLen' \in Nat
      /\ TransferSize < UsbMru => pktlen' = 0
  BY <1>1, <1>2, <1>3, InputKeepsBuffer DEF InputInv
<1>5. ASSUME synced = 1, cur <= DevMru
      PROVE  IF left > TransferSize
             THEN pktlen' = cur - left + TransferSize /\ hdr' = cur /\ got' = got
             ELSE pktlen' = 0 /\ got' = 1 /\ gotLen' = cur
  BY <1>1, <1>2, <1>3, <1>5, InputInStep
<1>6. InputTypeOK'
  BY <1>3, <1>4 DEF InputTypeOK
<1>7. WholePacket'
  BY <1>3, <1>5 DEF WholePacket, InputInv
<1>8. InStep'
  BY <1>3, <1>4, <1>5 DEF InStep
<1>9. Gathering'
  BY <1>3, <1>5 DEF Gathering
<1> QED
  BY <1>6, <1>7, <1>8, <1>9 DEF InputInv

\* The inductive invariant holds of every reachable state.
THEOREM InputInvariant == InputSpec => []InputInv
<1>1. InputInit => InputInv
  BY InputInitInv
<1>2. InputInv /\ [InputNext]_inputVars => InputInv'
  <2> SUFFICES ASSUME InputInv, [InputNext]_inputVars PROVE InputInv'
    OBVIOUS
  <2>1. CASE \E len \in Lengths : Begin(len)
    BY <2>1, BeginKeepsInv
  <2>2. CASE Transfer
    BY <2>2, TransferKeepsInv
  <2>3. CASE UNCHANGED inputVars
    BY <2>3 DEF inputVars, InputInv, InputTypeOK, WholePacket, InStep, Gathering
  <2> QED BY <2>1, <2>2, <2>3 DEF InputNext
<1> QED
  BY <1>1, <1>2, PTL DEF InputSpec

\* device_data_input never writes past the DEV_MRU bytes of pktbuf.
THEOREM InputTypeCorrect == InputSpec => []InputTypeOK
BY InputInvariant, PTL DEF InputInv

\* Packets that fit are handed on once and whole, for any USB_MRU and DEV_MRU.
THEOREM PacketsArriveWhole == InputSpec => []WholePacket
BY InputInvariant, PTL DEF InputInv

\* After anything, the first short transfer that ends a packet restores the
\* framing.
THEOREM FramingRecovers == InputSpec => []InStep
BY InputInvariant, PTL DEF InputInv
=============================================================================
