-------------------------------- MODULE Usb --------------------------------
(***************************************************************************)
(* The life of the usb_device at one bus address: usb.c's initialisation   *)
(* through a chain of control transfers, its read loops and writes, the    *)
(* hotplug events, and its end in usb_disconnect.  libusb is external.  It *)
(* runs callbacks only while the daemon is inside                          *)
(* libusb_handle_events_timeout, hotplug events before transfers, reports  *)
(* a transfer that was cancelled as not completed, fails what is submitted *)
(* to a device that has left, and forgets the transfers of a closed        *)
(* handle.  Other devices show in one way: while usb_disconnect waits for  *)
(* one of theirs, the callbacks of this one run as well.                   *)
(***************************************************************************)
EXTENDS Naturals, Sequences

CONSTANTS
  NumRxLoops,  \* NUM_RX_LOOPS
  MaxTx,       \* bound: writes in flight
  MaxPlugs,    \* bound: how often a device is plugged in at this address
  FaultSets    \* what else may happen, one of these: see AllFaults

\* "resubmit": a read cannot be submitted again; "rx_start": nor any first read;
\* "events": libusb cannot handle events; "same_address": a device comes back at
\* the address before the daemon has let go of the old one; "others": another
\* device, later in the list, is dead as well.
AllFaults == {"resubmit", "rx_start", "events", "same_address", "others"}

ASSUME UsbAssumption ==
  /\ NumRxLoops \in Nat \ {0} /\ MaxTx \in Nat \ {0} /\ MaxPlugs \in Nat
  /\ FaultSets \subseteq SUBSET AllFaults

VARIABLES
  faults,   \* the faults that may happen in this behaviour
  plugged,  \* 1 if a device is there
  gen,      \* how many have been
  hot,      \* hotplug events libusb has yet to deliver
  stage,    \* of the usb_device in device_list: the control transfer it waits
            \* for, "up", "idle" (waits for nothing), or "NONE": no usb_device
  of,       \* the device, counted as in gen, its handle was opened for
  alive,    \* usbdev->alive
  mux,      \* 1 if device.c has a mux_device for it
  rx,       \* reads in rx_xfers that are submitted
  rxLost,   \* reads in rx_xfers that are not
  tx,       \* writes in tx_xfers
  pc        \* "main", "events" (in usb_process, until this device is looked at),
            \* "wait" (in usb_disconnect for it), "after" (for a later one),
            \* "nested" (for it, in a callback), "stop" (in usb_shutdown), "down"

bus == <<faults, plugged, gen>>
xfers == <<rx, rxLost, tx>>
vars == <<bus, hot, stage, of, alive, mux, xfers, pc>>

Control == {"mode", "switch", "langid", "serial"}
Stages == Control \cup {"NONE", "up", "idle"}

Init ==
  /\ faults \in FaultSets
  /\ plugged = 0 /\ gen = 0 /\ hot = <<>>
  /\ stage = "NONE" /\ of = 0 /\ alive = 0 /\ mux = 0
  /\ rx = 0 /\ rxLost = 0 /\ tx = 0
  /\ pc = "main"

\* What the loop of usb_disconnect waits for, and when it runs.
Pending == rx + rxLost + tx
Waiting == pc \in {"wait", "stop"} /\ Pending > 0

\* libusb_handle_events_timeout delivers hotplug events, transfers.
Plugging == pc \in {"events", "after"} \/ (Waiting /\ pc = "wait")
Completing ==
  \/ pc \in {"events", "after"} /\ hot = <<>>
  \/ Waiting /\ (hot = <<>> \/ pc = "stop")

\* The handle is one of the device that is there.
Present == plugged = 1 /\ of = gen

(***************************************************************************)
(* The bus.                                                                *)
(***************************************************************************)
Plug ==
  /\ plugged = 0 /\ gen < MaxPlugs
  /\ "same_address" \in faults \/ (stage = "NONE" /\ hot = <<>>)
  /\ plugged' = 1 /\ gen' = gen + 1
  /\ hot' = Append(hot, "ARRIVED")
  /\ UNCHANGED <<faults, stage, of, alive, mux, xfers, pc>>

Unplug ==
  /\ plugged = 1
  /\ plugged' = 0
  /\ hot' = Append(hot, "LEFT")
  /\ UNCHANGED <<faults, gen, stage, of, alive, mux, xfers, pc>>

(***************************************************************************)
(* Finding the device.                                                     *)
(***************************************************************************)
\* usb_device_add: known; not opened; opened, and asked for its mode; opened,
\* and not to be asked.
usb_device_add ==
  \/ /\ stage # "NONE"
     /\ alive' = 1
     /\ UNCHANGED <<stage, of>>
  \/ /\ stage = "NONE"
     /\ UNCHANGED <<stage, of, alive>>
  \/ /\ stage = "NONE" /\ plugged = 1
     /\ of' = gen
     /\ \/ stage' = "mode" /\ alive' = 1
        \/ stage' = "idle" /\ alive' = 0

HotplugArrived ==
  /\ Plugging
  /\ hot # <<>> /\ Head(hot) = "ARRIVED"
  /\ hot' = Tail(hot)
  /\ usb_device_add
  /\ UNCHANGED <<bus, mux, xfers, pc>>

LeftOnlyMarks ==
  /\ Plugging
  /\ hot # <<>> /\ Head(hot) = "LEFT"
  /\ hot' = Tail(hot)
  /\ IF stage = "NONE" THEN UNCHANGED alive ELSE alive' = 0
  /\ UNCHANGED <<bus, stage, of, mux, xfers, pc>>


\* usb_hotplug_cb marks the device dead and has device_remove called.
HotplugLeft ==
  /\ Plugging
  /\ hot # <<>> /\ Head(hot) = "LEFT"
  /\ hot' = Tail(hot)
  /\ IF stage = "NONE" THEN UNCHANGED <<alive, mux>> ELSE alive' = 0 /\ mux' = 0
  /\ UNCHANGED <<bus, stage, of, xfers, pc>>

(***************************************************************************)
(* Initialisation.  A control transfer may fail at any time.               *)
(***************************************************************************)
ctl == <<bus, hot, of, mux, xfers, pc>>

\* device_complete_initialization: no configuration, interface or transfer, or
\* the language id is asked for.
device_complete_initialization ==
  \/ stage' = "idle" /\ alive' = 0
  \/ Present /\ stage' = "langid" /\ alive' = 1

\* get_mode_cb: completed in the current mode, or asked to switch it.
get_mode_cb ==
  /\ Completing /\ stage = "mode"
  /\ \/ device_complete_initialization
     \/ Present /\ stage' = "switch" /\ UNCHANGED alive
     \/ stage' = "idle" /\ alive' = 0
  /\ UNCHANGED ctl

\* switch_mode_cb: refused, or about to leave the bus and come back.
switch_mode_cb ==
  /\ Completing /\ stage = "switch"
  /\ \/ device_complete_initialization
     \/ stage' = "idle" /\ UNCHANGED alive
  /\ UNCHANGED ctl

\* get_langid_callback; when it fails, the device stays as it is.
get_langid_callback ==
  /\ Completing /\ stage = "langid"
  /\ stage' \in {"idle"} \cup (IF Present THEN {"serial"} ELSE {})
  /\ UNCHANGED <<alive, ctl>>

\* get_serial_callback fails ...
SerialFails ==
  /\ Completing /\ stage = "serial"
  /\ stage' = "idle"
  /\ UNCHANGED <<alive, ctl>>

\* ... or the version packet cannot be submitted, and usb_disconnect has
\* no transfer to wait for ...
DeviceAddFails ==
  /\ Completing /\ stage = "serial"
  /\ stage' = "NONE"
  /\ UNCHANGED <<alive, ctl>>

\* ... or the device is added, the version packet is out, and k reads start ...
ReadLoopsStart(k) ==
  /\ Completing /\ stage = "serial" /\ Present
  /\ stage' = "up"
  /\ mux' = 1 /\ rx' = k /\ tx' = tx + 1
  /\ UNCHANGED <<bus, hot, of, alive, rxLost, pc>>

\* ... or none does: device_remove, and usb_disconnect inside of the callback.
NoReadLoop ==
  /\ "rx_start" \in faults
  /\ pc \in {"events", "after"} /\ hot = <<>> /\ stage = "serial" /\ Present
  /\ stage' = "up"
  /\ mux' = 0 /\ tx' = tx + 1
  /\ pc' = "nested"
  /\ UNCHANGED <<bus, hot, of, alive, rx, rxLost>>

(***************************************************************************)
(* Transfers.                                                              *)
(***************************************************************************)
\* usb_send, from the clients or from device_data_input: the write, and the zero
\* length packet after it if its length asks for one and it can be submitted.
usb_send ==
  /\ mux = 1 /\ Present
  /\ \E n \in {1, 2} : tx + n <= MaxTx /\ tx' = tx + n
  /\ UNCHANGED <<bus, hot, stage, of, alive, mux, rx, rxLost, pc>>

\* rx_callback, completed; the result of submitting the read again is not
\* looked at, and the read stays in rx_xfers.
ResubmitFails ==
  /\ "resubmit" \in faults
  /\ pc \in {"events", "after"} /\ hot = <<>> /\ rx > 0
  /\ rx' = rx - 1 /\ rxLost' = rxLost + 1
  /\ UNCHANGED <<bus, hot, stage, of, alive, mux, tx, pc>>

RxErrorIgnored ==
  /\ Completing /\ rx > 0
  /\ rx' = rx - 1
  /\ UNCHANGED <<bus, hot, stage, of, alive, mux, rxLost, tx, pc>>

\* rx_callback, not completed.
RxError ==
  /\ Completing /\ rx > 0
  /\ rx' = rx - 1
  /\ alive' = 0
  /\ UNCHANGED <<bus, hot, stage, of, mux, rxLost, tx, pc>>

WriteStays ==
  /\ Completing /\ tx > 0
  /\ alive' \in {0, alive}
  /\ UNCHANGED <<bus, hot, stage, of, mux, xfers, pc>>

\* tx_callback.
tx_callback ==
  /\ Completing /\ tx > 0
  /\ tx' = tx - 1
  /\ alive' \in {0, alive}
  /\ UNCHANGED <<bus, hot, stage, of, mux, rx, rxLost, pc>>

(***************************************************************************)
(* The end.                                                                *)
(***************************************************************************)
usb_process ==
  /\ pc = "main"
  /\ pc' = "events"
  /\ UNCHANGED <<bus, hot, stage, of, alive, mux, xfers>>

\* reap_dead_devices goes on to the devices after this one, or is done.
Onward ==
  \/ pc' = "main"
  \/ "others" \in faults /\ pc' = "after"

\* It has device_remove called and usb_disconnect started on a dead device.
Reap == mux' = 0 /\ pc' = "wait"

\* alive is looked at for every device in the list.
Dead == stage # "NONE" /\ alive = 0

reap_dead_devices ==
  /\ pc = "events"
  /\ IF Dead THEN Reap ELSE Onward /\ UNCHANGED mux
  /\ UNCHANGED <<bus, hot, stage, of, alive, xfers>>

Reaped ==
  /\ pc = "after"
  /\ pc' = "main"
  /\ UNCHANGED <<bus, hot, stage, of, alive, mux, xfers>>

\* usb_disconnect has no transfer left to wait for and frees the device.  It
\* neither cancels nor waits for a control transfer of the initialisation, which
\* is in no collection: libusb_close drops it, and its callback never runs.
usb_disconnect ==
  /\ pc \in {"wait", "stop"}
  /\ Pending = 0
  /\ stage' = "NONE"
  /\ IF pc = "stop" THEN pc' = "down" ELSE Onward
  /\ UNCHANGED <<bus, hot, of, alive, mux, xfers>>

\* Its wait goes on, whatever there is to wait for.
BusyWait == Waiting /\ UNCHANGED vars

\* libusb cannot handle events, which is always so in a callback: it frees the
\* device all the same.
DisconnectBreaks ==
  /\ \/ Waiting /\ "events" \in faults
     \/ pc = "nested"
  /\ stage' = "NONE"
  /\ rx' = 0 /\ rxLost' = 0 /\ tx' = 0
  /\ \/ pc = "nested" /\ pc' = "events"
     \/ pc = "nested" /\ "others" \in faults /\ pc' = "after"
     \/ pc = "stop" /\ pc' = "down"
     \/ pc = "wait" /\ Onward
  /\ UNCHANGED <<bus, hot, of, alive, mux>>

DiscoverForgetsMux ==
  /\ pc = "main"
  /\ IF plugged = 1 THEN usb_device_add ELSE alive' = 0 /\ UNCHANGED <<stage, of>>
  /\ IF stage' # "NONE" /\ alive' = 0 THEN pc' = "wait" ELSE Onward
  /\ UNCHANGED <<bus, hot, mux, xfers>>

\* usb_discover, when due or on SIGUSR2: every device is marked dead, those on
\* the bus are found again, and what is left is reaped.
usb_discover ==
  /\ pc = "main"
  /\ IF plugged = 1 THEN usb_device_add ELSE alive' = 0 /\ UNCHANGED <<stage, of>>
  /\ IF stage' # "NONE" /\ alive' = 0 THEN Reap ELSE Onward /\ UNCHANGED mux
  /\ UNCHANGED <<bus, hot, xfers>>

\* usb_shutdown, on a signal or because usb_process failed.
usb_shutdown ==
  /\ pc = "main" \/ (pc = "events" /\ "events" \in faults)
  /\ mux' = 0
  /\ pc' = IF stage = "NONE" THEN "down" ELSE "stop"
  /\ UNCHANGED <<bus, hot, stage, of, alive, xfers>>

Down == pc = "down" /\ UNCHANGED vars

Callback ==
  \/ HotplugArrived \/ HotplugLeft
  \/ get_mode_cb \/ switch_mode_cb \/ get_langid_callback \/ SerialFails
  \/ DeviceAddFails \/ NoReadLoop
  \/ \E k \in 1..NumRxLoops : ReadLoopsStart(k)
  \/ ResubmitFails \/ RxError \/ tx_callback

Next ==
  \/ Plug \/ Unplug \/ Callback
  \/ usb_send
  \/ usb_process \/ reap_dead_devices \/ Reaped \/ usb_disconnect \/ BusyWait
  \/ DisconnectBreaks
  \/ usb_discover \/ usb_shutdown \/ Down

Spec == Init /\ [][Next]_vars

(***************************************************************************)
(* Fairness: the main loop goes on, and libusb delivers its events and the *)
(* ends of the transfers that were cancelled.                              *)
(***************************************************************************)
FairSpec ==
  /\ Spec
  /\ WF_vars(usb_process) /\ WF_vars(reap_dead_devices) /\ WF_vars(Reaped)
  /\ WF_vars(usb_disconnect)
  /\ SF_vars(HotplugArrived) /\ SF_vars(HotplugLeft)
  /\ WF_vars(Waiting /\ RxError) /\ WF_vars(Waiting /\ tx_callback)
  /\ WF_vars(pc = "nested" /\ DisconnectBreaks)

(***************************************************************************)
(* Properties.                                                             *)
(***************************************************************************)
\* Type invariant.
TypeOK ==
  /\ faults \in FaultSets
  /\ plugged \in {0, 1} /\ gen \in 0..MaxPlugs /\ hot \in Seq({"ARRIVED", "LEFT"})
  /\ stage \in Stages /\ of \in 0..MaxPlugs
  /\ alive \in {0, 1} /\ mux \in {0, 1}
  /\ rx \in 0..NumRxLoops /\ rxLost \in 0..NumRxLoops /\ rx + rxLost <= NumRxLoops
  /\ tx \in 0..MaxTx
  /\ pc \in {"main", "events", "wait", "after", "nested", "stop", "down"}

\* A mux_device never outlives its usb_device (dev->usbdev is valid), and
\* transfers are in flight only for one that is up: on each of the paths that
\* end a device, device_remove comes before usb_disconnect.
MuxHasItsUsb ==
  /\ mux = 1 => stage = "up"
  /\ Pending > 0 => stage = "up"

\* A device marked dead in whichever callback is reaped, not brought back to
\* life: one that clients can connect to has a read in rx_xfers, or it is still
\* marked for the next reap_dead_devices.  It does not hold while usb_disconnect
\* waits for another device: a mark set then is still there when usb_discover
\* sets alive again.
ReadingOrReaped ==
  "others" \notin faults => (pc = "main" /\ mux = 1 => rx + rxLost > 0 \/ alive = 0)


\* A mux_device whose device has left the bus is removed, so that its clients are
\* told, also when another device has come to the address in the meantime: the
\* mark usb_hotplug_cb sets on LEFT is undone when usb_device_add or usb_discover
\* find the usb_device at that address, its call of device_remove is not.
DepartedIsDetached == (mux = 1 /\ ~Present) ~> (mux = 0)

\* If reads always can be submitted again, usb_disconnect's wait until all
\* transfers are closed comes to an end.  A read that could not be submitted
\* again stays in rx_xfers for ever.
DisconnectEnds == ("resubmit" \notin faults /\ Waiting) ~> ~Waiting

=============================================================================
