------------------------------ MODULE Announce ------------------------------
(***************************************************************************)
(* How listening clients learn of devices.  Two kinds of threads meet: the *)
(* main loop (main.c), and one preflight worker for each device            *)
(* (preflight.c), under device_list_mutex, here D, and client_list_mutex,  *)
(* here C.  A critical section that takes no second mutex is one step; one *)
(* that does is two, so that the order in which mutexes are taken shows.   *)
(* A device id is never given to another device (MuxConn, IdsNeverReused). *)
(***************************************************************************)
EXTENDS Naturals

CONSTANTS
  Devices,    \* ids of the devices plugged in during the run
  Listeners   \* clients that may issue Listen

ASSUME AnnounceAssumption == {"free", "main"} \cap Devices = {}

VARIABLES
  dev,      \* d -> "NONE", "ACTIVE", "DEAD" (being removed) or "GONE"
  visible,  \* d -> dev->visible
  cb,       \* d -> 1 if dev->preflight_cb_data points to the worker's cbdata
  cbdata,   \* d -> the worker's cbdata, "none" or is_device_connected
  wpc,      \* d -> where the worker of d is
  cstate,   \* c -> client->state
  told,     \* <<c, d>>: the last c was told of d is that it is attached
  raced,    \* clients whose ob_buf two threads used at the same time
  mpc,      \* where the main thread is
  target,   \* the device or client it is busy with, or "none"
  exit,     \* "no", "pending": SIGTERM is on its way, "leaving": main_loop has ended
  D, C      \* the mutexes: "free", "main" or the device whose worker has it

world == <<dev, visible, cb, cbdata, wpc, cstate, told, raced>>
vars == <<world, mpc, target, exit, D, C>>

Init ==
  /\ dev = [d \in Devices |-> "NONE"]
  /\ visible = [d \in Devices |-> 0]
  /\ cb = [d \in Devices |-> 0]
  /\ cbdata = [d \in Devices |-> "none"]
  /\ wpc = [d \in Devices |-> "none"]
  /\ cstate = [c \in Listeners |-> "COMMAND"]
  /\ told = {} /\ raced = {}
  /\ mpc = "top" /\ target = "none" /\ exit = "no"
  /\ D = "free" /\ C = "free"

InList(d) == dev[d] \in {"ACTIVE", "DEAD"}
Listening == {c \in Listeners : cstate[c] = "LISTEN"}

\* A worker is inside the loop of client_device_add that fills the buffers.
Filling == \E d \in Devices : wpc[d] = "notify"

\* Attached messages P go into the output buffers.  A buffer two threads
\* have used at the same time may lose them.
Tell(P) == \E lost \in SUBSET {p \in P : p[1] \in raced} : told' = told \cup (P \ lost)

\* The same for the Detached messages of device d to all who listen.
TellRemoved(d) ==
  LET P == {p \in told : p[2] = d /\ p[1] \in Listening}
  IN  \E lost \in SUBSET {p \in P : p[1] \in raced} : told' = (told \ P) \cup lost

\* Where the main thread goes on: in main_loop, or in usb_shutdown.
Back == IF exit = "leaving" THEN "down" ELSE "top"

(***************************************************************************)
(* The preflight worker of device d.                                       *)
(***************************************************************************)
worker == <<mpc, target, exit, cstate, raced, dev>>

\* Preflight fails, or succeeds and goes on to client_device_add.
PreflightEnds(d) ==
  /\ wpc[d] = "preflight"
  /\ \E pc \in {"done", "add"} : wpc' = [wpc EXCEPT ![d] = pc]
  /\ UNCHANGED <<worker, visible, cb, cbdata, told, D, C>>

\* The device has yet to trust this host: the worker leaves a pointer to its
\* stack with the device, if that is still in the list.
device_set_preflight_cb_data(d) ==
  /\ wpc[d] = "preflight"
  /\ D = "free"
  /\ cbdata' = [cbdata EXCEPT ![d] = "connected"]
  /\ cb' = [cb EXCEPT ![d] = IF InList(d) THEN 1 ELSE @]
  /\ wpc' = [wpc EXCEPT ![d] = "add"]
  /\ UNCHANGED <<worker, visible, told, D, C>>

\* client_device_add takes client_list_mutex ...
client_device_add(d) ==
  /\ wpc[d] = "add"
  /\ C = "free"
  /\ C' = d
  /\ wpc' = [wpc EXCEPT ![d] = "visible"]
  /\ UNCHANGED <<worker, visible, cb, cbdata, told, D>>

\* ... then device_list_mutex, for as long as it sets the flag ...
device_set_visible(d) ==
  /\ wpc[d] = "visible"
  /\ D = "free"
  /\ visible' = [visible EXCEPT ![d] = IF InList(d) THEN 1 ELSE @]
  /\ wpc' = [wpc EXCEPT ![d] = "notify"]
  /\ UNCHANGED <<worker, cb, cbdata, told, D, C>>

\* ... and tells the listeners.  A worker with cbdata stays to wait.
send_device_add(d) ==
  /\ wpc[d] = "notify"
  /\ Tell({<<c, d>> : c \in Listening})
  /\ C' = "free"
  /\ wpc' = [wpc EXCEPT ![d] = IF cbdata[d] = "none" THEN "done" ELSE "wait"]
  /\ UNCHANGED <<worker, visible, cb, cbdata, D>>

\* The worker stops waiting: its device was removed, or the user has answered,
\* or the notification proxy has gone.
WaitEnds(d) ==
  /\ wpc[d] = "wait"
  /\ wpc' = [wpc EXCEPT ![d] = "clear"]
  /\ UNCHANGED <<worker, visible, cb, cbdata, told, D, C>>

WorkerReturnsUncleared(d) ==
  /\ wpc[d] = "clear"
  /\ D = "free"
  /\ cbdata' = [cbdata EXCEPT ![d] = "none"]
  /\ wpc' = [wpc EXCEPT ![d] = "done"]
  /\ UNCHANGED <<worker, visible, cb, told, D, C>>

\* It takes the pointer back, and returns.
WorkerReturns(d) ==
  /\ wpc[d] = "clear"
  /\ D = "free"
  /\ cb' = [cb EXCEPT ![d] = IF InList(d) THEN 0 ELSE @]
  /\ cbdata' = [cbdata EXCEPT ![d] = "none"]
  /\ wpc' = [wpc EXCEPT ![d] = "done"]
  /\ UNCHANGED <<worker, visible, told, D, C>>

WorkerNext(d) ==
  \/ PreflightEnds(d) \/ device_set_preflight_cb_data(d) \/ client_device_add(d)
  \/ device_set_visible(d) \/ send_device_add(d) \/ WaitEnds(d) \/ WorkerReturns(d)

(***************************************************************************)
(* The main thread.                                                        *)
(***************************************************************************)
\* main_loop up to ppoll(): device_get_timeout takes D, client_get_fds takes C.
main_loop ==
  /\ mpc = "top"
  /\ D = "free" /\ C = "free"
  /\ mpc' = "poll"
  /\ UNCHANGED <<world, target, exit, D, C>>

\* A device has answered the version packet: it gets a worker, or, for a T2, with
\* --no-preflight or when no thread can be made, is announced from here.
device_version_input(d) ==
  /\ mpc \in {"poll", "wait"}
  /\ dev[d] = "NONE"
  /\ dev' = [dev EXCEPT ![d] = "ACTIVE"]
  /\ \/ /\ wpc' = [wpc EXCEPT ![d] = "preflight"]
        /\ mpc' = (IF mpc = "wait" THEN "wait" ELSE "top") /\ UNCHANGED target
     \/ mpc' = "add" /\ target' = d /\ UNCHANGED wpc
  /\ UNCHANGED <<visible, cb, cbdata, cstate, told, raced, exit, D, C>>

\* client_device_add on the main thread, without giving up C until it is done.
AddInline(d) ==
  /\ mpc = "add" /\ target = d
  /\ C = "free" /\ D = "free"
  /\ visible' = [visible EXCEPT ![d] = 1]
  /\ Tell({<<c, d>> : c \in Listening})
  /\ mpc' = Back /\ target' = "none"
  /\ UNCHANGED <<dev, cb, cbdata, wpc, cstate, raced, exit, D, C>>

\* start_listen: the state first ...
start_listen(c) ==
  /\ mpc = "poll"
  /\ cstate[c] = "COMMAND"
  /\ cstate' = [cstate EXCEPT ![c] = "LISTEN"]
  /\ mpc' = "listen" /\ target' = c
  /\ UNCHANGED <<dev, visible, cb, cbdata, wpc, told, raced, exit, D, C>>

\* ... then the list of devices, copied under D and read after that ...
device_get_list ==
  /\ mpc = "listen"
  /\ D = "free"
  /\ mpc' = "list"
  /\ UNCHANGED <<world, target, exit, D, C>>

ListsOnlyPreflighted(c) ==
  /\ mpc = "list" /\ target = c
  /\ raced' = raced \cup (IF Filling THEN {c} ELSE {})
  /\ Tell({<<c, d>> : d \in {x \in Devices : dev[x] = "ACTIVE" /\ visible[x] = 1
                                             /\ wpc[x] = "done"}})
  /\ mpc' = "top" /\ target' = "none"
  /\ UNCHANGED <<dev, visible, cb, cbdata, wpc, cstate, exit, D, C>>

\* ... and a message for each visible one, without taking C.
ListDevices(c) ==
  /\ mpc = "list" /\ target = c
  /\ raced' = raced \cup (IF Filling THEN {c} ELSE {})
  /\ Tell({<<c, d>> : d \in {x \in Devices : dev[x] = "ACTIVE" /\ visible[x] = 1}})
  /\ mpc' = "top" /\ target' = "none"
  /\ UNCHANGED <<dev, visible, cb, cbdata, wpc, cstate, exit, D, C>>

\* output_buffer_process of a listener, without taking C either.
output_buffer_process(c) ==
  /\ mpc = "poll"
  /\ cstate[c] = "LISTEN"
  /\ raced' = raced \cup (IF Filling THEN {c} ELSE {})
  /\ mpc' = "top"
  /\ UNCHANGED <<dev, visible, cb, cbdata, wpc, cstate, told, target, exit, D, C>>

\* client_close under C; the place is free for the next client.
client_close(c) ==
  /\ mpc = "poll"
  /\ cstate[c] = "LISTEN"
  /\ C = "free"
  /\ cstate' = [cstate EXCEPT ![c] = "COMMAND"]
  /\ told' = {p \in told : p[1] # c}
  /\ raced' = raced \ {c}
  /\ mpc' = "top"
  /\ UNCHANGED <<dev, visible, cb, cbdata, wpc, target, exit, D, C>>

\* device_remove takes D, which it keeps ...
device_remove(d) ==
  /\ mpc \in {"poll", "down"}
  /\ dev[d] = "ACTIVE"
  /\ D = "free"
  /\ D' = "main"
  /\ dev' = [dev EXCEPT ![d] = "DEAD"]
  /\ mpc' = "remove" /\ target' = d
  /\ UNCHANGED <<visible, cb, cbdata, wpc, cstate, told, raced, exit, C>>

RemovedKeepsLock(d) ==
  /\ mpc = "remove" /\ target = d
  /\ C = "free"
  /\ TellRemoved(d)
  /\ cbdata' = [cbdata EXCEPT ![d] = IF cb[d] = 1 THEN "gone" ELSE @]
  /\ dev' = [dev EXCEPT ![d] = "GONE"]
  /\ cb' = [cb EXCEPT ![d] = 0]
  /\ mpc' = "wait" /\ target' = "none"
  /\ UNCHANGED <<visible, wpc, cstate, raced, exit, D, C>>

RemovedWithoutClients(d) ==
  /\ mpc = "remove" /\ target = d
  /\ TellRemoved(d)
  /\ cbdata' = [cbdata EXCEPT ![d] = IF cb[d] = 1 THEN "gone" ELSE @]
  /\ dev' = [dev EXCEPT ![d] = "GONE"]
  /\ cb' = [cb EXCEPT ![d] = 0]
  /\ D' = "free"
  /\ mpc' = "wait" /\ target' = "none"
  /\ UNCHANGED <<visible, wpc, cstate, raced, exit, C>>

\* ... while client_close and client_device_remove take C; then the worker is
\* told, and the device leaves the list.  usb_disconnect, which has called it,
\* goes on to wait for the device's transfers.
client_device_remove(d) ==
  /\ mpc = "remove" /\ target = d
  /\ C = "free"
  /\ TellRemoved(d)
  /\ cbdata' = [cbdata EXCEPT ![d] = IF cb[d] = 1 THEN "gone" ELSE @]
  /\ dev' = [dev EXCEPT ![d] = "GONE"]
  /\ cb' = [cb EXCEPT ![d] = 0]
  /\ D' = "free"
  /\ mpc' = "wait" /\ target' = "none"
  /\ UNCHANGED <<visible, wpc, cstate, raced, exit, C>>

\* The transfers have ended.  Until then usb_disconnect handles the events of
\* other devices, without a mutex.
usb_disconnect ==
  /\ mpc = "wait"
  /\ mpc' = Back
  /\ UNCHANGED <<world, target, exit, D, C>>

\* device_check_timeouts: D is kept while a connection whose ACK cannot be sent
\* is torn down, which takes C to close the client.  It comes when ppoll() has
\* returned 0, which it does not do with a signal pending.
device_check_timeouts ==
  /\ mpc = "poll" /\ exit # "pending"
  /\ \E d \in Devices : dev[d] = "ACTIVE"
  /\ D = "free"
  /\ D' = "main"
  /\ mpc' = "timeouts"
  /\ UNCHANGED <<world, target, exit, C>>

TimeoutsDone ==
  /\ mpc = "timeouts"
  /\ C = "free"
  /\ D' = "free"
  /\ mpc' = "top"
  /\ UNCHANGED <<world, target, exit, C>>

\* SIGTERM, sent by usbmuxd --force-exit; it is masked except in ppoll().
ForceExit ==
  /\ exit = "no"
  /\ exit' = "pending"
  /\ UNCHANGED <<world, mpc, target, D, C>>

\* ppoll() is interrupted if no descriptor is ready.
handle_signal ==
  /\ mpc = "poll"
  /\ exit = "pending"
  /\ exit' = "leaving"
  /\ mpc' = "down"
  /\ UNCHANGED <<world, target, D, C>>

\* usb_shutdown has removed all devices; client_shutdown closes the clients, for
\* which it takes C if there are any, and the end of main() ends the workers.
client_shutdown ==
  /\ mpc = "down"
  /\ \A d \in Devices : dev[d] # "ACTIVE"
  /\ C = "free" \/ Listening = {}
  /\ mpc' = "exited"
  /\ wpc' = [d \in Devices |-> IF wpc[d] = "none" THEN "none" ELSE "done"]
  /\ UNCHANGED <<dev, visible, cb, cbdata, cstate, told, raced, target, exit, D, C>>

Exited == mpc = "exited" /\ UNCHANGED vars

MainNext ==
  \/ main_loop \/ device_get_list \/ device_check_timeouts \/ TimeoutsDone
  \/ handle_signal \/ client_shutdown \/ usb_disconnect
  \/ \E d \in Devices : \/ device_version_input(d) \/ AddInline(d)
                        \/ device_remove(d) \/ client_device_remove(d)
  \/ \E c \in Listeners : \/ start_listen(c) \/ ListDevices(c)
                          \/ output_buffer_process(c) \/ client_close(c)

Next ==
  \/ ForceExit \/ Exited
  \/ MainNext
  \/ \E d \in Devices : WorkerNext(d)

Spec == Init /\ [][Next]_vars

(***************************************************************************)
(* Fairness: a thread that can go on does, and a signal interrupts a       *)
(* ppoll() that would not return otherwise.  Preflight, the user and the   *)
(* wait of usb_disconnect may take for ever.                               *)
(***************************************************************************)
MainGoesOn ==
  \/ main_loop \/ device_get_list \/ TimeoutsDone \/ client_shutdown
  \/ \E d \in Devices : AddInline(d) \/ client_device_remove(d)
  \/ mpc = "down" /\ \E d \in Devices : device_remove(d)
  \/ \E c \in Listeners : ListDevices(c)

WorkerGoesOn(d) ==
  client_device_add(d) \/ device_set_visible(d) \/ send_device_add(d) \/ WorkerReturns(d)

FairSpec ==
  /\ Spec
  /\ WF_vars(MainGoesOn) /\ WF_vars(handle_signal)
  /\ \A d \in Devices : WF_vars(WorkerGoesOn(d))

(***************************************************************************)
(* Properties.                                                             *)
(***************************************************************************)
\* Type invariant.  A worker never keeps device_list_mutex from one step to the
\* next, and the main thread never so keeps client_list_mutex.
TypeOK ==
  /\ dev \in [Devices -> {"NONE", "ACTIVE", "DEAD", "GONE"}]
  /\ visible \in [Devices -> {0, 1}] /\ cb \in [Devices -> {0, 1}]
  /\ cbdata \in [Devices -> {"none", "connected", "gone"}]
  /\ wpc \in [Devices -> {"none", "preflight", "add", "visible", "notify", "wait",
                          "clear", "done"}]
  /\ cstate \in [Listeners -> {"COMMAND", "LISTEN"}]
  /\ told \subseteq Listeners \X Devices /\ raced \subseteq Listeners
  /\ mpc \in {"top", "poll", "add", "listen", "list", "remove", "timeouts", "wait",
              "down", "exited"}
  /\ target \in Devices \cup Listeners \cup {"none"}
  /\ exit \in {"no", "pending", "leaving"}
  /\ D \in {"free", "main"} /\ C \in {"free"} \cup Devices

\* The pointer to a worker's stack that device_remove follows
\* (preflight_device_remove_cb) is one to a worker that has not returned and
\* whose cbdata is set up, however removal, waiting and return interleave.
CbPointsToLiveStack ==
  \A d \in Devices :
    cb[d] = 1 => InList(d) /\ cbdata[d] = "connected"
                 /\ wpc[d] \in {"add", "visible", "notify", "wait", "clear"}

\* No listener misses a device: once a device is visible and its worker is out
\* of client_device_add, every listener has heard of it, whichever of Listen
\* and client_device_add came first, and although start_listen does not take
\* client_list_mutex; unless both have used the client's buffer at a time.
NoMissedAttach ==
  \A c \in Listening \ raced, d \in Devices :
    /\ dev[d] = "ACTIVE" /\ visible[d] = 1
    /\ wpc[d] # "notify"
    /\ ~(mpc \in {"listen", "list"} /\ target = c)
    => <<c, d>> \in told

\* Main thread and a worker each wait for the mutex the other one has.
Inverted ==
  /\ mpc \in {"remove", "timeouts"} /\ D = "main"
  /\ \E d \in Devices : C = d /\ wpc[d] = "visible"

\* The only deadlock is that one: no mutex stays with a thread that is through
\* with it, and whoever has one can take its next step, or waits for a thread
\* that can.  (The next step of "notify" needs no mutex, that of "visible" needs
\* D, and those of the main thread with D need C.)
OnlyInversionBlocks ==
  mpc # "exited" =>
    /\ D = "main" <=> mpc \in {"remove", "timeouts"}
    /\ \A d \in Devices : C = d <=> wpc[d] \in {"visible", "notify"}
    /\ ~Inverted =>
         \/ D = "free"
         \/ D = "main" /\ C = "free"
         \/ D = "main" /\ \E d \in Devices : C = d /\ wpc[d] = "notify"

\* The steps that begin with a descriptor that ppoll() has found ready.
Served ==
  /\ mpc = "poll"
  /\ \/ \E d \in Devices : device_version_input(d) \/ device_remove(d)
     \/ \E c \in Listeners : start_listen(c) \/ output_buffer_process(c) \/ client_close(c)

\* What keeps the main thread from a signal without any mutex: usb_disconnect
\* waits for ever, or ppoll() finds a descriptor ready every time.
NotKeptBusy == []<>(mpc # "wait") /\ <>[][~Served]_vars

\* --force-exit ends the daemon unless the two mutexes are taken in opposite
\* orders by device_remove or device_check_timeouts and by client_device_add:
\* with descriptors that are not always ready and transfers that end, nothing
\* else keeps the main thread from coming to an end.
ExitOrInversion ==
  NotKeptBusy => (exit = "pending" ~> (mpc = "exited" \/ Inverted))

\* usbmuxd --force-exit always works, at least for a daemon that is not kept busy.
ForceExitWorks == NotKeptBusy => (exit = "pending" ~> mpc = "exited")

\* A device that had become visible is taken back from everybody who was told
\* of it: a worker's Attached never comes after the Detached of device_remove,
\* because it is sent under the client_list_mutex that device_set_visible was
\* called under.  One whose preflight ends after it was removed is announced
\* all the same, and never taken back.  Clients whose buffer two threads have
\* used at a time are left out.  (client_device_add, device_remove.)
DetachedIfVisible ==
  \A p \in told : p[1] \notin raced /\ dev[p[2]] = "GONE" => visible[p[2]] = 0
=============================================================================
