--------------------------- MODULE Announce_proofs ---------------------------
(***************************************************************************)
(* Proofs about Announce for any set of devices and of listeners.          *)
(***************************************************************************)
EXTENDS Announce, TLAPS

\* What ties the phases together: a device that was never added has no worker
\* and is hidden, and only the one being removed is MUXDEV_DEAD.
Phases ==
  /\ \A d \in Devices : dev[d] = "NONE" => visible[d] = 0 /\ wpc[d] = "none"
  /\ \A d \in Devices : dev[d] = "DEAD" => mpc = "remove" /\ target = d
  /\ mpc = "add" => target \in Devices /\ dev[target] # "NONE"

Inv == TypeOK /\ Phases /\ CbPointsToLiveStack /\ NoMissedAttach

\* The messages of Tell reach every client whose buffer is in order.
LEMMA TellReaches ==
  ASSUME NEW P, Tell(P)
  PROVE  /\ told \subseteq told' /\ told' \subseteq told \cup P
         /\ \A p \in P : p[1] \notin raced => p \in told'
BY DEF Tell

\* Detached takes a device back from every listener whose buffer is in order.
LEMMA RemovedReaches ==
  ASSUME NEW d, TellRemoved(d)
  PROVE  /\ told' \subseteq told
         /\ \A p \in told : p[2] # d => p \in told'
         /\ \A p \in told' : p[2] = d => p[1] \in raced \/ p[1] \notin Listening
BY DEF TellRemoved

\* Initially there is no device and no listener.
LEMMA InitInv == Init => Inv
BY SMTT(30) DEF Init, Inv, TypeOK, Phases, CbPointsToLiveStack, NoMissedAttach, Listening

\* The steps of a preflight worker keep the invariant.
LEMMA WorkerKeepsInv ==
  ASSUME Inv, NEW d \in Devices, WorkerNext(d)
  PROVE  Inv'
<1> USE DEF Inv, TypeOK, Phases, CbPointsToLiveStack, NoMissedAttach, InList,
            Listening, worker
<1>1. CASE PreflightEnds(d)
  BY <1>1 DEF PreflightEnds
<1>2. CASE device_set_preflight_cb_data(d)
  BY <1>2 DEF device_set_preflight_cb_data
<1>3. CASE client_device_add(d)
  BY <1>3 DEF client_device_add
<1>4. CASE device_set_visible(d)
  BY <1>4 DEF device_set_visible
<1>5. CASE send_device_add(d)
  <2>1. /\ told \subseteq told' /\ told' \subseteq told \cup {<<c, d>> : c \in Listening}
        /\ \A c \in Listening : c \notin raced => <<c, d>> \in told'
    BY <1>5, TellReaches DEF send_device_add
  <2>2. TypeOK'
    BY <1>5, <2>1 DEF send_device_add
  <2>3. Phases' /\ CbPointsToLiveStack'
    BY <1>5 DEF send_device_add
  <2>4. NoMissedAttach'
    BY <1>5, <2>1 DEF send_device_add
  <2> QED BY <2>2, <2>3, <2>4
<1>6. CASE WaitEnds(d)
  BY <1>6 DEF WaitEnds
<1>7. CASE WorkerReturns(d)
  BY <1>7, SMTT(30) DEF WorkerReturns
<1> QED
  BY <1>1, <1>2, <1>3, <1>4, <1>5, <1>6, <1>7 DEF WorkerNext

\* The steps of the main thread that are about one device keep the invariant.
LEMMA MainDeviceKeepsInv ==
  ASSUME Inv, NEW d \in Devices,
         \/ device_version_input(d) \/ AddInline(d)
         \/ device_remove(d) \/ client_device_remove(d)
  PROVE  Inv'
<1> USE DEF Inv, TypeOK, Phases, CbPointsToLiveStack, NoMissedAttach, InList, Listening
<1>1. CASE device_version_input(d)
  BY <1>1 DEF device_version_input
<1>2. CASE AddInline(d)
  <2>1. /\ told \subseteq told' /\ told' \subseteq told \cup {<<c, d>> : c \in Listening}
        /\ \A c \in Listening : c \notin raced => <<c, d>> \in told'
    BY <1>2, TellReaches, SMTT(30) DEF AddInline
  <2>2. TypeOK'
    BY <1>2, <2>1 DEF AddInline, Back
  <2>3. Phases' /\ CbPointsToLiveStack'
    BY <1>2 DEF AddInline, Back
  <2>4. NoMissedAttach'
    BY <1>2, <2>1 DEF AddInline, Back
  <2> QED BY <2>2, <2>3, <2>4
<1>3. CASE device_remove(d)
  BY <1>3, SMTT(30) DEF device_remove
<1>4. CASE client_device_remove(d)
  <2>1. told' \subseteq told /\ \A p \in told : p[2] # d => p \in told'
    BY <1>4, RemovedReaches DEF client_device_remove
  <2>2. TypeOK'
    BY <1>4, <2>1 DEF client_device_remove
  <2>3. Phases' /\ CbPointsToLiveStack'
    BY <1>4, SMTT(30) DEF client_device_remove
  <2>4. NoMissedAttach'
    BY <1>4, <2>1, SMTT(30) DEF client_device_remove
  <2> QED BY <2>2, <2>3, <2>4
<1> QED
  BY <1>1, <1>2, <1>3, <1>4

\* So do those about one client.
LEMMA MainClientKeepsInv ==
  ASSUME Inv, NEW c \in Listeners,
         \/ start_listen(c) \/ ListDevices(c)
         \/ output_buffer_process(c) \/ client_close(c)
  PROVE  Inv'
<1> USE DEF Inv, TypeOK, Phases, CbPointsToLiveStack, NoMissedAttach, InList, Listening
<1>1. CASE start_listen(c)
  BY <1>1 DEF start_listen
<1>2. CASE ListDevices(c)
  <2> DEFINE Vis == {x \in Devices : dev[x] = "ACTIVE" /\ visible[x] = 1}
  <2>1. /\ told \subseteq told' /\ told' \subseteq told \cup {<<c, d>> : d \in Vis}
        /\ \A d \in Vis : c \notin raced => <<c, d>> \in told'
    BY <1>2, TellReaches, SMTT(30) DEF ListDevices
  <2>2. TypeOK'
    BY <1>2, <2>1 DEF ListDevices
  <2>3. Phases' /\ CbPointsToLiveStack'
    BY <1>2 DEF ListDevices
  <2>4. NoMissedAttach'
    BY <1>2, <2>1, SMTT(30) DEF ListDevices
  <2> QED BY <2>2, <2>3, <2>4
<1>3. CASE output_buffer_process(c)
  BY <1>3 DEF output_buffer_process
<1>4. CASE client_close(c)
  BY <1>4, SMTT(30) DEF client_close
<1> QED
  BY <1>1, <1>2, <1>3, <1>4

\* Every step keeps the invariant.
LEMMA NextKeepsInv == Inv /\ [Next]_vars => Inv'
<1> SUFFICES ASSUME Inv, [Next]_vars PROVE Inv'
  OBVIOUS
<1> USE DEF Inv, TypeOK, Phases, CbPointsToLiveStack, NoMissedAttach, InList,
            Listening, world
<1>1. CASE main_loop
  BY <1>1 DEF main_loop
<1>2. CASE device_get_list
  BY <1>2 DEF device_get_list
<1>3. CASE device_check_timeouts
  BY <1>3 DEF device_check_timeouts
<1>4. CASE TimeoutsDone
  BY <1>4 DEF TimeoutsDone
<1>5. CASE handle_signal
  BY <1>5 DEF handle_signal
<1>6. CASE client_shutdown
  <2>1. TypeOK'
    BY <1>6 DEF client_shutdown
  <2>2. \A d \in Devices : dev[d] \in {"NONE", "GONE"} /\ cb[d] = 0
    BY <1>6 DEF client_shutdown
  <2>3. Phases'
    BY <1>6, <2>2 DEF client_shutdown
  <2>4. CbPointsToLiveStack' /\ NoMissedAttach'
    BY <1>6, <2>2 DEF client_shutdown
  <2> QED BY <2>1, <2>3, <2>4
<1>7. CASE ForceExit \/ usb_disconnect
  BY <1>7 DEF ForceExit, usb_disconnect, Back
<1>8. CASE UNCHANGED vars
  BY <1>8 DEF vars
<1>9. CASE \E d \in Devices : WorkerNext(d)
  BY <1>9, WorkerKeepsInv, SMTT(30)
<1>10. CASE \E d \in Devices : \/ device_version_input(d) \/ AddInline(d)
                               \/ device_remove(d) \/ client_device_remove(d)
  BY <1>10, MainDeviceKeepsInv, SMTT(30)
<1>11. CASE \E c \in Listeners : \/ start_listen(c) \/ ListDevices(c)
                                 \/ output_buffer_process(c) \/ client_close(c)
  BY <1>11, MainClientKeepsInv
<1> QED
  BY <1>1, <1>2, <1>3, <1>4, <1>5, <1>6, <1>7, <1>8, <1>9, <1>10, <1>11, Zenon
  DEF Next, MainNext, Exited

\* The inductive invariant holds of every reachable state.
THEOREM Invariant == Spec => []Inv
<1>1. Init => Inv
  BY InitInv
<1>2. Inv /\ [Next]_vars => Inv'
  BY NextKeepsInv
<1> QED
  BY <1>1, <1>2, PTL DEF Spec

\* Types, with who may hold which mutex between two steps.
THEOREM TypeCorrect == Spec => []TypeOK
BY Invariant, PTL DEF Inv

\* device_remove never writes through a pointer into the stack of a worker that
\* has returned (preflight_device_remove_cb).
THEOREM NoDanglingCallback == Spec => []CbPointsToLiveStack
BY Invariant, PTL DEF Inv

\* Listen and client_device_add together miss no device, for any number of
\* devices, workers and listeners.
THEOREM ListenersHearAll == Spec => []NoMissedAttach
BY Invariant, PTL DEF Inv

(***************************************************************************)
(* Attached and Detached.                                                  *)
(***************************************************************************)
\* Only listeners are told anything, a worker has client_list_mutex from before
\* it makes its device visible until it has told them, and a device becomes
\* visible once.
Order ==
  /\ \A p \in told : cstate[p[1]] = "LISTEN"
  /\ mpc \in {"listen", "list"} => target \in Listeners /\ cstate[target] = "LISTEN"
  /\ mpc = "add" => dev[target] = "ACTIVE" /\ wpc[target] = "none"
  /\ \A d \in Devices :
       /\ wpc[d] \in {"visible", "notify"} => C = d
       /\ wpc[d] \in {"preflight", "add", "visible"} => visible[d] = 0
       /\ wpc[d] = "notify" /\ dev[d] = "GONE" => visible[d] = 0

TakenBack == Inv /\ Order /\ DetachedIfVisible

\* The steps of a worker keep it.
LEMMA WorkerTakesBack ==
  ASSUME TakenBack, NEW d \in Devices, WorkerNext(d)
  PROVE  Order' /\ DetachedIfVisible'
<1> USE DEF TakenBack, Order, DetachedIfVisible, Inv, TypeOK, Phases, InList, Listening,
            worker
<1>1. CASE PreflightEnds(d)
  BY <1>1 DEF PreflightEnds
<1>2. CASE device_set_preflight_cb_data(d)
  BY <1>2 DEF device_set_preflight_cb_data
<1>3. CASE client_device_add(d)
  <2>1. \A e \in Devices : wpc[e] \notin {"visible", "notify"}
    BY <1>3, AnnounceAssumption DEF client_device_add
  <2> QED BY <1>3, <2>1 DEF client_device_add
<1>4. CASE device_set_visible(d)
  BY <1>4 DEF device_set_visible
<1>5. CASE send_device_add(d)
  <2>1. told' \subseteq told \cup {<<c, d>> : c \in Listening}
    BY <1>5, TellReaches DEF send_device_add
  <2>2. \A p \in told' : /\ cstate[p[1]] = "LISTEN"
                         /\ p[1] \notin raced /\ dev[p[2]] = "GONE" => visible[p[2]] = 0
    BY <1>5, <2>1 DEF send_device_add
  <2> QED BY <1>5, <2>2 DEF send_device_add
<1>6. CASE WaitEnds(d)
  BY <1>6 DEF WaitEnds
<1>7. CASE WorkerReturns(d)
  BY <1>7, SMTT(30) DEF WorkerReturns
<1> QED
  BY <1>1, <1>2, <1>3, <1>4, <1>5, <1>6, <1>7 DEF WorkerNext

\* So do the steps of the main thread.
LEMMA MainTakesBack ==
  ASSUME TakenBack, MainNext
  PROVE  Order' /\ DetachedIfVisible'
<1> USE DEF TakenBack, Order, DetachedIfVisible, Inv, TypeOK, Phases, InList, Listening,
            world
<1>1. CASE main_loop \/ device_get_list \/ device_check_timeouts \/ TimeoutsDone
           \/ handle_signal \/ usb_disconnect
  BY <1>1 DEF main_loop, device_get_list, device_check_timeouts, TimeoutsDone,
              handle_signal, usb_disconnect, Back
<1>2. CASE client_shutdown
  BY <1>2 DEF client_shutdown
<1>3. ASSUME NEW d \in Devices, device_version_input(d) PROVE Order' /\ DetachedIfVisible'
  BY <1>3 DEF device_version_input
<1>4. ASSUME NEW d \in Devices, AddInline(d) PROVE Order' /\ DetachedIfVisible'
  <2>1. told' \subseteq told \cup {<<c, d>> : c \in Listening}
    BY <1>4, TellReaches DEF AddInline
  <2>2. \A p \in told' : /\ cstate[p[1]] = "LISTEN"
                         /\ p[1] \notin raced /\ dev[p[2]] = "GONE" => visible'[p[2]] = 0
    BY <1>4, <2>1 DEF AddInline
  <2> QED BY <1>4, <2>2 DEF AddInline, Back
<1>5. ASSUME NEW d \in Devices, device_remove(d) PROVE Order' /\ DetachedIfVisible'
  BY <1>5 DEF device_remove
<1>6. ASSUME NEW d \in Devices, client_device_remove(d) PROVE Order' /\ DetachedIfVisible'
  <2>1. \A e \in Devices : wpc[e] \notin {"visible", "notify"}
    BY <1>6, AnnounceAssumption DEF client_device_remove
  <2>2. \A p \in told' : p \in told /\ (p[2] # d \/ p[1] \in raced)
    BY <1>6, RemovedReaches DEF client_device_remove
  <2> QED BY <1>6, <2>1, <2>2 DEF client_device_remove
<1>7. ASSUME NEW c \in Listeners, start_listen(c) PROVE Order' /\ DetachedIfVisible'
  BY <1>7, SMTT(30) DEF start_listen
<1>8. ASSUME NEW c \in Listeners, ListDevices(c) PROVE Order' /\ DetachedIfVisible'
  <2> DEFINE Vis == {x \in Devices : dev[x] = "ACTIVE" /\ visible[x] = 1}
  <2>1. told' \subseteq told \cup {<<c, d>> : d \in Vis}
    BY <1>8, TellReaches, SMTT(30) DEF ListDevices
  <2>2. \A p \in told' : /\ cstate[p[1]] = "LISTEN"
                         /\ p[1] \notin raced /\ dev[p[2]] = "GONE" => visible[p[2]] = 0
    BY <1>8, <2>1, SMTT(30) DEF ListDevices
  <2> QED BY <1>8, <2>2 DEF ListDevices
<1>9. ASSUME NEW c \in Listeners, output_buffer_process(c) \/ client_close(c)
      PROVE Order' /\ DetachedIfVisible'
  BY <1>9 DEF output_buffer_process, client_close
<1> QED
  BY <1>1, <1>2, <1>3, <1>4, <1>5, <1>6, <1>7, <1>8, <1>9 DEF MainNext

\* A listener that was told of a device that had become visible is told when it
\* goes, unless its buffer was raced: Attached and Detached of a device are never
\* sent in the wrong order.
THEOREM VisibleIsTakenBack == Spec => []DetachedIfVisible
<1>1. Init => TakenBack
  <2> SUFFICES ASSUME Init PROVE TakenBack
    OBVIOUS
  <2>1. Inv
    BY InitInv
  <2> QED BY <2>1 DEF Init, TakenBack, Order, DetachedIfVisible
<1>2. TakenBack /\ [Next]_vars => TakenBack'
  <2> SUFFICES ASSUME TakenBack, [Next]_vars PROVE TakenBack'
    OBVIOUS
  <2>1. Inv'
    BY NextKeepsInv DEF TakenBack
  <2>2. CASE MainNext
    BY <2>1, <2>2, MainTakesBack DEF TakenBack
  <2>3. CASE \E d \in Devices : WorkerNext(d)
    BY <2>1, <2>3, WorkerTakesBack DEF TakenBack
  <2>4. CASE ForceExit \/ UNCHANGED vars
    BY <2>1, <2>4 DEF TakenBack, Order, DetachedIfVisible, ForceExit, vars, world
  <2> QED BY <2>2, <2>3, <2>4 DEF Next, Exited
<1>3. TakenBack => DetachedIfVisible
  BY DEF TakenBack
<1> QED
  BY <1>1, <1>2, <1>3, PTL DEF Spec

(***************************************************************************)
(* The mutexes.                                                            *)
(***************************************************************************)
\* Who has them.
Held ==
  mpc # "exited" =>
    /\ D = "main" <=> mpc \in {"remove", "timeouts"}
    /\ \A d \in Devices : C = d <=> wpc[d] \in {"visible", "notify"}

\* The steps of a worker give back what they have taken.
LEMMA WorkerKeepsHeld ==
  ASSUME TypeOK, Held, NEW d \in Devices, WorkerNext(d)
  PROVE  Held'
<1> SUFFICES ASSUME mpc' # "exited" PROVE Held'
  BY DEF Held
<1>0. mpc' = mpc /\ D' = D
  BY DEF WorkerNext, PreflightEnds, device_set_preflight_cb_data, client_device_add,
         device_set_visible, send_device_add, WaitEnds, WorkerReturns, worker
<1>1. \A e \in Devices : C = e <=> wpc[e] \in {"visible", "notify"}
  BY <1>0 DEF Held
<1>2. \A e \in Devices : e # d => wpc'[e] = wpc[e]
  BY DEF TypeOK, WorkerNext, PreflightEnds, device_set_preflight_cb_data, client_device_add,
         device_set_visible, send_device_add, WaitEnds, WorkerReturns
<1>3. CASE C' = C /\ (wpc[d] \in {"visible", "notify"} <=> wpc'[d] \in {"visible", "notify"})
  BY <1>0, <1>1, <1>2, <1>3 DEF Held
<1>4. CASE C = "free" /\ C' = d /\ wpc'[d] = "visible"
  BY <1>0, <1>1, <1>2, <1>4, AnnounceAssumption DEF Held
<1>5. CASE C' = "free" /\ wpc[d] = "notify" /\ wpc'[d] \notin {"visible", "notify"}
  BY <1>0, <1>1, <1>2, <1>5, AnnounceAssumption DEF Held
<1> QED
  BY <1>3, <1>4, <1>5
  DEF TypeOK, WorkerNext, PreflightEnds, device_set_preflight_cb_data, client_device_add,
      device_set_visible, send_device_add, WaitEnds, WorkerReturns

\* The main thread takes client_list_mutex only for the time of a step, and
\* device_list_mutex for a removal and for the timeouts.
LEMMA MainKeepsHeld ==
  ASSUME Inv, Held, MainNext
  PROVE  Held'
<1> SUFFICES ASSUME mpc' # "exited" PROVE Held'
  BY DEF Held
<1> USE DEF world
<1>1. CASE main_loop \/ device_get_list \/ device_check_timeouts \/ TimeoutsDone
  BY <1>1 DEF Held, main_loop, device_get_list, device_check_timeouts, TimeoutsDone
<1>2. CASE handle_signal \/ client_shutdown \/ usb_disconnect
  BY <1>2 DEF Held, handle_signal, client_shutdown, usb_disconnect, Back
<1>3. ASSUME NEW d \in Devices, device_version_input(d) PROVE Held'
  <2>1. wpc[d] = "none"
    BY <1>3 DEF device_version_input, Inv, Phases
  <2>2. \A e \in Devices : wpc'[e] = wpc[e] \/ (e = d /\ wpc'[e] = "preflight")
    BY <1>3 DEF device_version_input, Inv, TypeOK
  <2> QED BY <1>3, <2>1, <2>2 DEF Held, device_version_input
<1>4. ASSUME NEW d \in Devices, AddInline(d) \/ device_remove(d) \/ client_device_remove(d)
      PROVE  Held'
  BY <1>4 DEF Held, AddInline, device_remove, client_device_remove, Back
<1>5. ASSUME NEW c \in Listeners,
             start_listen(c) \/ ListDevices(c) \/ output_buffer_process(c) \/ client_close(c)
      PROVE  Held'
  BY <1>5 DEF Held, start_listen, ListDevices, output_buffer_process, client_close
<1> QED
  BY <1>1, <1>2, <1>3, <1>4, <1>5 DEF MainNext

\* No mutex is left locked, and only main thread and worker that have taken the
\* two in opposite orders wait for each other (device_remove,
\* device_check_timeouts, client_device_add).
THEOREM NoOtherDeadlock == Spec => []OnlyInversionBlocks
<1>1. Init => Held
  BY AnnounceAssumption DEF Init, Held
<1>2. ASSUME Inv, Held, [Next]_vars PROVE Held'
  <2>1. CASE ForceExit \/ Exited \/ UNCHANGED vars
    BY <1>2, <2>1 DEF ForceExit, Exited, vars, world, Held
  <2> QED BY <1>2, <2>1, WorkerKeepsHeld, MainKeepsHeld DEF Next, Inv
<1>3. Inv /\ Held => OnlyInversionBlocks
  BY DEF Inv, TypeOK, Held, OnlyInversionBlocks, Inverted
<1> QED
  BY <1>1, <1>2, <1>3, Invariant, PTL DEF Spec

=============================================================================
