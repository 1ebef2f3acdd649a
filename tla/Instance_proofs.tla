-------------------------- MODULE Instance_proofs --------------------------
(***************************************************************************)
(* Proofs about Instance, for any number of processes of any kind.         *)
(***************************************************************************)
EXTENDS Instance, TLAPS

Types ==
  /\ proc \in [Procs -> Proc]
  /\ name \in Procs \cup {NoFile, Plain} /\ sock \in Procs \cup {NoFile}
  /\ raced \in {0, 1}

\* Nobody who came after an instance got further than its test, which will find
\* that instance's lock; and while a process replaces the lock file there is no
\* instance.
Alone ==
  /\ \A p, q \in Procs : proc[p].pc \in Window /\ proc[q].pc \in Window => p = q
  /\ \A p, q \in Procs : proc[p].pc \in Holding /\ proc[q].pc \in Holding => p = q
  /\ \A p, q \in Procs : proc[p].pc \in Window /\ proc[q].pc \in Holding
                           => proc[p].pc = "getlk" /\ proc[p].fd = q
  /\ \A p \in Procs : proc[p].pc = "setlk" \/ proc[p].pc \in Holding => name = p
  /\ \A p \in Procs : proc[p].pc \in {"init", "enter", "run", "stop"} => sock = p

Inv == Types /\ (raced = 0 => Alone)

\* What an action does to the places: q goes to a step, all others stay.
Moves(q, to) ==
  /\ proc'[q].pc \in to
  /\ \A r \in Procs : r # q => proc'[r].pc = proc[r].pc /\ proc'[r].fd = proc[r].fd

\* Initially no process has been started.
LEMMA InitInv == Init => Inv
BY InstanceAssumption
DEF Init, Inv, Types, Alone, NewProc, Proc, Steps, Window, Holding, AllKinds

\* The invariant implies the property.
LEMMA InvImplies == Inv => OneInstance
BY Zenon DEF Inv, Types, Alone, OneInstance, Holds, Holding

\* Starting a process, a signal, the end of a process and what the main loop
\* does change neither files nor what the others are about.
LEMMA QuietKeepsAlone ==
  ASSUME Types, Alone, NEW p \in Procs, UNCHANGED <<name, sock>>,
         \/ Moves(p, {"new", "open", "signal", "gone"})
         \/ /\ proc[p].pc \in {"run", "stop"} /\ Moves(p, {"run", "stop"})
         \/ /\ proc[p].pc \in {"init", "enter"} /\ Moves(p, {"enter", "run"})
  PROVE  Alone'
BY InstanceAssumption DEF Types, Alone, Moves, Window, Holding

\* A process record has the fields that are read of it.
LEMMA ProcFacts ==
  ASSUME Types, NEW p \in Procs
  PROVE  /\ proc[p] \in Proc /\ proc[p].pc \in Steps
         /\ proc[p].fd \in Procs \cup {NoFile, Plain}
BY DEF Types, Proc

\* Updates of several fields keep the type of a process.
LEMMA Updates ==
  ASSUME NEW r \in Proc, NEW s \in Steps, NEW f \in Procs \cup {NoFile, Plain},
         NEW D \in SUBSET Devices, NEW U \in SUBSET Devices
  PROVE  /\ [r EXCEPT !.pc = s, !.fd = f] \in Proc
         /\ [r EXCEPT !.pc = s, !.devs = D] \in Proc
         /\ [r EXCEPT !.devs = D, !.up = U] \in Proc
         /\ [r EXCEPT !.sig = {}] \in Proc
         /\ [r EXCEPT !.pc = s] \in Proc
         /\ r.up \cap D \in SUBSET Devices
BY Zenon DEF Proc

\* GetLk leads on to the replacement of the lock file, to a signal, or to an end.
GoesOnToUnlink(p) == proc' = [proc EXCEPT ![p] = [@ EXCEPT !.pc = "unlink", !.fd = NoFile]]

\* What it does to the process when it goes on.
LEMMA Unlocked ==
  ASSUME proc \in [Procs -> Proc], NEW p \in Procs, GoesOnToUnlink(p)
  PROVE  /\ proc'[p].pc = "unlink" /\ proc'[p].kind = proc[p].kind
         /\ proc'[p].sig = proc[p].sig /\ proc'[p].devs = proc[p].devs
         /\ \A q \in Procs : q # p => proc'[q] = proc[q]
<1>1. proc[p] \in Proc /\ proc'[p] = [proc[p] EXCEPT !.pc = "unlink", !.fd = NoFile]
  BY Zenon DEF GoesOnToUnlink
<1>2. \A q \in Procs : q # p => proc'[q] = proc[q]
  BY Zenon DEF GoesOnToUnlink
<1> QED BY <1>1, <1>2 DEF Proc

\* Types are kept by every step.
LEMMA NextKeepsTypes == TypeOK /\ [Next]_vars => TypeOK'
<1> SUFFICES ASSUME TypeOK, [Next]_vars PROVE TypeOK'
  OBVIOUS
<1> USE InstanceAssumption DEF TypeOK, At, Goto, Quit, Gone, NewProc, AllKinds
<1>0. CASE UNCHANGED vars
  BY <1>0 DEF vars
<1>1. ASSUME NEW p \in Procs, Step(p) \/ Fail(p) PROVE TypeOK'
  <2>1. CASE OpenLockfile(p)
    <3>1. name' \in Procs \cup {NoFile, Plain} /\ "getlk" \in Steps
      BY <2>1 DEF OpenLockfile, Steps, Window
    <3> QED BY <2>1, <3>1, Updates, Zenon DEF OpenLockfile
  <2>2. CASE GetLk(p)
    <3>1. CASE GoesOnToUnlink(p)
      <4>1. "unlink" \in Steps /\ NoFile \in Procs \cup {NoFile, Plain}
        BY SMTT(30) DEF Steps, Window
      <4>2. proc' \in [Procs -> Proc]
        BY <3>1, <4>1, Updates, Zenon DEF GoesOnToUnlink
      <4> QED BY <2>2, <4>2 DEF GetLk
    <3>2. CASE Goto(p, "signal") \/ Quit(p)
      BY <2>2, <3>2, SMTT(30) DEF GetLk, Proc, Steps, Window
    <3> QED BY <2>2, <3>1, <3>2, Zenon DEF GetLk, GoesOnToUnlink
  <2>3. CASE Signal(p)
    <3>1. SignalOf(proc[p].kind) \in {"USR1", "USR2", "TERM"}
      BY DEF SignalOf, exit_signal
    <3> QED BY <2>3, <3>1 DEF Signal, Proc, Steps, Holds
  <2>4. CASE UnlinkLockfile(p)
    BY <2>4 DEF UnlinkLockfile, Proc, Steps, Window
  <2>5. CASE CreateLockfile(p)
    BY <2>5 DEF CreateLockfile, Proc, Steps, Window
  <2>6. CASE SetLk(p) \/ UnlinkSocket(p)
    BY <2>6 DEF SetLk, UnlinkSocket, Proc, Steps, Holding
  <2>7. CASE create_socket(p)
    BY <2>7 DEF create_socket, Proc, Steps, Holding
  <2>8. CASE usb_init(p) \/ EnterLoop(p)
    <3>1. "enter" \in Steps /\ "run" \in Steps
      BY SMTT(30) DEF Steps, Holding
    <3>2. CASE usb_init(p)
      BY <3>1, <3>2, Updates, Zenon DEF usb_init
    <3>3. CASE EnterLoop(p)
      BY <3>1, <3>3 DEF EnterLoop, Proc
    <3> QED BY <2>8, <3>2, <3>3
  <2>9. CASE HandleSignals(p)
    <3> DEFINE r == [proc[p] EXCEPT !.sig = {}]
    <3>1. r \in Proc /\ "stop" \in Steps
      BY Updates, Zenon DEF Steps, Holding
    <3>2. [r EXCEPT !.pc = "stop"] \in Proc
      BY <3>1, Updates, Zenon
    <3>3. usb_discover(r) \in Proc
      BY <3>1, Updates, Zenon DEF usb_discover
    <3> QED BY <2>9, <3>1, <3>2, <3>3, SMTT(30) DEF HandleSignals
  <2>10. CASE Terminate(p) \/ Fail(p)
    BY <2>10 DEF Terminate, Fail, Proc, Steps
  <2> QED BY <1>1, <2>1, <2>2, <2>3, <2>4, <2>5, <2>6, <2>7, <2>8, <2>9, <2>10 DEF Step
<1>2. ASSUME NEW p \in Procs, NEW k \in AllKinds, Begin(p, k), plugged' \subseteq Devices
      PROVE  TypeOK'
  BY <1>2 DEF Begin, Proc, Steps
<1>3. ASSUME NEW p \in Procs, NEW d \in Devices, DeviceStep(p, d) PROVE TypeOK'
  BY <1>3 DEF DeviceStep, DeviceArrived, DeviceLeft, DeviceUp, Proc
<1> QED
  BY <1>0, <1>1, <1>2, <1>3 DEF Next, Start, Plug, Unplug

\* A process dealing with the lock file keeps the invariant.
LEMMA LockfileKeepsAlone ==
  ASSUME Types, Alone, raced' = 0, NEW p \in Procs,
         \/ OpenLockfile(p) \/ GetLk(p) \/ UnlinkLockfile(p) \/ CreateLockfile(p)
         \/ SetLk(p)
  PROVE  Alone'
<1> USE InstanceAssumption, ProcFacts DEF At, Goto, Quit
<1>1. CASE OpenLockfile(p)
  <2>1. Moves(p, {"getlk"}) /\ proc'[p].fd = name' /\ InWindow = {}
    BY <1>1 DEF OpenLockfile, Moves, Types, Proc
  <2>2. \A q \in Procs : proc[q].pc \notin Window
    BY <2>1 DEF InWindow
  <2> QED BY <1>1, <2>1, <2>2 DEF OpenLockfile, Alone, Moves, Window, Holding, Types
<1>2. CASE GetLk(p)
  <2>1. CASE Holds(proc[p].fd)
    <3>1. Moves(p, {"signal", "gone"})
      BY <1>2, <2>1 DEF GetLk, Moves, Types, Proc, Gone, NewProc
    <3> QED BY <1>2, <3>1, QuietKeepsAlone DEF GetLk, Moves
  <2>2. CASE ~Holds(proc[p].fd)
    <3>1. Moves(p, {"unlink"})
      <4>1. GoesOnToUnlink(p)
        BY <1>2, <2>2, Zenon DEF GetLk, GoesOnToUnlink
      <4> QED BY <4>1, Unlocked DEF Moves, Types
    <3>2. \A q \in Procs : proc[q].pc \notin Holding
      BY <1>2, <2>2 DEF GetLk, Alone, Holds, Window
    <3> QED BY <1>2, <3>1, <3>2 DEF GetLk, Alone, Moves, Window, Holding
  <2> QED BY <2>1, <2>2
<1>3. CASE UnlinkLockfile(p)
  <2>1. Moves(p, {"create", "gone"})
    BY <1>3 DEF UnlinkLockfile, Moves, Types, Proc, Gone, NewProc
  <2> QED BY <1>3, <2>1 DEF UnlinkLockfile, Alone, Moves, Window, Holding
<1>4. CASE CreateLockfile(p)
  <2>1. CASE name = NoFile
    <3>1. Moves(p, {"setlk"}) /\ name' = p /\ UNCHANGED sock
      BY <1>4, <2>1 DEF CreateLockfile, Moves, Types, Proc
    <3> QED BY <1>4, <3>1 DEF CreateLockfile, Alone, Moves, Window, Holding
  <2>2. CASE name # NoFile
    <3>1. Moves(p, {"gone"}) /\ UNCHANGED <<name, sock>>
      BY <1>4, <2>2 DEF CreateLockfile, Moves, Types, Proc, Gone, NewProc
    <3> QED BY <3>1, QuietKeepsAlone DEF Moves
  <2> QED BY <2>1, <2>2
<1>5. CASE SetLk(p)
  <2>1. Moves(p, {"unbind"})
    BY <1>5 DEF SetLk, Moves, Types, Proc
  <2> QED BY <1>5, <2>1 DEF SetLk, Alone, Moves, Window, Holding
<1> QED
  BY <1>1, <1>2, <1>3, <1>4, <1>5

\* So does the instance on its way from the lock to the main loop.
LEMMA SocketKeepsAlone ==
  ASSUME Types, Alone, NEW p \in Procs, UnlinkSocket(p) \/ create_socket(p)
  PROVE  Alone'
<1> USE InstanceAssumption, ProcFacts DEF At, Goto, Quit
<1>1. CASE UnlinkSocket(p)
  <2>1. Moves(p, {"bind"})
    BY <1>1 DEF UnlinkSocket, Moves, Types, Proc
  <2> QED BY <1>1, <2>1 DEF UnlinkSocket, Alone, Moves, Window, Holding
<1>2. CASE create_socket(p) /\ sock = NoFile
  <2>1. Moves(p, {"init"}) /\ sock' = p /\ UNCHANGED name
    BY <1>2 DEF create_socket, Moves, Types, Proc
  <2> QED BY <1>2, <2>1 DEF create_socket, Alone, Moves, Window, Holding
<1>3. CASE create_socket(p) /\ sock # NoFile
  <2>1. Moves(p, {"gone"}) /\ UNCHANGED <<name, sock>>
    BY <1>3 DEF create_socket, Moves, Types, Proc, Gone, NewProc
  <2> QED BY <2>1, QuietKeepsAlone DEF Moves
<1> QED
  BY <1>1, <1>2, <1>3

\* All other steps leave the files alone.
LEMMA OthersKeepAlone ==
  ASSUME Types, Alone, NEW p \in Procs,
         \/ Signal(p) \/ usb_init(p) \/ EnterLoop(p) \/ HandleSignals(p)
         \/ Terminate(p) \/ Fail(p)
         \/ \E k \in AllKinds : Begin(p, k)
         \/ \E d \in Devices : DeviceStep(p, d)
  PROVE  Alone'
<1> USE InstanceAssumption, ProcFacts DEF At, Goto, Quit
<1>1. CASE Signal(p)
  <2>1. Moves(p, {"gone"}) /\ UNCHANGED <<name, sock>>
    BY <1>1 DEF Signal, Moves, Types, Proc, Gone, NewProc, Holds
  <2> QED BY <2>1, QuietKeepsAlone DEF Moves
<1>2. CASE usb_init(p) \/ EnterLoop(p)
  <2>1. /\ Moves(p, {"enter", "run"}) /\ proc[p].pc \in {"init", "enter"}
        /\ UNCHANGED <<name, sock>>
    <3>1. CASE usb_init(p)
      BY <3>1 DEF usb_init, Moves, Types, Proc
    <3>2. CASE EnterLoop(p)
      BY <3>2 DEF EnterLoop, Moves, Types, Proc
    <3> QED BY <1>2, <3>1, <3>2
  <2> QED BY <2>1, QuietKeepsAlone DEF Moves
<1>3. CASE HandleSignals(p)
  <2>1. Moves(p, {"run", "stop"}) /\ proc[p].pc = "run" /\ UNCHANGED <<name, sock>>
    BY <1>3 DEF HandleSignals, usb_discover, Moves, Types, Proc
  <2> QED BY <2>1, QuietKeepsAlone DEF Moves
<1>4. CASE Terminate(p) \/ Fail(p)
  <2>1. Moves(p, {"gone"}) /\ UNCHANGED <<name, sock>>
    BY <1>4 DEF Terminate, Fail, Moves, Types, Proc, Gone, NewProc
  <2> QED BY <2>1, QuietKeepsAlone DEF Moves
<1>5. CASE \E k \in AllKinds : Begin(p, k)
  <2>1. Moves(p, {"open"}) /\ UNCHANGED <<name, sock>>
    BY <1>5 DEF Begin, Moves, Types, Proc, NewProc
  <2> QED BY <2>1, QuietKeepsAlone DEF Moves
<1>6. CASE \E d \in Devices : DeviceStep(p, d)
  <2>1. Moves(p, {"run"}) /\ proc[p].pc = "run" /\ UNCHANGED <<name, sock>>
    BY <1>6 DEF DeviceStep, DeviceArrived, DeviceLeft, DeviceUp, Moves, Types, Proc
  <2> QED BY <2>1, QuietKeepsAlone DEF Moves
<1> QED
  BY <1>1, <1>2, <1>3, <1>4, <1>5, <1>6

\* A race is never forgotten.
LEMMA RacedStays == [Next]_vars /\ raced' = 0 => raced = 0
<1> SUFFICES ASSUME [Next]_vars, raced' = 0 PROVE raced = 0
  OBVIOUS
<1>1. ASSUME NEW p \in Procs, Step(p) \/ Fail(p) PROVE raced = 0
  <2>1. CASE OpenLockfile(p)
    BY <2>1 DEF OpenLockfile
  <2>2. CASE GetLk(p) \/ Signal(p) \/ UnlinkLockfile(p) \/ CreateLockfile(p) \/ SetLk(p)
    BY <2>2 DEF GetLk, Signal, UnlinkLockfile, CreateLockfile, SetLk
  <2>3. CASE UnlinkSocket(p) \/ create_socket(p) \/ usb_init(p) \/ EnterLoop(p)
    BY <2>3 DEF UnlinkSocket, create_socket, usb_init, EnterLoop
  <2>4. CASE HandleSignals(p) \/ Terminate(p) \/ Fail(p)
    BY <2>4 DEF HandleSignals, Terminate, Fail
  <2> QED BY <1>1, <2>1, <2>2, <2>3, <2>4 DEF Step
<1>2. CASE \E p \in Procs, k \in AllKinds : Begin(p, k)
  BY <1>2 DEF Begin
<1>3. CASE \E p \in Procs, d \in Devices : DeviceStep(p, d)
  BY <1>3 DEF DeviceStep, DeviceArrived, DeviceLeft, DeviceUp
<1>4. CASE UNCHANGED vars
  BY <1>4 DEF vars
<1> QED
  BY <1>1, <1>2, <1>3, <1>4, InstanceAssumption
  DEF Next, Start, Plug, Unplug, AllKinds

\* Every step keeps the invariant.
LEMMA NextKeepsInv == TypeOK /\ Inv /\ [Next]_vars => Inv'
<1> SUFFICES ASSUME TypeOK, Inv, [Next]_vars PROVE Inv'
  OBVIOUS
<1>1. Types /\ Types'
  BY NextKeepsTypes DEF Inv, Types, TypeOK
<1>2. ASSUME raced' = 0 PROVE Alone'
  <2>1. Alone
    BY <1>1, <1>2, RacedStays DEF Inv
  <2>2. CASE UNCHANGED vars
    BY <2>1, <2>2 DEF vars, Alone
  <2>3. ASSUME NEW p \in Procs, Step(p) PROVE Alone'
    BY <1>1, <1>2, <2>1, <2>3, LockfileKeepsAlone, SocketKeepsAlone, OthersKeepAlone
    DEF Step
  <2>4. ASSUME NEW p \in Procs,
               \/ Fail(p) \/ \E k \in AllKinds : Begin(p, k)
               \/ \E d \in Devices : DeviceStep(p, d)
        PROVE  Alone'
    BY <1>1, <2>1, <2>4, OthersKeepAlone
  <2> QED
    BY <2>2, <2>3, <2>4, InstanceAssumption DEF Next, Start, Plug, Unplug, AllKinds
<1> QED
  BY <1>1, <1>2 DEF Inv

\* Every variable keeps its type.
THEOREM TypeCorrect == Spec => []TypeOK
<1>1. Init => TypeOK
  BY InstanceAssumption DEF Init, TypeOK, NewProc, Proc, Steps, AllKinds
<1> QED
  BY <1>1, NextKeepsTypes, PTL DEF Spec

\* The inductive invariant holds of every reachable state.
THEOREM Invariant == Spec => []Inv
<1>1. Init => Inv
  BY InitInv
<1>2. TypeOK /\ Inv /\ [Next]_vars => Inv'
  BY NextKeepsInv
<1> QED
  BY <1>1, <1>2, TypeCorrect, PTL DEF Spec

\* Without a race there is one instance at most, which is found by lock file and
\* socket.
THEOREM AtMostOneInstance == Spec => []OneInstance
BY Invariant, InvImplies, PTL

(***************************************************************************)
(* Discovery.                                                              *)
(***************************************************************************)
\* While nobody fails or is asked to exit, an instance goes on, so that the
\* signal that a later process has decided to send finds it, and one that only
\* came to make it exit never becomes an instance itself.
GoesOn ==
  \A p \in Procs :
    /\ proc[p].sig \subseteq {"USR2"} /\ proc[p].pc # "stop"
    /\ proc[p].pc = "signal" => Holds(proc[p].fd)
    /\ proc[p].pc \in Holding \cup {"create", "setlk"} => ~opt_exit(proc[p].kind)

Quiet == failed = 0 /\ asked = 0
Tends(p, d) == Looks(p, d) \/ Deaf(p)
Discovery == Quiet => GoesOn /\ \A d \in plugged : \E p \in Procs : Tends(p, d)

\* What a process may do in such a time: it changes itself only, keeps its kind,
\* remains an instance once it is one, and does not lose sight of a device.
Behaves(p) ==
  /\ \A q \in Procs : q # p => proc'[q] = proc[q]
  /\ proc[p].pc \in Holding => proc'[p].pc \in Holding
  /\ proc'[p].sig \subseteq {"USR2"} /\ proc'[p].pc # "stop"
  /\ proc'[p].pc = "signal" => Holds(proc'[p].fd)
  /\ proc'[p].pc \in Holding \cup {"create", "setlk"} => ~opt_exit(proc'[p].kind)
  /\ \A d \in plugged : Tends(p, d) => Tends(p, d)'

\* Then nobody loses sight of one.
LEMMA BehavingKeeps ==
  ASSUME GoesOn, NEW p \in Procs, Behaves(p)
  PROVE  /\ GoesOn'
         /\ \A d \in plugged : (\E q \in Procs : Tends(q, d)) => \E q \in Procs : Tends(q, d)'
<1>1. \A q \in Procs : Holds(q) => Holds(q)'
  BY DEF Holds, Behaves
<1>2. \A q \in Procs : q # p /\ Holds(proc[q].fd) => Holds(proc[q].fd)'
  BY <1>1 DEF Holds, Behaves
<1>3. GoesOn'
  <2> SUFFICES ASSUME NEW q \in Procs
      PROVE  /\ proc'[q].sig \subseteq {"USR2"} /\ proc'[q].pc # "stop"
             /\ proc'[q].pc = "signal" => Holds(proc[q].fd)'
             /\ proc'[q].pc \in Holding \cup {"create", "setlk"} => ~opt_exit(proc'[q].kind)
    BY DEF GoesOn
  <2>1. CASE q = p
    BY <2>1 DEF Behaves, Holds
  <2>2. CASE q # p
    BY <1>2, <2>2 DEF GoesOn, Behaves
  <2> QED BY <2>1, <2>2
<1>4. \A q \in Procs, d \in plugged : q # p => (Tends(q, d) => Tends(q, d)')
  BY SMTT(30) DEF Behaves, Tends, Looks, Deaf
<1> QED BY <1>3, <1>4 DEF Behaves

\* Up to the main loop.
LEMMA StartsUp ==
  ASSUME TypeOK, GoesOn, Quiet', NEW p \in Procs,
         \/ OpenLockfile(p) \/ GetLk(p) \/ UnlinkLockfile(p) \/ CreateLockfile(p)
         \/ SetLk(p) \/ UnlinkSocket(p) \/ create_socket(p) \/ usb_init(p) \/ EnterLoop(p)
  PROVE  Behaves(p)
<1>0. proc \in [Procs -> Proc] /\ proc[p] \in Proc
  BY DEF TypeOK
<1> USE <1>0 DEF At, Goto, Quit, Behaves, GoesOn, Tends, Looks, Deaf, Proc
<1>1. CASE OpenLockfile(p)
  BY <1>1, SMTT(30) DEF OpenLockfile, Holding
<1>2. CASE GetLk(p)
  <2>1. CASE GoesOnToUnlink(p)
    <3>1. proc[p].pc = "getlk"
      BY <1>2 DEF GetLk
    <3> QED BY <1>2, <2>1, <3>1, Unlocked DEF GetLk, Holding, opt_exit
  <2>2. CASE /\ Holds(proc[p].fd)
             /\ IF opt_exit(proc[p].kind) \/ opt_disable_hotplug(proc[p].kind)
                THEN Goto(p, "signal") ELSE Quit(p)
    BY <1>2, <2>2 DEF GetLk, Holding, Gone, NewProc, Holds, opt_exit, opt_disable_hotplug
  <2> QED BY <1>2, <2>1, <2>2, Zenon DEF GetLk, GoesOnToUnlink
<1>3. CASE UnlinkLockfile(p)
  BY <1>3 DEF UnlinkLockfile, Holding, Gone, NewProc
<1>4. CASE CreateLockfile(p)
  BY <1>4 DEF CreateLockfile, Holding, Quiet
<1>5. CASE SetLk(p) \/ UnlinkSocket(p)
  BY <1>5 DEF SetLk, UnlinkSocket, Holding
<1>6. CASE create_socket(p)
  BY <1>6 DEF create_socket, Holding, Quiet
<1>7. CASE usb_init(p)
  BY <1>7 DEF usb_init, Holding
<1>8. CASE EnterLoop(p)
  BY <1>8 DEF EnterLoop, Holding
<1> QED
  BY <1>1, <1>2, <1>3, <1>4, <1>5, <1>6, <1>7, <1>8, Zenon

\* An instance in its main loop: it handles SIGUSR2 or is told by libusb.
LEMMA Runs ==
  ASSUME TypeOK, GoesOn, NEW p \in Procs,
         HandleSignals(p) \/ \E d \in Devices : DeviceStep(p, d)
  PROVE  Behaves(p)
<1>0. proc \in [Procs -> Proc] /\ proc[p] \in Proc
  BY DEF TypeOK
<1>1. CASE HandleSignals(p)
  <2> DEFINE r == [proc[p] EXCEPT !.sig = {}]
  <2>1. r \in Proc /\ r.pc = "run" /\ r.kind = proc[p].kind /\ r.fd = proc[p].fd /\ r.sig = {}
        /\ r.devs = proc[p].devs
    BY <1>0, <1>1 DEF HandleSignals, At, Proc
  <2>2. ~should_exit(p)
    BY DEF GoesOn, should_exit
  <2>3. proc' = [proc EXCEPT ![p] = IF should_discover(p) THEN usb_discover(r) ELSE r]
    BY <1>1, <2>2 DEF HandleSignals
  <2>4. ~opt_exit(proc[p].kind)
    BY <1>1 DEF GoesOn, HandleSignals, At, Holding
  <2>5. CASE should_discover(p)
    <3>1. proc'[p] = usb_discover(r) /\ \A q \in Procs : q # p => proc'[q] = proc[q]
      BY <1>0, <2>3, <2>5
    <3>2. /\ proc'[p].pc = "run" /\ proc'[p].kind = proc[p].kind /\ proc'[p].sig = {}
          /\ proc'[p].devs = plugged
      BY <2>1, <3>1 DEF usb_discover, Proc
    <3> QED BY <2>4, <3>1, <3>2, SMTT(30) DEF Behaves, Tends, Looks, Deaf, Holding
  <2>6. CASE ~should_discover(p)
    <3>1. proc'[p] = r /\ \A q \in Procs : q # p => proc'[q] = proc[q]
      BY <1>0, <2>3, <2>6
    <3>2. "USR2" \in proc[p].sig => ~opt_enable_exit(proc[p].kind)
      BY <2>6 DEF should_discover
    <3>3. \A d \in plugged : Tends(p, d) => \/ d \in proc[p].devs
                                             \/ ~opt_disable_hotplug(proc[p].kind)
                                             \/ ~opt_enable_exit(proc[p].kind)
      BY <1>1, <3>2 DEF Tends, Looks, Deaf, HandleSignals, At
    <3> HIDE DEF r
    <3> QED BY <2>1, <2>4, <3>1, <3>3 DEF Behaves, Tends, Looks, Deaf, Holding
  <2> QED BY <2>5, <2>6
<1>2. ASSUME NEW d \in Devices, DeviceStep(p, d) PROVE Behaves(p)
  <2>1. /\ proc[p].pc = "run" /\ \A q \in Procs : q # p => proc'[q] = proc[q]
        /\ proc'[p].pc = "run" /\ proc'[p].kind = proc[p].kind /\ proc'[p].sig = proc[p].sig
    BY <1>0, <1>2 DEF DeviceStep, DeviceArrived, DeviceLeft, DeviceUp, At, Proc
  <2>2. proc[p].devs \cap plugged \subseteq proc'[p].devs
    BY <1>0, <1>2 DEF DeviceStep, DeviceArrived, DeviceLeft, DeviceUp, At, Proc
  <2>3. ~opt_exit(proc[p].kind) /\ proc[p].sig \subseteq {"USR2"}
    BY <2>1 DEF GoesOn, Holding
  <2> QED BY <2>1, <2>2, <2>3 DEF Behaves, Tends, Looks, Deaf, Holding
<1> QED
  BY <1>1, <1>2

\* The SIGUSR2 of p takes the place of p.
LEMMA Signals ==
  ASSUME TypeOK, GoesOn, Quiet', NEW p \in Procs, Signal(p)
  PROVE  /\ GoesOn'
         /\ \A d \in plugged : (\E q \in Procs : Tends(q, d)) => \E q \in Procs : Tends(q, d)'
<1>0. proc \in [Procs -> Proc] /\ \A r \in Procs : proc[r] \in Proc
  BY DEF TypeOK
<1>1. PICK q \in Procs : q = proc[p].fd /\ Holds(q)
  BY DEF Signal, GoesOn, At, Holds
<1>a. ~opt_exit(proc[p].kind) /\ SignalOf(proc[p].kind) = "USR2"
  BY DEF Signal, Quiet, SignalOf
<1>2. q # p
  BY <1>1 DEF Holds, Signal, At, Holding
<1>3. /\ proc'[p] = Gone /\ proc'[q] = [proc[q] EXCEPT !.sig = @ \cup {"USR2"}]
      /\ \A r \in Procs \ {p, q} : proc'[r] = proc[r]
  BY <1>1, <1>a, <1>2 DEF Signal
<1>4. /\ proc'[q].pc = proc[q].pc /\ proc'[q].kind = proc[q].kind
      /\ proc'[q].fd = proc[q].fd /\ proc'[q].sig = proc[q].sig \cup {"USR2"}
  BY <1>0, <1>1, <1>3 DEF Proc
<1>5. proc'[p].pc = "gone" /\ proc'[p].sig = {}
  BY <1>3, SMTT(30) DEF Gone, NewProc
<1>6. \A r \in Procs : Holds(r) => Holds(r)'
  BY <1>1, <1>3, <1>4, Zenon DEF Holds, Signal, At, Holding
<1>7. GoesOn'
  <2>1. ASSUME NEW r \in Procs \ {p, q}, proc'[r].pc = "signal" PROVE Holds(proc[r].fd)'
    BY <1>3, <1>6, <2>1 DEF GoesOn, Holds
  <2>2. proc[q].pc \in Holding /\ proc[q].pc # "signal"
    BY <1>1 DEF Holds, Holding
  <2>3. \A r \in Procs : proc'[r].sig \subseteq {"USR2"} /\ proc'[r].pc # "stop"
    <3>1. ASSUME NEW r \in Procs
          PROVE  /\ proc'[r].pc # "stop"
                 /\ proc'[r].sig \subseteq proc[r].sig \cup {"USR2"}
      <4>1. CASE r = p
        BY <1>5, <4>1
      <4>2. CASE r = q
        BY <1>4, <4>2 DEF GoesOn
      <4>3. CASE r \notin {p, q}
        BY <1>3, <4>3 DEF GoesOn
      <4> QED BY <4>1, <4>2, <4>3
    <3> QED BY <3>1 DEF GoesOn
  <2>4. \A r \in Procs : proc'[r].pc = "signal" => Holds(proc[r].fd)'
    BY <1>4, <1>5, <2>1, <2>2
  <2>5. \A r \in Procs : proc'[r].pc \in Holding \cup {"create", "setlk"}
                           => ~opt_exit(proc'[r].kind)
    <3> SUFFICES ASSUME NEW r \in Procs,
                        proc'[r].pc \in Holding \cup {"create", "setlk"}
                 PROVE  ~opt_exit(proc'[r].kind)
      OBVIOUS
    <3>1. r # p
      BY <1>5 DEF Holding
    <3>2. proc'[r].pc = proc[r].pc /\ proc'[r].kind = proc[r].kind
      BY <1>3, <1>4, <3>1, Zenon
    <3> QED BY <3>2, Zenon DEF GoesOn
  <2> QED BY <2>3, <2>4, <2>5 DEF GoesOn
<1>8. \A d : Tends(q, d)'
  <2>1. proc[q].pc \in Holding \ {"stop"} /\ ~opt_exit(proc[q].kind)
    BY <1>1 DEF Holds, GoesOn
  <2> QED BY <1>4, <2>1 DEF Tends, Looks, Deaf, Holding
<1> QED
  BY <1>1, <1>7, <1>8

\* A device that is there is found, or somebody is about to find it, as long as
\* no instance failed or was asked to exit, and the one that runs does not ignore
\* SIGUSR2 with discovery disabled (-n without -z).
THEOREM NoDeviceForgotten == Spec => []DiscoveryUnderWay
<1>1. Init => Discovery
  BY InstanceAssumption DEF Init, Discovery, GoesOn, NewProc, Holding
<1>2. ASSUME TypeOK, TypeOK', Discovery, [Next]_vars PROVE Discovery'
  <2> SUFFICES ASSUME Quiet' PROVE Discovery'
    BY DEF Discovery
  <2>1. Quiet
    <3>1. ASSUME NEW p \in Procs, Step(p) \/ Fail(p) PROVE Quiet
      <4>1. CASE OpenLockfile(p) \/ GetLk(p) \/ Signal(p) \/ UnlinkLockfile(p)
        BY <4>1 DEF Quiet, OpenLockfile, GetLk, Signal, UnlinkLockfile
      <4>2. CASE CreateLockfile(p) \/ SetLk(p) \/ UnlinkSocket(p) \/ create_socket(p)
        BY <4>2 DEF Quiet, CreateLockfile, SetLk, UnlinkSocket, create_socket
      <4>3. CASE \/ usb_init(p) \/ EnterLoop(p) \/ HandleSignals(p) \/ Terminate(p)
                 \/ Fail(p)
        BY <4>3 DEF Quiet, usb_init, EnterLoop, HandleSignals, Terminate, Fail
      <4> QED BY <3>1, <4>1, <4>2, <4>3 DEF Step
    <3>2. ASSUME NEW p \in Procs, \/ \E k \in AllKinds : Begin(p, k)
                                  \/ \E d \in Devices : DeviceStep(p, d)
          PROVE  Quiet
      BY <3>2, Zenon DEF Quiet, Begin, DeviceStep, DeviceArrived, DeviceLeft, DeviceUp
    <3>3. CASE UNCHANGED vars
      BY <3>3 DEF vars, Quiet
    <3> QED
      BY <1>2, <3>1, <3>2, <3>3, InstanceAssumption DEF Next, Start, Plug, Unplug, AllKinds
  <2>2. GoesOn /\ \A d \in plugged : \E p \in Procs : Tends(p, d)
    BY <1>2, <2>1 DEF Discovery
  <2>3. ASSUME NEW p \in Procs, Behaves(p), plugged' \subseteq plugged PROVE Discovery'
    BY <2>2, <2>3, BehavingKeeps DEF Discovery
  <2>4. ASSUME NEW p \in Procs,
               \/ OpenLockfile(p) \/ GetLk(p) \/ UnlinkLockfile(p) \/ CreateLockfile(p)
               \/ SetLk(p) \/ UnlinkSocket(p) \/ create_socket(p) \/ usb_init(p)
               \/ EnterLoop(p)
        PROVE  Discovery'
    <3>1. plugged' = plugged
      BY <2>4 DEF OpenLockfile, GetLk, UnlinkLockfile, CreateLockfile, SetLk, UnlinkSocket,
                  create_socket, usb_init, EnterLoop
    <3> QED BY <1>2, <2>2, <2>3, <2>4, <3>1, StartsUp
  <2>5. ASSUME NEW p \in Procs, HandleSignals(p) \/ \E d \in Devices : DeviceStep(p, d)
        PROVE  Discovery'
    <3>1. plugged' = plugged
      BY <2>5, Zenon DEF HandleSignals, DeviceStep, DeviceArrived, DeviceLeft, DeviceUp
    <3> QED BY <1>2, <2>2, <2>3, <2>5, <3>1, Runs
  <2>6. ASSUME NEW p \in Procs, Signal(p) PROVE Discovery'
    <3>1. plugged' = plugged
      BY <2>6 DEF Signal
    <3> QED BY <1>2, <2>2, <2>6, <3>1, Signals DEF Discovery
  <2>7. ASSUME NEW p \in Procs, Terminate(p) \/ Fail(p) PROVE FALSE
    BY <2>2, <2>7 DEF Terminate, At, GoesOn, Fail, Quiet
  <2>8. ASSUME NEW p \in Procs, NEW k \in AllKinds, Begin(p, k),
               \/ plugged' \subseteq plugged
               \/ k = "udev" /\ \E d \in Devices : plugged' = plugged \cup {d}
        PROVE  Discovery'
    <3>1. proc'[p] = NewProc("open", k) /\ \A q \in Procs : q # p => proc'[q] = proc[q]
      BY <1>2, <2>8 DEF Begin, TypeOK
    <3>2. proc'[p].pc = "open" /\ proc'[p].kind = k /\ proc'[p].sig = {}
      BY <3>1, SMTT(30) DEF NewProc
    <3>3. Behaves(p)
      BY <2>8, <3>1, <3>2 DEF Behaves, Begin, At, Tends, Looks, Deaf, Holding
    <3>4. GoesOn' /\ \A d \in plugged : \E q \in Procs : Tends(q, d)'
      BY <2>2, <3>3, BehavingKeeps
    <3>5. k = "udev" => \A d : Tends(p, d)'
      BY <3>2, SMTT(30) DEF Tends, Looks, Deaf
    <3> QED BY <2>8, <3>4, <3>5 DEF Discovery
  <2>9. CASE UNCHANGED vars
    BY <1>2, <2>9 DEF vars, Discovery, Quiet, GoesOn, Tends, Looks, Deaf, Holds
  <2> QED
    BY <1>2, <2>4, <2>5, <2>6, <2>7, <2>8, <2>9, InstanceAssumption
    DEF Next, Step, Start, Plug, Unplug, AllKinds
<1>3. TypeOK /\ Discovery => DiscoveryUnderWay
  BY DEF TypeOK, Discovery, Quiet, DiscoveryUnderWay, Tends
<1> QED
  BY <1>1, <1>2, <1>3, TypeCorrect, PTL DEF Spec

=============================================================================
