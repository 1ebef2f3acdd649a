------------------------------ MODULE Instance ------------------------------
(***************************************************************************)
(* Several instances of the program against one lock file and one socket:  *)
(* main() from the lock file to main_loop, its control options, the        *)
(* signals instances send each other, and the devices of the one that      *)
(* runs.  Every system call on a shared file is a step of its own.         *)
(*                                                                         *)
(* A file is only ever locked by the process that created it with O_EXCL,  *)
(* so a lock file is told by that process.  A pid is used once.            *)
(***************************************************************************)
EXTENDS Integers

CONSTANTS
  Procs,     \* processes, by pid
  Devices,   \* devices that may be plugged in
  Kinds,     \* ways in which the program is started, see AllKinds
  NoFile,    \* no lock file, no socket
  Plain      \* a lock file that nobody locks: it was made to look for a lock

\* -n and -z are independent of each other.  "udev": -u or -n -z; "disable": -n;
\* "systemd": -s or -z; "plain": neither; "exit": --exit; "force": --force-exit.
AllKinds == {"udev", "disable", "systemd", "plain", "exit", "force"}

ASSUME InstanceAssumption ==
  /\ Procs \subseteq Nat /\ Kinds \subseteq AllKinds
  /\ NoFile \notin Procs /\ Plain \notin Procs /\ NoFile # Plain

opt_disable_hotplug(k) == k \in {"udev", "disable"}
opt_enable_exit(k) == k \in {"udev", "systemd"}
opt_exit(k) == k \in {"exit", "force"}

VARIABLES
  proc,     \* process -> see Proc
  name,     \* what the name of the lock file leads to
  sock,     \* process whose socket the name of the socket leads to
  plugged,  \* devices that are there
  raced,    \* 1 once two processes were between open() and their lock at a time
  failed,   \* 1 once one failed or was killed
  asked     \* 1 once one was asked to exit

vars == <<proc, name, sock, plugged, raced, failed, asked>>

\* Between open() and the end of its dealings with the lock file; with the lock.
Window == {"getlk", "unlink", "create", "setlk"}
Holding == {"unbind", "bind", "init", "enter", "run", "stop"}
Steps == {"new", "open", "signal", "gone"} \cup Window \cup Holding

Proc == [
  pc   : Steps,                            \* where main() is
  kind : AllKinds,                         \* how it was started
  fd   : Procs \cup {NoFile, Plain},       \* the lock file it opened
  sig  : SUBSET {"USR1", "USR2", "TERM"},  \* pending: masked outside of ppoll
  devs : SUBSET Devices,                   \* devices it has found ...
  up   : SUBSET Devices]                   \* ... those out of MUXDEV_INIT

NewProc(step, k) ==
  [pc |-> step, kind |-> k, fd |-> NoFile, sig |-> {}, devs |-> {}, up |-> {}]
Gone == NewProc("gone", "exit")

Holds(q) == q \in Procs /\ proc[q].pc \in Holding
InWindow == {p \in Procs : proc[p].pc \in Window}

At(p, step) == proc[p].pc = step
Goto(p, step) == proc' = [proc EXCEPT ![p].pc = step]
Quit(p) == proc' = [proc EXCEPT ![p] = Gone]

Init ==
  /\ proc = [p \in Procs |-> NewProc("new", "exit")]
  /\ name = NoFile /\ sock = NoFile
  /\ plugged = {}
  /\ raced = 0 /\ failed = 0 /\ asked = 0

\* A process is started, with the next pid ...
Begin(p, k) ==
  /\ At(p, "new") /\ \A q \in Procs : q < p => ~At(q, "new")
  /\ proc' = [proc EXCEPT ![p] = NewProc("open", k)]
  /\ UNCHANGED <<name, sock, raced, failed, asked>>

\* ... by hand, or by the udev rules, with a device.
Start(p, k) == Begin(p, k) /\ UNCHANGED plugged

Plug(d, p) ==
  /\ d \notin plugged /\ plugged' = plugged \cup {d}
  /\ Begin(p, "udev")

Unplug(d, p) ==
  /\ d \in plugged /\ plugged' = plugged \ {d}
  /\ Begin(p, "exit")

(***************************************************************************)
(* The lock file.                                                          *)
(***************************************************************************)
\* open(O_CREAT).
OpenLockfile(p) ==
  /\ At(p, "open")
  /\ name' = IF name = NoFile THEN Plain ELSE name
  /\ proc' = [proc EXCEPT ![p] = [@ EXCEPT !.pc = "getlk", !.fd = name']]
  /\ raced' = IF InWindow # {} THEN 1 ELSE raced
  /\ UNCHANGED <<sock, plugged, failed, asked>>

TestOnlyToExit(p) ==
  /\ At(p, "getlk")
  /\ Goto(p, IF Holds(proc[p].fd) /\ opt_exit(proc[p].kind) THEN "signal" ELSE "unlink")
  /\ UNCHANGED <<name, sock, plugged, raced, failed, asked>>

\* F_GETLK, and the file is closed.  With a lock on it: one more instance is an
\* error, unless it has something to say to the one that runs.
GetLk(p) ==
  /\ At(p, "getlk")
  /\ \/ /\ ~Holds(proc[p].fd)
        /\ proc' = [proc EXCEPT ![p] = [@ EXCEPT !.pc = "unlink", !.fd = NoFile]]
     \/ /\ Holds(proc[p].fd)
        /\ IF opt_exit(proc[p].kind) \/ opt_disable_hotplug(proc[p].kind)
           THEN Goto(p, "signal") ELSE Quit(p)
  /\ UNCHANGED <<name, sock, plugged, raced, failed, asked>>

exit_signal(k) == IF k = "force" THEN "TERM" ELSE "USR1"
\* SIGUSR1 or SIGTERM from an instance with opt_exit, SIGUSR2 from another.
SignalOf(k) == IF opt_exit(k) THEN exit_signal(k) ELSE "USR2"

\* kill(lock.l_pid), which fails if that one has gone in the meantime.
Signal(p) ==
  /\ At(p, "signal")
  /\ LET q == proc[p].fd
     IN  proc' = [r \in Procs |->
                    IF r = p THEN Gone
                    ELSE IF r = q /\ Holds(q)
                    THEN [proc[q] EXCEPT !.sig = @ \cup {SignalOf(proc[p].kind)}]
                    ELSE proc[r]]
  /\ asked' = IF opt_exit(proc[p].kind) THEN 1 ELSE asked
  /\ UNCHANGED <<name, sock, plugged, raced, failed>>

\* unlink(), and the end of an instance with opt_exit: there is none to signal.
UnlinkLockfile(p) ==
  /\ At(p, "unlink")
  /\ name' = NoFile
  /\ IF opt_exit(proc[p].kind) THEN Quit(p) ELSE Goto(p, "create")
  /\ UNCHANGED <<sock, plugged, raced, failed, asked>>

\* daemonize(), and open(O_CREAT | O_EXCL), which fails on a file that is there.
CreateLockfile(p) ==
  /\ At(p, "create")
  /\ \/ name = NoFile /\ name' = p /\ Goto(p, "setlk") /\ UNCHANGED failed
     \/ name # NoFile /\ UNCHANGED name /\ Quit(p) /\ failed' = 1
  /\ UNCHANGED <<sock, plugged, raced, asked>>

\* F_SETLK on its own file, which nobody else locks; the pid is written.
SetLk(p) ==
  /\ At(p, "setlk")
  /\ Goto(p, "unbind")
  /\ UNCHANGED <<name, sock, plugged, raced, failed, asked>>

(***************************************************************************)
(* From the socket to main_loop.                                           *)
(***************************************************************************)
\* create_socket removes what is under the name of the socket ...
UnlinkSocket(p) ==
  /\ At(p, "unbind")
  /\ sock' = NoFile
  /\ Goto(p, "bind")
  /\ UNCHANGED <<name, plugged, raced, failed, asked>>

\* ... and binds, which fails if there is something again.
create_socket(p) ==
  /\ At(p, "bind")
  /\ \/ sock = NoFile /\ sock' = p /\ Goto(p, "init") /\ UNCHANGED failed
     \/ sock # NoFile /\ UNCHANGED sock /\ Quit(p) /\ failed' = 1
  /\ UNCHANGED <<name, plugged, raced, asked>>

\* usb_init finds the devices that are there.
usb_init(p) ==
  /\ At(p, "init")
  /\ proc' = [proc EXCEPT ![p] = [@ EXCEPT !.pc = "enter", !.devs = plugged]]
  /\ UNCHANGED <<name, sock, plugged, raced, failed, asked>>

EntersAfresh(p) ==
  /\ At(p, "enter")
  /\ proc' = [proc EXCEPT ![p] = [@ EXCEPT !.pc = "run", !.sig = {}]]
  /\ UNCHANGED <<name, sock, plugged, raced, failed, asked>>

\* The parent is told and main_loop entered, with the signals that have come
\* since they were masked still pending.
EnterLoop(p) ==
  /\ At(p, "enter")
  /\ Goto(p, "run")
  /\ UNCHANGED <<name, sock, plugged, raced, failed, asked>>

\* Some step of main() fails, or the process is killed, whatever it was doing:
\* its lock goes, its files stay.
Fail(p) ==
  /\ proc[p].pc \notin {"new", "gone"}
  /\ Quit(p)
  /\ failed' = 1
  /\ UNCHANGED <<name, sock, plugged, raced, asked>>

(***************************************************************************)
(* main_loop.                                                              *)
(***************************************************************************)
\* handle_signal: a reason to exit, to discover devices.
should_exit(p) ==
  \/ "TERM" \in proc[p].sig
  \/ "USR1" \in proc[p].sig /\ opt_enable_exit(proc[p].kind) /\ proc[p].up = {}
should_discover(p) == "USR2" \in proc[p].sig /\ opt_enable_exit(proc[p].kind)

\* usb_discover finds the devices that are there and drops the others.
usb_discover(r) == [r EXCEPT !.devs = plugged, !.up = @ \cap plugged]

\* ppoll lets the signals in and returns EINTR: exit comes before discovery.
HandleSignals(p) ==
  /\ At(p, "run") /\ proc[p].sig # {}
  /\ LET r == [proc[p] EXCEPT !.sig = {}]
     IN  proc' = [proc EXCEPT ![p] = IF should_exit(p) THEN [r EXCEPT !.pc = "stop"]
                                     ELSE IF should_discover(p) THEN usb_discover(r)
                                     ELSE r]
  /\ UNCHANGED <<name, sock, plugged, raced, failed, asked>>

\* usb_hotplug_cb: an arrival counts only with hotplug ...
DeviceArrived(p, d) ==
  /\ At(p, "run") /\ ~opt_disable_hotplug(proc[p].kind)
  /\ d \in plugged \ proc[p].devs
  /\ proc' = [proc EXCEPT ![p].devs = @ \cup {d}]
  /\ UNCHANGED <<name, sock, plugged, raced, failed, asked>>

\* ... and a device that has left is removed in any case.
DeviceLeft(p, d) ==
  /\ At(p, "run") /\ d \in proc[p].devs \ plugged
  /\ proc' = [proc EXCEPT ![p].devs = @ \ {d}, ![p].up = @ \ {d}]
  /\ UNCHANGED <<name, sock, plugged, raced, failed, asked>>

\* device_version_input: the device answers and becomes active.
DeviceUp(p, d) ==
  /\ At(p, "run") /\ d \in (proc[p].devs \cap plugged) \ proc[p].up
  /\ proc' = [proc EXCEPT ![p].up = @ \cup {d}]
  /\ UNCHANGED <<name, sock, plugged, raced, failed, asked>>

\* The shutdown is over and the process ends.
Terminate(p) ==
  /\ At(p, "stop")
  /\ Quit(p)
  /\ UNCHANGED <<name, sock, plugged, raced, failed, asked>>

\* What a process does by itself.
Step(p) ==
  \/ OpenLockfile(p) \/ GetLk(p) \/ Signal(p) \/ UnlinkLockfile(p) \/ CreateLockfile(p)
  \/ SetLk(p) \/ UnlinkSocket(p) \/ create_socket(p) \/ usb_init(p)
  \/ EnterLoop(p) \/ HandleSignals(p) \/ Terminate(p)

DeviceStep(p, d) == DeviceArrived(p, d) \/ DeviceLeft(p, d) \/ DeviceUp(p, d)

Next ==
  \E p \in Procs :
    \/ Step(p) \/ Fail(p)
    \/ \E k \in Kinds : Start(p, k)
    \/ \E d \in Devices :
         \/ "udev" \in Kinds /\ Plug(d, p)
         \/ "exit" \in Kinds /\ Unplug(d, p)
         \/ DeviceStep(p, d)

\* Processes are scheduled, and a main loop comes back to ppoll.
Fairness ==
  \A p \in Procs : WF_vars(Step(p)) /\ \A d \in Devices : WF_vars(DeviceArrived(p, d))

Spec == Init /\ [][Next]_vars /\ Fairness

(***************************************************************************)
(* Properties.                                                             *)
(***************************************************************************)
\* The types.
TypeOK ==
  /\ proc \in [Procs -> Proc]
  /\ name \in Procs \cup {NoFile, Plain} /\ sock \in Procs \cup {NoFile}
  /\ plugged \subseteq Devices
  /\ raced \in {0, 1} /\ failed \in {0, 1} /\ asked \in {0, 1}

\* There is one instance at most, whatever is killed and whatever files are left
\* behind, and it can be reached: the lock file leads to it, and so does the
\* socket; the unlink() calls of those that come later remove neither.  That is,
\* as long as no two processes were between the test for a lock and a lock of
\* their own at the same time.  (main, create_socket.)
OneInstance ==
  raced = 0 => \A p \in Procs :
    /\ Holds(p) => name = p /\ \A q \in Procs : Holds(q) => q = p
    /\ proc[p].pc \in {"init", "enter", "run", "stop"} => sock = p

Found(d) == \E p \in Procs : At(p, "run") /\ d \in proc[p].devs

\* An instance started with -n and without -z: nothing that is plugged in from
\* now on is found, because handle_signal ignores the SIGUSR2 of others.
Deaf(p) ==
  /\ proc[p].pc \in {"enter", "run"}
  /\ opt_disable_hotplug(proc[p].kind) /\ ~opt_enable_exit(proc[p].kind)

\* Discovery is not lost: a device plugged in at any time, also while an
\* instance starts up with its signals masked, is found by an instance, as long
\* as none was asked to exit, failed or raced, and the one that runs is not one
\* with -n and without -z.  (handle_signal, main_loop.)
FoundUnlessAsked ==
  \A d \in Devices :
    (d \in plugged) ~> \/ d \notin plugged \/ Found(d)
                       \/ raced + failed + asked > 0 \/ \E p \in Procs : Deaf(p)

\* Who will find d: a process that udev started and that has not signalled yet;
\* one that is about to become an instance; an instance that has found it, is told
\* of it by libusb, or has a SIGUSR2 pending that it will heed.
Looks(p, d) ==
  \/ proc[p].pc \in {"open", "getlk", "signal"} /\ proc[p].kind = "udev"
  \/ /\ proc[p].pc \in {"unlink", "create", "setlk", "unbind", "bind", "init"}
     /\ ~opt_exit(proc[p].kind)
  \/ /\ proc[p].pc \in {"enter", "run"}
     /\ \/ d \in proc[p].devs \/ ~opt_disable_hotplug(proc[p].kind)
        \/ "USR2" \in proc[p].sig /\ opt_enable_exit(proc[p].kind)

\* At no time is a device that is there nobody's business, as long as no instance
\* failed or was asked to exit: the SIGUSR2 of a second instance never goes to one
\* that has ended, whatever races there are for the lock file, nor to one that
\* ignores it, unless that was started with -n and without -z.
\* (main, handle_signal, main_loop.)
DiscoveryUnderWay ==
  failed + asked = 0 => \A d \in plugged : \E p \in Procs : Looks(p, d) \/ Deaf(p)

\* With hotplug disabled, "Starting another instance will trigger discovery
\* instead", and the udev rules start one with every device that is plugged in:
\* it is found, as long as no instance failed or raced.
PluggedIsFound ==
  \A d \in Devices :
    (d \in plugged) ~> (d \notin plugged \/ Found(d) \/ raced + failed > 0)

=============================================================================
