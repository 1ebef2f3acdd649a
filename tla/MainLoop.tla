----------------------------- MODULE MainLoop -----------------------------
(***************************************************************************)
(* main_loop: the timeout it computes, the descriptors it hands to ppoll   *)
(* and the order in which it serves them, the signals it takes only there, *)
(* and what it does when ppoll times out.  Clients are told apart by who   *)
(* they are, the daemon tells them apart by descriptor.  What USB events   *)
(* and clients do is any effect on the table of clients and on the ACKs    *)
(* that connections owe.                                                   *)
(***************************************************************************)
EXTENDS Integers, FiniteSets

CONSTANTS
  Fds,          \* descriptors, numbers, that clients may have
  Clients,      \* numbers for the client processes
  AckTimeout,   \* ACK_TIMEOUT
  PollTime,     \* DEVICE_POLL_TIME
  Far,          \* the timeout with nothing to wait for
  MaxFailures   \* failures of libusb_get_device_list in a row that are forgiven

ASSUME LoopAssumption ==
  /\ Fds \subseteq Nat /\ Clients \subseteq Nat \ {0}
  /\ AckTimeout \in Nat /\ PollTime \in Nat \ {0} /\ MaxFailures \in Nat
  /\ Far \in Nat /\ AckTimeout < Far /\ PollTime < Far

NoClient == 0

VARIABLES
  pc,               \* where main_loop is
  own,              \* whose descriptor each one is
  polled,           \* the same when pollfds was filled
  rev,              \* of "listen" and "usb", those with revents still to be seen
  revc,             \* client descriptors with revents still to be seen
  mixed,            \* 1 once a client was given what ppoll reported of another
  to,               \* what is left of the timeout
  pending, age,     \* CONN_ACK_PENDING, time since last_ack_time, of each client
  polling, rem,     \* device_polling, time until next_dev_poll_time
  devlist_failures,
  atomic,           \* 1 if the system has a ppoll, 0 with the one in main.c
  opt_enable_exit,  \* 1 if started with --enable-exit
  sig,              \* signals pending, of SIGTERM and SIGUSR2
  should_exit, should_discover,
  tried             \* 1 if usb_discover ran since the last SIGUSR2

table == <<own, pending, age>>
discovery == <<rem, devlist_failures, tried>>
signals == <<sig, should_exit, should_discover>>
config == <<polling, atomic, opt_enable_exit>>
vars == <<pc, polled, rev, revc, mixed, to, table, discovery, signals, config>>

Nobody == [f \in Fds |-> NoClient]
Present == {own[f] : f \in Fds} \ {NoClient}

Init ==
  /\ pc = "top" /\ own = Nobody /\ polled = Nobody /\ rev = {} /\ revc = {}
  /\ mixed = 0 /\ to = 0
  /\ pending = [c \in Clients |-> 0] /\ age = [c \in Clients |-> 0]
  /\ polling \in {0, 1} /\ atomic \in {0, 1} /\ opt_enable_exit \in {0, 1}
  /\ rem = PollTime /\ devlist_failures = 0
  /\ sig = {} /\ should_exit = 0 /\ should_discover = 0 /\ tried = 1

(***************************************************************************)
(* Timeouts.                                                               *)
(***************************************************************************)
Owing == {c \in Present : pending[c] = 1}

NotClamped ==
  IF Owing = {} THEN Far
  ELSE LET oldest == CHOOSE a \in {age[c] : c \in Owing} : \A c \in Owing : age[c] <= a
       IN  AckTimeout - oldest

YoungestCounts ==
  IF Owing = {} THEN Far
  ELSE LET a == CHOOSE a \in {age[c] : c \in Owing} : \A c \in Owing : age[c] >= a
       IN  IF a > AckTimeout THEN 0 ELSE AckTimeout - a

\* device_get_timeout: until the oldest ACK that is owed is due.
device_get_timeout ==
  IF Owing = {} THEN Far
  ELSE LET oldest == CHOOSE a \in {age[c] : c \in Owing} : \A c \in Owing : age[c] <= a
       IN  IF oldest > AckTimeout THEN 0 ELSE AckTimeout - oldest

dev_poll_remain_ms == IF polling = 0 THEN Far ELSE rem

\* libusb has a timeout of its own to be called in time for, or none (Far).
usb_get_timeout(msec) == IF msec > dev_poll_remain_ms THEN dev_poll_remain_ms ELSE msec

\* The smaller of the two.
Timeout(msec) ==
  IF device_get_timeout < usb_get_timeout(msec) THEN device_get_timeout
  ELSE usb_get_timeout(msec)

TopForever ==
  /\ pc = "top" /\ pc' = "ppoll" /\ polled' = own
  /\ \E msec \in {0, Far} : to' = Timeout(msec)
  /\ UNCHANGED <<rev, revc, mixed, table, discovery, signals, config>>

\* The head of the loop, up to ppoll.
Top ==
  /\ pc = "top"
  /\ \/ /\ should_exit = 1 /\ pc' = "over" /\ UNCHANGED <<polled, to>>
     \/ /\ should_exit = 0 /\ pc' = "ppoll" /\ polled' = own
        /\ \E msec \in {0, Far} : to' = Timeout(msec)
  /\ UNCHANGED <<rev, revc, mixed, table, discovery, signals, config>>

(***************************************************************************)
(* What runs in an iteration.                                              *)
(***************************************************************************)
\* Clients in K are closed, those in A come to owe an ACK, those in S sent one.
Table(K, A, S) ==
  /\ own' = [f \in Fds |-> IF own[f] \in K THEN NoClient ELSE own[f]]
  /\ pending' = [c \in Clients |-> IF c \in K \cup S THEN 0
                                   ELSE IF c \in A THEN 1 ELSE pending[c]]
  /\ age' = [c \in Clients |-> IF c \in K \cup S THEN 0 ELSE age[c]]

\* usb_discover: the list of devices could not be had, or it was scanned.  (Past
\* the limit the count makes no difference and is left there.)
ListFails ==
  /\ devlist_failures' = IF devlist_failures > MaxFailures THEN devlist_failures
                         ELSE devlist_failures + 1
  /\ rem' = IF devlist_failures' > MaxFailures THEN rem ELSE PollTime
  /\ tried' = 1
Scanned == devlist_failures' = 0 /\ rem' = PollTime /\ tried' = 1
TooMany == devlist_failures >= MaxFailures

\* libusb_handle_events_timeout, reap_dead_devices and, when it is time,
\* usb_discover; the loop goes on at "next" or, on an error, ends.
usb_process(next) ==
  \/ /\ pc' = "over" /\ UNCHANGED <<discovery, table>>
  \/ \E K, A \in {{}} \cup {{c} : c \in Present} :
       /\ Table(K, A, {})
       /\ \/ dev_poll_remain_ms > 0 /\ pc' = next /\ UNCHANGED discovery
          \/ dev_poll_remain_ms <= 0 /\ pc' = next /\ Scanned
          \/ /\ dev_poll_remain_ms <= 0 /\ ListFails
             /\ pc' = IF TooMany THEN "over" ELSE next

\* device_check_timeouts: connections whose ACK cannot be sent (F) go.
Expired == {c \in Owing : age[c] > AckTimeout}

\* client_accept: the lowest descriptor.  When accept() fails, because there is
\* none left or the client has gone, main_loop ends.  Clients are numbered as
\* they come.
Least(S) == CHOOSE x \in S : \A y \in S : x <= y
Free == {f \in Fds : own[f] = NoClient}
Newcomers == Clients \ (Present \cup {polled[f] : f \in Fds})
client_accept ==
  \/ /\ pc' = "over" /\ UNCHANGED table
  \/ /\ Free # {} /\ UNCHANGED <<pc, pending, age>>
     /\ Newcomers # {} /\ own' = [own EXCEPT ![Least(Free)] = Least(Newcomers)]

\* client_process: of the client that has the descriptor now, if any.  It may
\* go, have an ACK sent along with data, or come to owe one.
client_process(f) ==
  /\ mixed' = IF own[f] \notin {NoClient, polled[f]} THEN 1 ELSE mixed
  /\ LET who == {own[f]} \ {NoClient}
     IN  \/ Table(who, {}, {}) \/ Table({}, who, {}) \/ Table({}, {}, who)
         \/ UNCHANGED table

(***************************************************************************)
(* The results of ppoll.                                                   *)
(***************************************************************************)
\* Descriptors are ready; a pending signal stays so.
Ready ==
  /\ pc = "ppoll" /\ pc' = "fds"
  /\ rev' \in SUBSET {"listen", "usb"}
  /\ revc' \in SUBSET {f \in Fds : polled[f] # NoClient}
  /\ rev' # {} \/ revc' # {}
  /\ to' = 0
  /\ UNCHANGED <<polled, mixed, table, discovery, signals, config>>

\* handle_signal, for all that is pending and, with usr1, for a SIGUSR1.  Without
\* --enable-exit SIGUSR1 and SIGUSR2 are ignored, and SIGUSR1 is while a device
\* is attached.
handle_signal(usr1) ==
  /\ sig # {} \/ usr1 = 1
  /\ sig' = {}
  /\ \/ should_exit' = IF "TERM" \in sig THEN 1 ELSE should_exit
     \/ usr1 = 1 /\ opt_enable_exit = 1 /\ should_exit' = 1

\* should_discover after it.
Noted == IF "USR2" \in sig /\ opt_enable_exit = 1 THEN 1 ELSE should_discover

NoDiscovery ==
  /\ pc = "ppoll"
  /\ \E usr1 \in {0, 1} : handle_signal(usr1)
  /\ pc' = IF should_exit' = 1 THEN "over" ELSE "top"
  /\ should_discover' = 0
  /\ to' = 0 /\ polled' = Nobody
  /\ UNCHANGED <<rev, revc, mixed, table, discovery, config>>

\* EINTR.  What usb_discover returns is not looked at.
Interrupted ==
  /\ pc = "ppoll"
  /\ \E usr1 \in {0, 1} : handle_signal(usr1)
  /\ \/ /\ should_exit' = 1 /\ pc' = "over"
        /\ should_discover' = Noted
        /\ UNCHANGED <<table, discovery>>
     \/ /\ should_exit' = 0 /\ pc' = "top"
        /\ should_discover' = 0
        /\ IF Noted = 1
           THEN \/ ListFails /\ UNCHANGED table
                \/ Scanned /\ \E K \in {{}} \cup {{c} : c \in Present} : Table(K, {}, {})
           ELSE UNCHANGED <<table, discovery>>
  /\ to' = 0 /\ polled' = Nobody
  /\ UNCHANGED <<rev, revc, mixed, config>>

\* The ppoll of main.c unmasks the signals before it calls poll: what is pending
\* then, or arrives before poll does, is handled and interrupts nothing.
FallbackUnmasks ==
  /\ pc = "ppoll" /\ atomic = 0
  /\ \E usr1 \in {0, 1} : handle_signal(usr1)
  /\ should_discover' = Noted
  /\ UNCHANGED <<pc, polled, rev, revc, mixed, to, table, discovery, config>>

ChecksOnlyUsb ==
  /\ pc = "ppoll" /\ to = 0 /\ sig = {}
  /\ usb_process("top")
  /\ polled' = Nobody
  /\ UNCHANGED <<rev, revc, mixed, to, signals, config>>

\* Nothing is ready in time: usb_process, then device_check_timeouts.
TimedOut ==
  /\ pc = "ppoll" /\ to = 0 /\ sig = {}
  /\ usb_process("expire")
  /\ polled' = Nobody
  /\ UNCHANGED <<rev, revc, mixed, to, signals, config>>

\* device_check_timeouts: ACKs are sent, or fail and end their connection.
device_check_timeouts ==
  /\ pc = "expire" /\ pc' = "top"
  /\ \E failed \in SUBSET Expired : Table(failed, {}, Expired \ failed)
  /\ UNCHANGED <<polled, rev, revc, mixed, to, discovery, signals, config>>

UsbFirst ==
  IF "usb" \in rev THEN "usb" ELSE IF "listen" \in rev THEN "listen" ELSE "clients"

\* The order of pollfds: the listening socket, USB, the clients.
Turn ==
  IF "listen" \in rev THEN "listen" ELSE IF "usb" \in rev THEN "usb" ELSE "clients"

\* One round of the for loop that finds revents.
ServeListen ==
  /\ pc = "fds" /\ rev # {} /\ Turn = "listen"
  /\ client_accept
  /\ rev' = rev \ {"listen"}
  /\ UNCHANGED <<polled, revc, mixed, to, discovery, signals, config>>

ServeUsb ==
  /\ pc = "fds" /\ rev # {} /\ Turn = "usb"
  /\ usb_process("fds")
  /\ rev' = rev \ {"usb"}
  /\ UNCHANGED <<polled, revc, mixed, to, signals, config>>

ServeClient(f) ==
  /\ pc = "fds" /\ rev = {} /\ f \in revc
  /\ client_process(f)
  /\ revc' = revc \ {f}
  /\ UNCHANGED <<pc, polled, rev, to, discovery, signals, config>>

Served ==
  /\ pc = "fds" /\ rev = {} /\ revc = {}
  /\ pc' = "top" /\ polled' = Nobody
  /\ UNCHANGED <<rev, revc, mixed, to, table, discovery, signals, config>>

(***************************************************************************)
(* The rest of the world.                                                  *)
(***************************************************************************)
\* Signals are masked outside of ppoll, so one that comes earlier comes there.
\* (SIGUSR1 comes when it is handled: no property is about how long it pends.)
Signal(s) ==
  /\ pc = "ppoll" /\ s \notin sig
  /\ sig' = sig \cup {s}
  /\ tried' = IF s = "USR2" THEN 0 ELSE tried
  /\ UNCHANGED <<pc, polled, rev, revc, mixed, to, table, rem, devlist_failures,
                 should_exit, should_discover, config>>

\* A unit of time.  Clocks stop where nobody can tell any more.
Older ==
  /\ age' = [c \in Clients |-> IF c \notin Present \/ age[c] > AckTimeout THEN age[c]
                               ELSE age[c] + 1]
  /\ rem' = IF rem = 0 \/ polling = 0 THEN rem ELSE rem - 1

\* It passes in ppoll, or the rest of the loop takes it, which is counted at its
\* head.
Sleep ==
  /\ pc = "ppoll" /\ to > 0
  /\ sig = {}
  /\ Older /\ to' = to - 1
  /\ UNCHANGED <<pc, polled, rev, revc, mixed, own, pending, devlist_failures, tried,
                 signals, config>>

Work ==
  /\ pc = "top" \/ (pc = "ppoll" /\ to = 0)
  /\ Older
  /\ UNCHANGED <<pc, polled, rev, revc, mixed, to, own, pending, devlist_failures, tried,
                 signals, config>>

Over == pc = "over" /\ UNCHANGED vars

Loop ==
  \/ Top \/ Ready \/ Interrupted \/ FallbackUnmasks \/ TimedOut \/ device_check_timeouts
  \/ ServeListen \/ ServeUsb \/ (\E f \in Fds : ServeClient(f)) \/ Served \/ Sleep

Next == Loop \/ Work \/ (\E s \in {"TERM", "USR2"} : Signal(s)) \/ Over

\* The loop goes on and time passes.
Spec == Init /\ [][Next]_vars /\ WF_vars(Loop) /\ SF_vars(Work)

(***************************************************************************)
(* Properties.                                                             *)
(***************************************************************************)
\* The types; no timeout is negative, which ppoll would take for none.
TypeOK ==
  /\ pc \in {"top", "ppoll", "fds", "expire", "over"}
  /\ own \in [Fds -> Clients \cup {NoClient}] /\ polled \in [Fds -> Clients \cup {NoClient}]
  /\ rev \subseteq {"listen", "usb"} /\ revc \subseteq Fds /\ mixed \in {0, 1}
  /\ to \in 0..Far
  /\ pending \in [Clients -> {0, 1}] /\ age \in [Clients -> 0..(AckTimeout + 1)]
  /\ polling \in {0, 1} /\ atomic \in {0, 1} /\ opt_enable_exit \in {0, 1}
  /\ rem \in 0..PollTime
  /\ devlist_failures \in 0..(MaxFailures + 1) /\ tried \in {0, 1}
  /\ sig \subseteq {"TERM", "USR2"} /\ should_exit \in {0, 1} /\ should_discover \in {0, 1}

\* What ppoll reported of one client is never given to another that has got its
\* descriptor since: main_loop accepts before it runs anything that closes a
\* descriptor.  (main_loop, client_process.)
ServedIsPolled == mixed = 0

\* The loop never sleeps past the time at which an ACK or the next look for
\* devices is due.  (main_loop, device_get_timeout, usb_get_timeout.)
WakesInTime ==
  [][Sleep => /\ \A c \in Owing : age'[c] <= AckTimeout
              /\ polling = 1 => rem > 0]_vars

\* With --enable-exit, SIGUSR2 is never lost: until usb_discover runs for it, or
\* the loop ends, it is pending or noted, whether it came before, in or after a
\* poll() that something else ended, and whichever ppoll there is.
\* (handle_signal, main_loop, ppoll.)
DiscoveryKept ==
  opt_enable_exit = 1 =>
    tried = 1 \/ "USR2" \in sig \/ should_discover = 1 \/ pc = "over"

\* If ppoll times out again and again, every ACK that is owed is sent, although
\* the timeout ends a moment before device_check_timeouts calls it expired, and
\* only a loop that is never idle can hold it back.  (main_loop.)
AckGoesOut ==
  []<><<TimedOut>>_vars =>
    \A c \in Clients : (c \in Owing) ~> (c \notin Owing)

\* A loop that is not always busy ends on SIGTERM, also with the ppoll of main.c.
ExitHeeded ==
  []<><<TimedOut \/ Interrupted>>_vars => (("TERM" \in sig) ~> (pc = "over"))

\* With --enable-exit and the ppoll of the system, SIGUSR2 leads to a look for
\* devices; without --enable-exit handle_signal ignores it.
DiscoveryHeeded ==
  (opt_enable_exit = 1 /\ atomic = 1 /\ []<><<TimedOut \/ Interrupted>>_vars) =>
    (("USR2" \in sig) ~> (tried = 1 \/ pc = "over"))

=============================================================================
