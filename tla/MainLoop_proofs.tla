-------------------------- MODULE MainLoop_proofs --------------------------
(***************************************************************************)
(* Proofs about MainLoop for any sets of descriptors and clients and for   *)
(* any timeouts.                                                           *)
(***************************************************************************)
EXTENDS MainLoop, WellFoundedInduction, TLAPS

\* Nothing is closed or accepted between the filling of pollfds and the first
\* look at the results, and that one is at the listening socket.
PolledIsCurrent ==
  pc = "ppoll" \/ (pc = "fds" /\ "listen" \in rev) => polled = own

\* While the results are looked at, a descriptor that was polled is its
\* client's, or nobody's any more.
NotTakenOver ==
  pc = "fds" =>
    /\ \A f \in Fds : polled[f] # NoClient => own[f] \in {NoClient, polled[f]}
    /\ \A f \in revc : polled[f] # NoClient

\* What is left of the timeout ends before anything is due.
InTime ==
  pc = "ppoll" /\ to > 0 =>
    /\ \A c \in Owing : age[c] + to <= AckTimeout
    /\ polling = 1 => to <= rem

Inv == TypeOK /\ PolledIsCurrent /\ NotTakenOver /\ ServedIsPolled /\ InTime /\ DiscoveryKept

\* A set of numbers has a least one.
LEMMA HasLeast ==
  ASSUME NEW S \in SUBSET Nat, S # {}
  PROVE  Least(S) \in S /\ \A y \in S : Least(S) <= y
<1> DEFINE R == {ss \in Nat \X Nat : ss[1] < ss[2]}
<1>1. IsWellFoundedOn(R, Nat)
  BY NatLessThanWellFounded, Zenon DEF OpToRel
<1> HIDE DEF R
<1>2. PICK x \in S : \A y \in S : ~ (<<y, x>> \in R)
  BY <1>1, WFMin, Zenon
<1>3. \A y \in S : x <= y
  <2> TAKE y \in S
  <2>1. y \in Nat /\ x \in Nat
    OBVIOUS
  <2>2. <<y, x>> \in R <=> y < x
    BY <2>1, Zenon DEF R
  <2> QED BY <1>2, <2>1, <2>2
<1> QED BY <1>3, Zenon DEF Least

\* One that has a bound has a greatest one.
LEMMA HasGreatest ==
  ASSUME NEW b \in Nat, NEW S \in SUBSET (0..b), S # {}
  PROVE  \E a \in S : \A y \in S : y <= a
<1> DEFINE T == {b - y : y \in S}
<1>1. T \in SUBSET Nat /\ T # {}
  <2>1. \A y \in S : b - y \in Nat
    OBVIOUS
  <2> QED BY <2>1, Zenon
<1>2. PICK t \in T : \A u \in T : t <= u
  BY <1>1, HasLeast, Zenon
<1>3. PICK a \in S : t = b - a
  BY <1>2
<1>4. \A y \in S : y <= a
  <2>1. \A y \in S : b - a <= b - y
    BY <1>2, <1>3, Zenon
  <2> QED BY <2>1
<1> QED BY <1>4

\* Whoever has a descriptor is a client.
LEMMA PresentAreClients ==
  ASSUME TypeOK PROVE Present \subseteq Clients /\ Owing \subseteq Present
BY DEF Owing, Present, TypeOK

\* device_get_timeout is a time, and it is up before any ACK is late.
LEMMA AckTimeoutInTime ==
  ASSUME TypeOK
  PROVE  /\ device_get_timeout \in 0..Far
         /\ device_get_timeout > 0 =>
              \A c \in Owing : age[c] + device_get_timeout <= AckTimeout
<1> USE LoopAssumption
<1>1. CASE Owing = {}
  BY <1>1 DEF device_get_timeout
<1>2. CASE Owing # {}
  <2> DEFINE A == {age[c] : c \in Owing}
             oldest == CHOOSE a \in A : \A c \in Owing : age[c] <= a
  <2>1. Owing \subseteq Clients
    BY PresentAreClients
  <2>2. \A c \in Owing : age[c] \in 0..(AckTimeout + 1)
    BY <2>1 DEF TypeOK
  <2>3. A \in SUBSET (0..(AckTimeout + 1)) /\ A # {} /\ AckTimeout + 1 \in Nat
    BY <1>2, <2>2
  <2>4. \E a \in A : \A y \in A : y <= a
    BY <2>3, HasGreatest, Zenon
  <2>5. \E a \in A : \A c \in Owing : age[c] <= a
    BY <2>4
  <2>6. oldest \in A /\ \A c \in Owing : age[c] <= oldest
    BY <2>5
  <2>7. device_get_timeout = IF oldest > AckTimeout THEN 0 ELSE AckTimeout - oldest
    BY <1>2 DEF device_get_timeout
  <2>8. oldest \in 0..(AckTimeout + 1)
    BY <2>3, <2>6
  <2> HIDE DEF oldest, A
  <2>9. device_get_timeout \in 0..Far
    BY <2>7, <2>8
  <2>10. ASSUME device_get_timeout > 0, NEW c \in Owing
         PROVE  age[c] + device_get_timeout <= AckTimeout
    BY <2>2, <2>6, <2>7, <2>8, <2>10
  <2> QED BY <2>9, <2>10
<1> QED BY <1>1, <1>2

\* So is the timeout given to ppoll, which is up before the next look for devices
\* as well.
LEMMA TimeoutInTime ==
  ASSUME TypeOK, NEW msec \in {0, Far}
  PROVE  /\ Timeout(msec) \in 0..Far
         /\ Timeout(msec) > 0 => \A c \in Owing : age[c] + Timeout(msec) <= AckTimeout
         /\ polling = 1 => Timeout(msec) <= rem
<1> USE LoopAssumption
<1>1. /\ usb_get_timeout(msec) \in 0..Far
      /\ polling = 1 => usb_get_timeout(msec) <= rem
  BY DEF usb_get_timeout, dev_poll_remain_ms, TypeOK
<1>2. /\ device_get_timeout \in 0..Far
      /\ device_get_timeout > 0 =>
           \A c \in Owing : age[c] + device_get_timeout <= AckTimeout
  BY AckTimeoutInTime
<1>3. /\ Timeout(msec) \in 0..Far /\ Timeout(msec) <= device_get_timeout
      /\ Timeout(msec) <= usb_get_timeout(msec)
  BY <1>1, <1>2 DEF Timeout
<1>4. ASSUME Timeout(msec) > 0, NEW c \in Owing PROVE age[c] + Timeout(msec) <= AckTimeout
  <2>1. age[c] \in Nat
    <3>1. c \in Clients
      BY PresentAreClients, Zenon
    <3>2. age[c] \in 0..(AckTimeout + 1)
      BY <3>1, Zenon DEF TypeOK
    <3> QED BY <3>2
  <2> QED BY <1>2, <1>3, <1>4, <2>1
<1>5. polling = 1 => Timeout(msec) <= rem
  BY <1>1, <1>3 DEF TypeOK
<1> QED BY <1>3, <1>4, <1>5

(***************************************************************************)
(* What the parts of an iteration keep.                                    *)
(***************************************************************************)
TableOK ==
  /\ own \in [Fds -> Clients \cup {NoClient}]
  /\ pending \in [Clients -> {0, 1}] /\ age \in [Clients -> 0..(AckTimeout + 1)]

DiscoveryOK ==
  rem \in 0..PollTime /\ devlist_failures \in 0..(MaxFailures + 1) /\ tried \in {0, 1}

\* A change of the table gives no descriptor to anybody.
LEMMA TableKeeps ==
  ASSUME TypeOK, NEW K, NEW A, NEW S, Table(K, A, S)
  PROVE  TableOK' /\ \A f \in Fds : own'[f] \in {NoClient, own[f]}
<1>1. own' \in [Fds -> Clients \cup {NoClient}] /\ \A f \in Fds : own'[f] \in {NoClient, own[f]}
  BY DEF Table, TypeOK, NoClient
<1>2. pending' \in [Clients -> {0, 1}]
  BY DEF Table, TypeOK
<1>3. age' \in [Clients -> 0..(AckTimeout + 1)]
  BY LoopAssumption DEF Table, TypeOK
<1> QED BY <1>1, <1>2, <1>3 DEF TableOK

\* usb_discover, whether it gets the list or not, has looked.
LEMMA DiscoverKeeps == ASSUME TypeOK, ListFails \/ Scanned PROVE DiscoveryOK' /\ tried' = 1
BY LoopAssumption DEF ListFails, Scanned, TypeOK, DiscoveryOK

\* So does usb_process, which looks for devices or leaves that alone.
LEMMA UsbProcessKeeps ==
  ASSUME TypeOK, NEW next, usb_process(next)
  PROVE  /\ TableOK' /\ DiscoveryOK' /\ tried' \in {tried, 1} /\ pc' \in {next, "over"}
         /\ \A f \in Fds : own'[f] \in {NoClient, own[f]}
<1>1. CASE pc' = "over" /\ UNCHANGED <<discovery, table>>
  BY <1>1 DEF discovery, table, TypeOK, TableOK, DiscoveryOK
<1>2. ASSUME NEW K, NEW A, Table(K, A, {}),
             \/ pc' = next /\ UNCHANGED discovery
             \/ (ListFails \/ Scanned) /\ pc' \in {next, "over"}
      PROVE  /\ TableOK' /\ DiscoveryOK' /\ tried' \in {tried, 1} /\ pc' \in {next, "over"}
             /\ \A f \in Fds : own'[f] \in {NoClient, own[f]}
  <2>1. TableOK' /\ \A f \in Fds : own'[f] \in {NoClient, own[f]}
    BY <1>2, TableKeeps
  <2>2. DiscoveryOK' /\ tried' \in {tried, 1} /\ pc' \in {next, "over"}
    BY <1>2, DiscoverKeeps DEF discovery, TypeOK, DiscoveryOK
  <2> QED BY <2>1, <2>2
<1> QED BY <1>1, <1>2 DEF usb_process

\* A client is accepted at a descriptor that nobody had.
LEMMA AcceptKeeps ==
  ASSUME TypeOK, client_accept
  PROVE  /\ TableOK' /\ pc' \in {pc, "over"}
         /\ \A f \in Fds : own[f] # NoClient => own'[f] = own[f]
<1>1. CASE pc' = "over" /\ UNCHANGED table
  BY <1>1 DEF table, TypeOK, TableOK
<1>2. CASE /\ Free # {} /\ UNCHANGED <<pc, pending, age>>
           /\ Newcomers # {} /\ own' = [own EXCEPT ![Least(Free)] = Least(Newcomers)]
  <2>1. Least(Free) \in Free
    BY <1>2, LoopAssumption, HasLeast DEF Free
  <2>2. Least(Newcomers) \in Clients
    BY <1>2, LoopAssumption, HasLeast DEF Newcomers
  <2>3. own' \in [Fds -> Clients \cup {NoClient}] /\ pc' = pc
    BY <1>2, <2>1, <2>2, Zenon DEF TypeOK
  <2>4. \A f \in Fds : own[f] # NoClient => own'[f] = own[f]
    BY <1>2, <2>1 DEF Free, TypeOK
  <2> QED BY <1>2, <2>3, <2>4 DEF TableOK, TypeOK
<1> QED BY <1>1, <1>2 DEF client_accept

\* Time passes: nobody gets older than the clocks count.
LEMMA OlderKeeps ==
  ASSUME TypeOK, Older
  PROVE  /\ age' \in [Clients -> 0..(AckTimeout + 1)] /\ rem' \in 0..PollTime
         /\ \A c \in Clients : age'[c] <= age[c] + 1
         /\ polling = 1 => rem' >= rem - 1
<1> USE LoopAssumption
<1>1. \A c \in Clients : age[c] \in 0..(AckTimeout + 1)
  BY DEF TypeOK
<1>2. \A c \in Clients :
        age'[c] = IF c \notin Present \/ age[c] > AckTimeout THEN age[c] ELSE age[c] + 1
  BY DEF Older
<1>3. \A c \in Clients : age'[c] \in 0..(AckTimeout + 1) /\ age'[c] <= age[c] + 1
  BY <1>1, <1>2
<1>4. age' \in [Clients -> 0..(AckTimeout + 1)]
  BY <1>3 DEF Older
<1>5. rem' \in 0..PollTime /\ (polling = 1 => rem' >= rem - 1)
  BY DEF Older, TypeOK
<1> QED BY <1>3, <1>4, <1>5

(***************************************************************************)
(* The invariant.                                                          *)
(***************************************************************************)
\* What the daemon starts with.
LEMMA InitInv == Init => Inv
<1> SUFFICES ASSUME Init PROVE Inv
  OBVIOUS
<1>1. Owing = {}
  BY DEF Init, Owing, Present, Nobody, NoClient
<1>2. TypeOK
  BY LoopAssumption DEF Init, TypeOK, Nobody, NoClient
<1> QED
  BY <1>2 DEF Init, Inv, PolledIsCurrent, NotTakenOver, ServedIsPolled, InTime, DiscoveryKept

\* The head of the loop.
LEMMA TopKeepsInv == ASSUME Inv, Top PROVE Inv'
<1> USE DEF Inv, table, discovery, signals, config
<1>1. CASE should_exit = 1 /\ pc' = "over" /\ UNCHANGED <<polled, to>>
  BY <1>1 DEF Top, TypeOK, PolledIsCurrent, NotTakenOver, ServedIsPolled, InTime,
              DiscoveryKept
<1>2. ASSUME NEW msec \in {0, Far}, to' = Timeout(msec), pc' = "ppoll", polled' = own
      PROVE  Inv'
  <2>1. /\ Timeout(msec) \in 0..Far
        /\ Timeout(msec) > 0 => \A c \in Owing : age[c] + Timeout(msec) <= AckTimeout
        /\ polling = 1 => Timeout(msec) <= rem
    BY TimeoutInTime
  <2>2. TypeOK'
    BY <1>2, <2>1 DEF Top, TypeOK
  <2>3. Owing' = Owing /\ age' = age /\ polling' = polling /\ rem' = rem
    BY DEF Top, Owing, Present
  <2>4. InTime'
    BY <1>2, <2>1, <2>3 DEF InTime
  <2>5. PolledIsCurrent' /\ NotTakenOver' /\ ServedIsPolled' /\ DiscoveryKept'
    BY <1>2 DEF Top, PolledIsCurrent, NotTakenOver, ServedIsPolled, DiscoveryKept
  <2> QED BY <2>2, <2>4, <2>5
<1> QED BY <1>1, <1>2 DEF Top

\* Outside of ppoll and of the look at its results there is little to show.
LEMMA ElsewhereKeepsInv ==
  ASSUME Inv, TypeOK', DiscoveryKept', mixed' = mixed, pc' \notin {"ppoll", "fds"}
  PROVE  Inv'
BY DEF Inv, PolledIsCurrent, NotTakenOver, ServedIsPolled, InTime

\* ppoll returns with results.
LEMMA ReadyKeepsInv == ASSUME Inv, Ready PROVE Inv'
<1> USE DEF Inv, Ready, table, discovery, signals, config
<1>1. polled' = own' /\ pc' = "fds" /\ to' = 0 /\ revc' \subseteq Fds
      /\ \A f \in revc' : polled'[f] # NoClient
  BY DEF PolledIsCurrent
<1>2. TypeOK'
  BY <1>1, LoopAssumption DEF TypeOK
<1>3. PolledIsCurrent' /\ NotTakenOver'
  BY <1>1 DEF PolledIsCurrent, NotTakenOver
<1>4. ServedIsPolled' /\ InTime' /\ DiscoveryKept'
  BY <1>1 DEF ServedIsPolled, InTime, DiscoveryKept
<1> QED BY <1>2, <1>3, <1>4

\* Signals are handled: a SIGUSR2 that is heeded is noted.
LEMMA SignalsHandled ==
  ASSUME TypeOK, \E usr1 \in {0, 1} : handle_signal(usr1)
  PROVE  /\ sig' = {} /\ should_exit' \in {0, 1} /\ Noted \in {0, 1}
         /\ should_discover = 1 => Noted = 1
         /\ opt_enable_exit = 1 /\ "USR2" \in sig => Noted = 1
BY DEF handle_signal, Noted, TypeOK

\* ppoll is interrupted.
LEMMA InterruptedKeepsInv == ASSUME Inv, Interrupted PROVE Inv'
<1> USE DEF Inv, config
<1>1. /\ polled' \in [Fds -> Clients \cup {NoClient}] /\ to' = 0 /\ sig' = {}
      /\ UNCHANGED <<rev, revc, mixed, polling, atomic, opt_enable_exit>>
      /\ should_exit' \in {0, 1} /\ should_discover' \in {0, 1} /\ pc' \in {"over", "top"}
  BY SignalsHandled DEF Interrupted, Nobody, TypeOK
<1>2. TableOK' /\ DiscoveryOK' /\ DiscoveryKept'
  <2>1. CASE UNCHANGED <<table, discovery>> /\ pc' = "over"
    BY <2>1 DEF table, discovery, TypeOK, TableOK, DiscoveryOK, DiscoveryKept
  <2>2. CASE Noted # 1 /\ pc' = "top" /\ UNCHANGED <<table, discovery>>
    <3>1. opt_enable_exit = 1 => tried' = 1
      BY <2>2, SignalsHandled DEF DiscoveryKept, Interrupted, discovery
    <3> QED BY <1>1, <2>2, <3>1 DEF table, discovery, TypeOK, TableOK, DiscoveryOK,
                                   DiscoveryKept
  <2>3. CASE ListFails /\ UNCHANGED table
    <3>1. DiscoveryOK' /\ tried' = 1
      BY <2>3, DiscoverKeeps
    <3> QED BY <2>3, <3>1 DEF table, TypeOK, TableOK, DiscoveryKept
  <2>4. CASE Scanned /\ \E K \in {{}} \cup {{c} : c \in Present} : Table(K, {}, {})
    <3>1. DiscoveryOK' /\ tried' = 1
      BY <2>4, DiscoverKeeps
    <3>2. TableOK'
      BY <2>4, TableKeeps
    <3> QED BY <3>1, <3>2 DEF DiscoveryKept
  <2> QED BY <2>1, <2>2, <2>3, <2>4 DEF Interrupted
<1>3. TypeOK'
  BY <1>1, <1>2, LoopAssumption DEF TypeOK, TableOK, DiscoveryOK
<1> QED BY <1>1, <1>2, <1>3, ElsewhereKeepsInv

\* It times out, and what is due after that.
LEMMA TimedOutKeepsInv == ASSUME Inv, TimedOut \/ device_check_timeouts PROVE Inv'
<1> USE DEF Inv, signals, config
<1>1. CASE TimedOut
  <2>1. TableOK' /\ DiscoveryOK' /\ tried' \in {tried, 1} /\ pc' \in {"expire", "over"}
    BY <1>1, UsbProcessKeeps DEF TimedOut
  <2>2. TypeOK'
    BY <1>1, <2>1 DEF TimedOut, TypeOK, TableOK, DiscoveryOK, Nobody
  <2>3. DiscoveryKept' /\ mixed' = mixed
    BY <1>1, <2>1 DEF TimedOut, DiscoveryKept
  <2> QED BY <2>1, <2>2, <2>3, ElsewhereKeepsInv
<1>2. CASE device_check_timeouts
  <2>1. TableOK'
    BY <1>2, TableKeeps DEF device_check_timeouts
  <2>2. TypeOK'
    BY <1>2, <2>1 DEF device_check_timeouts, discovery, TypeOK, TableOK
  <2>3. DiscoveryKept' /\ mixed' = mixed /\ pc' = "top"
    BY <1>2 DEF device_check_timeouts, DiscoveryKept, discovery
  <2> QED BY <2>2, <2>3, ElsewhereKeepsInv
<1> QED BY <1>1, <1>2

\* The results are looked at: whoever is accepted gets a descriptor that was not
\* polled, and whatever closes descriptors comes after that.
LEMMA ServeKeepsInv == ASSUME Inv, ServeListen \/ ServeUsb PROVE Inv'
<1> USE DEF Inv, signals, config
<1>1. CASE ServeListen
  <2>1. /\ TableOK' /\ pc = "fds" /\ pc' \in {"fds", "over"}
        /\ \A f \in Fds : own[f] # NoClient => own'[f] = own[f]
    BY <1>1, AcceptKeeps DEF ServeListen
  <2>2. polled = own /\ "listen" \notin rev' /\ rev' \subseteq rev
    BY <1>1, <2>1 DEF ServeListen, Turn, PolledIsCurrent, TypeOK
  <2>3. TypeOK'
    BY <1>1, <2>1, <2>2 DEF ServeListen, discovery, TypeOK, TableOK
  <2>4. NotTakenOver'
    BY <1>1, <2>1, <2>2 DEF ServeListen, NotTakenOver
  <2>5. PolledIsCurrent' /\ ServedIsPolled' /\ InTime' /\ DiscoveryKept'
    BY <1>1, <2>1, <2>2
    DEF ServeListen, discovery, PolledIsCurrent, ServedIsPolled, InTime, DiscoveryKept
  <2> QED BY <2>3, <2>4, <2>5
<1>2. CASE ServeUsb
  <2>1. /\ TableOK' /\ DiscoveryOK' /\ tried' \in {tried, 1} /\ pc' \in {"fds", "over"}
        /\ \A f \in Fds : own'[f] \in {NoClient, own[f]}
    BY <1>2, UsbProcessKeeps DEF ServeUsb
  <2>2. pc = "fds" /\ "listen" \notin rev' /\ rev' \subseteq rev
    BY <1>2 DEF ServeUsb, Turn
  <2>3. TypeOK'
    BY <1>2, <2>1, <2>2 DEF ServeUsb, TypeOK, TableOK, DiscoveryOK
  <2>4. NotTakenOver'
    BY <1>2, <2>1, <2>2 DEF ServeUsb, NotTakenOver
  <2>5. PolledIsCurrent' /\ ServedIsPolled' /\ InTime' /\ DiscoveryKept'
    BY <1>2, <2>1, <2>2
    DEF ServeUsb, PolledIsCurrent, ServedIsPolled, InTime, DiscoveryKept
  <2> QED BY <2>3, <2>4, <2>5
<1> QED BY <1>1, <1>2

\* A client is served what ppoll reported of it.
LEMMA ServeClientKeepsInv == ASSUME Inv, NEW f \in Fds, ServeClient(f) PROVE Inv'
<1> USE DEF Inv, signals, config, discovery
<1>1. TableOK' /\ \A g \in Fds : own'[g] \in {NoClient, own[g]}
  <2>1. CASE UNCHANGED table
    BY <2>1 DEF table, TypeOK, TableOK
  <2>2. ASSUME NEW K, NEW A, NEW S, Table(K, A, S)
        PROVE  TableOK' /\ \A g \in Fds : own'[g] \in {NoClient, own[g]}
    BY <2>2, TableKeeps
  <2> QED BY <2>1, <2>2 DEF ServeClient, client_process
<1>2. polled[f] # NoClient /\ own[f] \in {NoClient, polled[f]}
  BY DEF ServeClient, NotTakenOver
<1>3. mixed' = mixed
  BY <1>2 DEF ServeClient, client_process
<1>4. TypeOK'
  BY <1>1, <1>3 DEF ServeClient, TypeOK, TableOK
<1>5. NotTakenOver'
  BY <1>1 DEF ServeClient, NotTakenOver
<1>6. PolledIsCurrent' /\ ServedIsPolled' /\ InTime' /\ DiscoveryKept'
  BY <1>3 DEF ServeClient, PolledIsCurrent, ServedIsPolled, InTime, DiscoveryKept
<1> QED BY <1>4, <1>5, <1>6

\* Time passes, in ppoll no more than what is left of the timeout.
LEMMA TimeKeepsInv == ASSUME Inv, Sleep \/ Work PROVE Inv'
<1> USE DEF Inv, signals, config
<1>1. /\ age' \in [Clients -> 0..(AckTimeout + 1)] /\ rem' \in 0..PollTime
      /\ \A c \in Clients : age'[c] <= age[c] + 1
      /\ polling = 1 => rem' >= rem - 1
  BY OlderKeeps DEF Sleep, Work
<1>2. /\ to' = to \/ (to > 0 /\ to' = to - 1)
      /\ UNCHANGED <<pc, polled, rev, revc, mixed, own, pending, devlist_failures, tried,
                     signals, config>>
  BY DEF Sleep, Work
<1>3. TypeOK'
  BY <1>1, <1>2, LoopAssumption DEF TypeOK
<1>4. InTime'
  <2> SUFFICES ASSUME pc' = "ppoll", to' > 0
               PROVE  /\ \A c \in Owing' : age'[c] + to' <= AckTimeout
                      /\ polling' = 1 => to' <= rem'
    BY DEF InTime
  <2>1. Sleep /\ pc = "ppoll" /\ to > 0 /\ to' = to - 1 /\ to \in Nat
    BY <1>2, LoopAssumption DEF Sleep, Work, TypeOK
  <2>2. Owing' = Owing
    BY <1>2 DEF Owing, Present
  <2>3. ASSUME NEW c \in Owing PROVE age'[c] + to' <= AckTimeout
    <3>1. age[c] + to <= AckTimeout
      BY <2>1 DEF InTime
    <3>2. c \in Clients
      BY PresentAreClients, Zenon
    <3>3. age[c] \in Int /\ age'[c] \in Int /\ age'[c] <= age[c] + 1
      BY <1>1, <3>2, LoopAssumption DEF TypeOK
    <3> QED BY <2>1, <3>1, <3>3, LoopAssumption
  <2>4. polling' = 1 => to' <= rem'
    BY <1>1, <1>2, <2>1, LoopAssumption DEF InTime, TypeOK
  <2> QED BY <2>2, <2>3, <2>4
<1>5. PolledIsCurrent' /\ NotTakenOver' /\ ServedIsPolled' /\ DiscoveryKept'
  BY <1>2 DEF PolledIsCurrent, NotTakenOver, ServedIsPolled, DiscoveryKept
<1> QED BY <1>3, <1>4, <1>5

\* Every step keeps the invariant.
LEMMA NextKeepsInv == Inv /\ [Next]_vars => Inv'
<1> SUFFICES ASSUME Inv, [Next]_vars PROVE Inv'
  OBVIOUS
<1> USE DEF table, discovery, signals, config
<1>1. CASE FallbackUnmasks
  <2>1. TypeOK'
    BY <1>1, SignalsHandled DEF FallbackUnmasks, Inv, TypeOK
  <2>2. PolledIsCurrent' /\ NotTakenOver' /\ ServedIsPolled' /\ InTime'
    BY <1>1 DEF FallbackUnmasks, Inv, PolledIsCurrent, NotTakenOver, ServedIsPolled, InTime,
                Owing, Present
  <2>3. DiscoveryKept'
    BY <1>1, SignalsHandled DEF FallbackUnmasks, Inv, DiscoveryKept
  <2> QED BY <2>1, <2>2, <2>3 DEF Inv
<1>2. CASE Served
  <2>1. TypeOK'
    BY <1>2 DEF Served, Nobody, Inv, TypeOK
  <2>2. DiscoveryKept' /\ mixed' = mixed /\ pc' = "top"
    BY <1>2 DEF Served, Inv, DiscoveryKept
  <2> QED BY <2>1, <2>2, ElsewhereKeepsInv
<1>3. ASSUME NEW n \in {"TERM", "USR2"}, Signal(n) PROVE Inv'
  <2>1. TypeOK'
    BY <1>3 DEF Signal, Inv, TypeOK
  <2>2. PolledIsCurrent' /\ NotTakenOver' /\ ServedIsPolled' /\ InTime'
    BY <1>3 DEF Signal, Inv, PolledIsCurrent, NotTakenOver, ServedIsPolled, InTime, Owing,
                Present
  <2>3. DiscoveryKept'
    BY <1>3, SMTT(30) DEF Signal, Inv, DiscoveryKept
  <2> QED BY <2>1, <2>2, <2>3 DEF Inv
<1>4. CASE UNCHANGED vars
  BY <1>4 DEF vars, Inv, TypeOK, PolledIsCurrent, NotTakenOver, ServedIsPolled, InTime,
              DiscoveryKept, Owing, Present
<1>5. CASE Top
  BY <1>5, TopKeepsInv
<1>6. CASE Ready
  BY <1>6, ReadyKeepsInv
<1>7. CASE Interrupted
  BY <1>7, InterruptedKeepsInv
<1>8. CASE TimedOut \/ device_check_timeouts
  BY <1>8, TimedOutKeepsInv
<1>9. CASE ServeListen \/ ServeUsb
  BY <1>9, ServeKeepsInv
<1>10. ASSUME NEW f \in Fds, ServeClient(f) PROVE Inv'
  BY <1>10, ServeClientKeepsInv
<1>11. CASE Sleep \/ Work
  BY <1>11, TimeKeepsInv
<1> QED
  BY <1>1, <1>2, <1>3, <1>4, <1>5, <1>6, <1>7, <1>8, <1>9, <1>10, <1>11
  DEF Next, Loop, Over

\* The inductive invariant holds of every reachable state.
THEOREM Invariant == Spec => []Inv
<1>1. Init => Inv
  BY InitInv
<1>2. Inv /\ [Next]_vars => Inv'
  BY NextKeepsInv
<1> QED
  BY <1>1, <1>2, PTL DEF Spec

\* Types; above all, ppoll is never given a negative timeout, which it would take
\* for none.
THEOREM TypeCorrect == Spec => []TypeOK
BY Invariant, PTL DEF Inv

\* What ppoll reports of one client is never served to another, whatever number
\* of clients come and go in an iteration (main_loop).
THEOREM EachServedItsOwn == Spec => []ServedIsPolled
BY Invariant, PTL DEF Inv

\* With --enable-exit SIGUSR2 is never lost, with either ppoll (handle_signal,
\* main_loop).
THEOREM DiscoveryNotLost == Spec => []DiscoveryKept
BY Invariant, PTL DEF Inv

\* The loop never sleeps past an ACK or a look for devices that is due.
THEOREM SleepsNoLonger == Spec => WakesInTime
<1> DEFINE Due == /\ \A c \in Owing : age'[c] <= AckTimeout
                  /\ polling = 1 => rem > 0
<1>1. ASSUME Inv, Sleep PROVE Due
  <2>1. pc = "ppoll" /\ to > 0 /\ Older /\ TypeOK /\ InTime /\ to \in Nat
    BY <1>1, LoopAssumption DEF Sleep, Inv, TypeOK
  <2>2. \A c \in Clients : age'[c] <= age[c] + 1 /\ age'[c] \in Int
    BY <2>1, OlderKeeps
  <2>3. ASSUME NEW c \in Owing PROVE age'[c] <= AckTimeout
    <3>1. age[c] + to <= AckTimeout
      BY <2>1 DEF InTime
    <3>2. c \in Clients
      BY <2>1, PresentAreClients, Zenon
    <3>3. age[c] \in Int
      BY <2>1, <3>2 DEF TypeOK
    <3> QED BY <2>1, <2>2, <3>1, <3>2, <3>3, LoopAssumption
  <2>4. polling = 1 => rem > 0
    BY <2>1, LoopAssumption DEF InTime, TypeOK
  <2> QED BY <2>3, <2>4, SMTT(30)
<1>2. Inv /\ [Next]_vars => [Sleep => Due]_vars
  BY <1>1
<1> HIDE DEF Due
<1>3. Spec => [][Sleep => Due]_vars
  BY <1>2, Invariant, PTL DEF Spec
<1> QED BY <1>3, PTL DEF WakesInTime, Due

=============================================================================
