--------------------------- MODULE MuxConn_proofs ---------------------------
(***************************************************************************)
(* The tables of MuxConn stay coherent for any number of clients, devices  *)
(* and ports and whatever the devices send.                                *)
(***************************************************************************)
EXTENDS MuxConn, TLAPS

\* The inductive invariant.
Inv ==
  /\ TypeOK
  /\ ConnHasItsClient
  /\ ClientHasItsConn
  /\ OneConnPerClient
  /\ SportsDistinct
  /\ OneAnswerPerConnect
  /\ AnswerBeforeData
  /\ NoHalfOpen
  /\ NoStaleConn

USE MuxConnAssumption

\* Initially there is no device, no client and no connection.
LEMMA InitInv == Init => Inv
BY DEF Init, Inv, TypeOK, ConnHasItsClient, ClientHasItsConn, OneConnPerClient,
   SportsDistinct, OneAnswerPerConnect, AnswerBeforeData, NoHalfOpen, NoStaleConn,
   DeviceIds, Sports, Client, FreeClient, HasConn

\* What a refusal leaves of a client that waits in CONNECTING1.
LEMMA RefusedClient ==
  ASSUME NEW r \in Client, r.state = "CONNECTING1", r.owed = 1
  PROVE  LET n == client_notify_connect(r, FALSE)
         IN  n \in Client /\ n.state = "COMMAND" /\ n.owed = 0
BY DEF Client, client_notify_connect, HasConn

\* Every connection of DOMAIN st is torn down in the state st[k], waiting or
\* established as the connection is; the rest of the tables stays as it is.
LEMMA TeardownKeepsInv ==
  ASSUME Inv, NEW st, NEW F, DOMAIN st \subseteq conns,
         \A k \in DOMAIN st : k.state = "CONNECTING" <=> st[k] \in Waiting,
         connection_teardown(st, F),
         UNCHANGED <<device, nextId, nextSport>>,
         stale' \in {stale, stale \cup {"overflow"}},
         phase' \in {"run", "killed", "down", "undefined"}
  PROVE  Inv'
<1> DEFINE K == DOMAIN st
<1>1. conns' = conns \ K /\ F \subseteq K
  BY DEF connection_teardown, SendRst
<1>2. \A c \in Clients : (\A k \in K : k.client # c) => client'[c] = client[c]
  BY Zenon DEF connection_teardown, AfterTeardown
<1>3. \A k \in K : /\ k.state = "CONNECTED" => client'[k.client] = FreeClient
                   /\ k.state = "CONNECTING" =>
                        client'[k.client] = client_notify_connect(client[k.client], FALSE)
  <2> SUFFICES ASSUME NEW k \in K
               PROVE /\ k.state = "CONNECTED" => client'[k.client] = FreeClient
                     /\ k.state = "CONNECTING" =>
                          client'[k.client] = client_notify_connect(client[k.client], FALSE)
    BY Zenon
  <2>1. k \in Conn /\ k.client \in Clients
    BY DEF Inv, TypeOK, Conn
  <2>2. \A j \in K : j.client = k.client => j = k
    BY DEF Inv, OneConnPerClient
  <2>3. client'[k.client] = AfterTeardown(k.client, st)
    BY <2>1 DEF connection_teardown
  <2> QED
    BY <2>1, <2>2, <2>3, Zenon DEF AfterTeardown, Conn
<1>4. \A k \in conns : k \in Conn /\ k.client \in Clients
  BY DEF Inv, TypeOK, Conn
<1>5. \A k \in K : k.state = "CONNECTING" =>
        /\ client'[k.client] \in Client
        /\ client'[k.client].state = "COMMAND" /\ client'[k.client].owed = 0
  <2> SUFFICES ASSUME NEW k \in K, k.state = "CONNECTING"
               PROVE  /\ client'[k.client] \in Client
                      /\ client'[k.client].state = "COMMAND"
                      /\ client'[k.client].owed = 0
    OBVIOUS
  <2>1. client[k.client] \in Client
    BY <1>4 DEF Inv, TypeOK
  <2>2. client[k.client].state = "CONNECTING1"
    BY DEF Inv, ConnHasItsClient
  <2>3. client[k.client].owed = 1
    BY <1>4, <2>2 DEF Inv, OneAnswerPerConnect
  <2> QED
    BY <1>3, <2>1, <2>2, <2>3, RefusedClient, Zenon
<1>6. \A k \in conns' : client'[k.client] = client[k.client]
  BY <1>1, <1>2, <1>4 DEF Inv, OneConnPerClient
<1>7. \A c \in Clients :
        \/ client'[c] = client[c] /\ \A k \in K : k.client # c
        \/ /\ client'[c] \in Client /\ client'[c].owed = 0
           /\ client'[c].state \in {"FREE", "COMMAND"}
  <2>1. FreeClient \in Client /\ FreeClient.owed = 0 /\ FreeClient.state = "FREE"
    BY DEF FreeClient, Client
  <2>2. \A k \in K : k.state \in {"CONNECTING", "CONNECTED"}
    BY <1>4 DEF Conn
  <2>3. \A k \in K : /\ client'[k.client] \in Client /\ client'[k.client].owed = 0
                      /\ client'[k.client].state \in {"FREE", "COMMAND"}
    <3> TAKE k \in K
    <3>1. CASE k.state = "CONNECTING"
      BY ONLY <1>5, <3>1
    <3>2. CASE k.state = "CONNECTED"
      <4>1. client'[k.client] = FreeClient
        BY ONLY <1>3, <3>2, Zenon
      <4> QED BY ONLY <4>1, <2>1
    <3> QED BY <2>2, <3>1, <3>2
  <2> QED
    BY ONLY <1>2, <2>3
<1>8. /\ open' \subseteq open
      /\ \A k \in conns' : Pipe(k) \in open => Pipe(k) \in open'
      /\ \A k \in K : Pipe(k) \in open' => k.dev \in txFailed'
      /\ txFailed \subseteq txFailed' /\ txFailed' \subseteq DeviceIds
  <2>1. open' = open \ {Pipe(k) : k \in K \ F}
    BY DEF connection_teardown, SendRst, NeedsRst
  <2>2. txFailed' = txFailed \cup {k.dev : k \in F}
    BY DEF connection_teardown, SendRst
  <2>3. \A k \in conns', j \in K : Pipe(k) # Pipe(j)
    BY <1>1 DEF Inv, SportsDistinct
  <2> QED
    BY <1>1, <1>4, <2>1, <2>2, <2>3 DEF Inv, TypeOK, Conn, Pipe
<1>9. TypeOK'
  <2>1. client' \in [Clients -> Client]
    <3>1. \A c \in Clients : client'[c] \in Client
      BY <1>7 DEF Inv, TypeOK
    <3>2. client' = [c \in Clients |-> client'[c]]
      BY DEF connection_teardown
    <3> QED BY <3>1, <3>2
  <2> QED
    BY <1>1, <1>8, <2>1 DEF Inv, TypeOK
<1>10. ConnHasItsClient'
  BY <1>1, <1>6 DEF Inv, ConnHasItsClient
<1>11. ClientHasItsConn'
  <2> SUFFICES ASSUME NEW c \in Clients, client'[c].state \in HasConn
               PROVE  \E k \in conns' : k.client = c
    BY DEF ClientHasItsConn
  <2>1. client'[c] = client[c] /\ \A k \in K : k.client # c
    BY <1>7 DEF HasConn
  <2> QED
    BY <1>1, <2>1 DEF Inv, ClientHasItsConn
<1>12. OneConnPerClient' /\ SportsDistinct' /\ NoStaleConn'
  BY <1>1 DEF Inv, OneConnPerClient, SportsDistinct, NoStaleConn
<1>13. OneAnswerPerConnect' /\ AnswerBeforeData'
  BY <1>7 DEF Inv, OneAnswerPerConnect, AnswerBeforeData
<1>14. NoHalfOpen'
  BY <1>1, <1>8 DEF Inv, NoHalfOpen, Pipe
<1> QED
  BY <1>9, <1>10, <1>11, <1>12, <1>13, <1>14 DEF Inv

\* A client goes, and with it the connection that was being made for it.
LEMMA CloseKeepsInv ==
  ASSUME Inv, NEW c \in Clients, client[c].state # "CONNECTED",
         client_close(c),
         UNCHANGED <<device, nextId, nextSport, phase>>,
         stale' \in {stale, stale \cup {"client"}}
  PROVE  Inv'
<1> DEFINE K == Aborted(c)
<1>1. PICK F \in SUBSET K : SendRst([k \in K |-> k.state], F)
  BY Zenon DEF client_close
<1>2. conns' = conns \ K /\ client' = [client EXCEPT ![c] = FreeClient]
  BY DEF client_close
<1>3. \A k \in conns : k \in Conn /\ k.client \in Clients
  BY DEF Inv, TypeOK, Conn
<1>4. K = {k \in conns : k.client = c}
  BY <1>3 DEF Aborted, Inv, ConnHasItsClient, Conn
<1>5. /\ open' = open \ {Pipe(k) : k \in K \ F}
      /\ txFailed' = txFailed \cup {k.dev : k \in F}
  BY <1>1, Zenon DEF SendRst, NeedsRst
<1>6. FreeClient \in Client /\ FreeClient.owed = 0 /\ FreeClient.state = "FREE"
  BY DEF FreeClient, Client
<1>7. \A x \in Clients : client'[x] = IF x = c THEN FreeClient ELSE client[x]
  BY <1>2 DEF Inv, TypeOK
<1> HIDE DEF K
<1>8. TypeOK'
  BY <1>2, <1>3, <1>4, <1>5, <1>6 DEF Inv, TypeOK, Conn
<1>9. ConnHasItsClient' /\ ClientHasItsConn' /\ OneConnPerClient' /\ SportsDistinct'
  BY <1>2, <1>3, <1>4, <1>6, <1>7 DEF Inv, ConnHasItsClient, ClientHasItsConn,
     OneConnPerClient, SportsDistinct, HasConn
<1>10. OneAnswerPerConnect' /\ AnswerBeforeData' /\ NoStaleConn'
  BY <1>6, <1>7 DEF Inv, OneAnswerPerConnect, AnswerBeforeData, NoStaleConn
<1>11. NoHalfOpen'
  BY <1>2, <1>4, <1>5 DEF Inv, NoHalfOpen, SportsDistinct, Pipe
<1> QED
  BY <1>8, <1>9, <1>10, <1>11 DEF Inv
\* A step of clients that neither have nor get a connection.
LEMMA IdleStepKeepsInv ==
  ASSUME Inv, client' \in [Clients -> Client],
         \A c \in Clients : \/ client'[c] = client[c]
                            \/ /\ client[c].state \notin HasConn
                               /\ client'[c].state \notin HasConn
                               /\ client'[c].owed = 0,
         UNCHANGED <<device, nextId, nextSport, conns, open, txFailed, stale, phase>>
  PROVE  Inv'
<1>1. \A k \in conns : k.client \in Clients
  BY DEF Inv, TypeOK, Conn
<1>2. \A k \in conns : client'[k.client] = client[k.client]
  BY <1>1 DEF Inv, ConnHasItsClient, HasConn
<1>3. TypeOK' /\ NoHalfOpen' /\ NoStaleConn' /\ OneConnPerClient' /\ SportsDistinct'
  BY DEF Inv, TypeOK, NoHalfOpen, NoStaleConn, OneConnPerClient, SportsDistinct
<1>4. ConnHasItsClient' /\ ClientHasItsConn'
  BY <1>2 DEF Inv, ConnHasItsClient, ClientHasItsConn
<1>5. OneAnswerPerConnect' /\ AnswerBeforeData'
  BY DEF Inv, OneAnswerPerConnect, AnswerBeforeData, HasConn
<1> QED
  BY <1>3, <1>4, <1>5 DEF Inv

\* The handlers of one client keep the invariant.
LEMMA ClientStepKeepsInv ==
  ASSUME Inv, NEW c \in Clients, ClientNext(c)
  PROVE  Inv'
<1> USE DEF HasConn
<1>0. client \in [Clients -> Client] /\ client[c] \in Client
  BY DEF Inv, TypeOK
<1>00. \A x \in Clients : client[x].state \notin HasConn => client[x].owed = 0
  BY DEF Inv, OneAnswerPerConnect
<1>1. CASE client_accept(c)
  BY <1>0, <1>1, IdleStepKeepsInv DEF client_accept, FreeClient, Client
<1>2. CASE ConnectNoDevice(c)
  BY <1>0, <1>00, <1>2, IdleStepKeepsInv DEF ConnectNoDevice, MayCommand, QueueReply, Client
<1>3. CASE start_listen(c)
  BY <1>0, <1>00, <1>3, IdleStepKeepsInv, Zenon DEF start_listen, MayCommand, Client
<1>4. CASE AnswerCommand(c)
  BY <1>0, <1>00, <1>4, IdleStepKeepsInv DEF AnswerCommand, MayCommand, TellListener,
     QueueReply, Client
<1>5. CASE WrongStateCommand(c)
  BY <1>5, CloseKeepsInv DEF WrongStateCommand
<1>6. CASE ClientFails(c)
  BY <1>6, CloseKeepsInv DEF ClientFails
<1>7. CASE device_client_process(c)
  <2>1. PICK k \in conns : Teardown(k, k.state)
    BY <1>7 DEF device_client_process
  <2>2. PICK F \in SUBSET {k} : connection_teardown([x \in {k} |-> k.state], F)
    BY <2>1 DEF Teardown
  <2>3. k.state \in {"CONNECTING", "CONNECTED"}
    BY DEF Inv, TypeOK, Conn
  <2>4. UNCHANGED <<device, nextId, nextSport, stale, phase>>
    BY <1>7 DEF device_client_process
  <2> DEFINE st == [x \in {k} |-> k.state]
  <2>5. DOMAIN st \subseteq conns /\ \A x \in DOMAIN st : x.state = "CONNECTING" <=> st[x] \in Waiting
    BY <2>3 DEF Waiting
  <2> HIDE DEF st
  <2>6. phase' \in {"run", "killed", "down", "undefined"}
    BY <2>4 DEF Inv, TypeOK
  <2> QED
    BY <2>2, <2>4, <2>5, <2>6, TeardownKeepsInv DEF st
<1>8. CASE output_buffer_process(c)
  <2> DEFINE old == client[c]
             new == client'[c]
  <2>1. /\ client' \in [Clients -> Client]
        /\ \A x \in Clients \ {c} : client'[x] = client[x]
        /\ new.ob = 0 /\ new.device = old.device /\ new.owed = old.owed
        /\ new.state = IF old.state = "CONNECTING2" THEN "CONNECTED" ELSE old.state
    BY <1>0, <1>8, Zenon DEF output_buffer_process, Client
  <2>2. UNCHANGED <<device, nextId, nextSport, conns, open, txFailed, stale, phase>>
    BY <1>8 DEF output_buffer_process
  <2>3. \A k \in conns : k \in Conn /\ k.client \in Clients
    BY DEF Inv, TypeOK, Conn
  <2>4. TypeOK' /\ NoHalfOpen' /\ NoStaleConn' /\ OneConnPerClient' /\ SportsDistinct'
    BY <2>1, <2>2 DEF Inv, TypeOK, NoHalfOpen, NoStaleConn, OneConnPerClient,
       SportsDistinct
  <2>5. ConnHasItsClient'
    BY <2>1, <2>2, <2>3 DEF Inv, ConnHasItsClient, Conn
  <2>6. ClientHasItsConn' /\ OneAnswerPerConnect' /\ AnswerBeforeData'
    BY <2>1, <2>2 DEF Inv, ClientHasItsConn, OneAnswerPerConnect, AnswerBeforeData
  <2> QED
    BY <2>4, <2>5, <2>6 DEF Inv
<1>9. CASE \E d \in DeviceIds : ConnectInitDevice(c, d)
  <2>1. /\ UNCHANGED <<device, nextId, nextSport, conns, client, open, txFailed>>
        /\ stale' = stale \cup {"connections"} /\ phase' = "undefined"
    BY <1>9 DEF ConnectInitDevice
  <2>2. TypeOK' /\ NoStaleConn'
    BY <2>1 DEF Inv, TypeOK, NoStaleConn
  <2>3. ConnHasItsClient' /\ ClientHasItsConn' /\ OneConnPerClient' /\ SportsDistinct'
    BY <2>1 DEF Inv, ConnHasItsClient, ClientHasItsConn, OneConnPerClient, SportsDistinct
  <2>4. OneAnswerPerConnect' /\ AnswerBeforeData' /\ NoHalfOpen'
    BY <2>1 DEF Inv, OneAnswerPerConnect, AnswerBeforeData, NoHalfOpen
  <2> QED
    BY <2>2, <2>3, <2>4 DEF Inv
<1>10. CASE \E d \in DeviceIds : ConnectDevice(c, d)
  <2>1. PICK d \in DeviceIds : ConnectDevice(c, d)
    BY <1>10
  <2>2. PICK s \in Sports : /\ find_sport(d, s)
                            /\ ConnectRejected(c, d, s) \/ ConnectStarted(c, d, s)
    BY <2>1 DEF ConnectDevice
  <2>3. /\ UNCHANGED <<device, nextId, stale, phase>>
        /\ device[d] = "ACTIVE" /\ client[c].state = "COMMAND" /\ client[c].owed = 0
    BY <1>00, <2>1 DEF ConnectDevice, MayCommand
  <2>4. nextSport' \in [DeviceIds -> Sports]
    BY <2>2 DEF find_sport, Sports, Inv, TypeOK
  <2>5. CASE ConnectRejected(c, d, s)
    <3>1. /\ client' \in [Clients -> Client]
          /\ \A x \in Clients \ {c} : client'[x] = client[x]
          /\ client'[c].state = "COMMAND" /\ client'[c].owed = 0
          /\ UNCHANGED <<conns, open>>
      BY <1>0, <2>3, <2>5 DEF ConnectRejected, QueueReply, Client
    <3>2. txFailed \subseteq txFailed' /\ txFailed' \subseteq DeviceIds
      BY <2>5 DEF ConnectRejected, Inv, TypeOK
    <3>3. \A k \in conns : client'[k.client] = client[k.client]
      BY <2>3, <3>1 DEF Inv, TypeOK, Conn, ConnHasItsClient
    <3>4. TypeOK' /\ NoHalfOpen' /\ NoStaleConn' /\ OneConnPerClient' /\ SportsDistinct'
      BY <2>3, <2>4, <3>1, <3>2 DEF Inv, TypeOK, NoHalfOpen, NoStaleConn,
         OneConnPerClient, SportsDistinct
    <3>5. ConnHasItsClient' /\ ClientHasItsConn' /\ OneAnswerPerConnect' /\ AnswerBeforeData'
      BY <2>3, <3>1, <3>3 DEF Inv, ConnHasItsClient, ClientHasItsConn,
         OneAnswerPerConnect, AnswerBeforeData
    <3> QED
      BY <3>4, <3>5 DEF Inv
  <2>6. CASE ConnectStarted(c, d, s)
    <3> DEFINE n == [dev |-> d, sport |-> s, client |-> c, state |-> "CONNECTING"]
    <3>1. /\ client' \in [Clients -> Client]
          /\ \A x \in Clients \ {c} : client'[x] = client[x]
          /\ client'[c].state = "CONNECTING1" /\ client'[c].owed = 1
          /\ client'[c].device = d
      BY <1>0, <2>3, <2>6 DEF ConnectStarted, Client
    <3>2. /\ conns' = conns \cup {n} /\ open' = open \cup {Pipe(n)}
          /\ txFailed' = txFailed
      BY <2>6 DEF ConnectStarted, Pipe
    <3>3. n \in Conn /\ n.dev = d /\ n.client = c /\ n.state = "CONNECTING"
      BY DEF Conn
    <3>4. \A k \in conns : Pipe(k) # Pipe(n)
      BY <2>2, <2>6 DEF ConnectStarted, find_sport, SportIsNextFree, ConnsOf, Pipe
    <3>5. \A k \in conns : k.client \in Clients \ {c}
      BY <2>3 DEF Inv, TypeOK, Conn, ConnHasItsClient
    <3> HIDE DEF n
    <3>6. TypeOK'
      BY <2>3, <2>4, <3>1, <3>2, <3>3 DEF Inv, TypeOK, Conn, Pipe
    <3>7. ConnHasItsClient' /\ ClientHasItsConn'
      BY <2>3, <3>1, <3>2, <3>3, <3>5 DEF Inv, ConnHasItsClient, ClientHasItsConn
    <3>8. OneConnPerClient' /\ SportsDistinct' /\ NoStaleConn'
      BY <2>3, <3>2, <3>3, <3>4, <3>5 DEF Inv, OneConnPerClient, SportsDistinct, NoStaleConn
    <3>9. OneAnswerPerConnect' /\ AnswerBeforeData'
      BY <3>1 DEF Inv, OneAnswerPerConnect, AnswerBeforeData
    <3>10. NoHalfOpen'
      BY <3>2 DEF Inv, NoHalfOpen
    <3> QED
      BY <3>6, <3>7, <3>8, <3>9, <3>10 DEF Inv
  <2> QED
    BY <2>2, <2>5, <2>6
<1> QED
  BY <1>1, <1>2, <1>3, <1>4, <1>5, <1>6, <1>7, <1>8, <1>9, <1>10 DEF ClientNext

\* One connection is torn down in a state that fits the one it is in.
LEMMA OneTeardownKeepsInv ==
  ASSUME Inv, NEW k \in conns, NEW state, Teardown(k, state),
         k.state = "CONNECTING" <=> state \in Waiting,
         UNCHANGED <<device, nextId, nextSport>>,
         stale' \in {stale, stale \cup {"overflow"}},
         phase' \in {phase, "undefined"}
  PROVE  Inv'
<1> DEFINE st == [x \in {k} |-> state]
<1>1. PICK F \in SUBSET {k} : connection_teardown(st, F)
  BY DEF Teardown
<1>2. /\ DOMAIN st \subseteq conns
      /\ \A x \in DOMAIN st : x.state = "CONNECTING" <=> st[x] \in Waiting
  OBVIOUS
<1>3. phase' \in {"run", "killed", "down", "undefined"}
  BY DEF Inv, TypeOK
<1> HIDE DEF st
<1> QED
  BY <1>1, <1>2, <1>3, TeardownKeepsInv

\* device_tcp_input keeps it, whichever segment comes in for the connection.
LEMMA TcpInputKeepsInv ==
  ASSUME Inv, NEW d \in DeviceIds, NEW s \in Sports, NEW flags \in Flags,
         device_tcp_input(d, s, flags)
  PROVE  Inv'
<1>0. UNCHANGED <<device, nextId, nextSport, phase>>
  BY DEF device_tcp_input
<1>1. ASSUME NEW k \in conns, TcpInputConnecting(k, flags)
      PROVE  Inv'
  <2>0. /\ k \in Conn /\ k.client \in Clients /\ k.state = "CONNECTING"
        /\ client[k.client] \in Client /\ client[k.client].state = "CONNECTING1"
        /\ client[k.client].device = k.dev /\ client[k.client].owed = 1
    BY <1>1 DEF TcpInputConnecting, Inv, TypeOK, Conn, ConnHasItsClient,
       OneAnswerPerConnect
  <2>1. CASE \E state \in {"CONNECTING", "REFUSED"} : Teardown(k, state) /\ UNCHANGED stale
    BY <1>0, <2>0, <2>1, OneTeardownKeepsInv DEF Waiting
  <2>2. CASE /\ conns' = (conns \ {k}) \cup {[k EXCEPT !.state = "CONNECTED"]}
             /\ client' = [client EXCEPT ![k.client] = client_notify_connect(@, TRUE)]
             /\ UNCHANGED <<open, txFailed, stale>>
    <3> DEFINE n == [k EXCEPT !.state = "CONNECTED"]
               c == k.client
    <3>1. /\ n \in Conn /\ n.state = "CONNECTED"
          /\ n.client = c /\ n.dev = k.dev /\ Pipe(n) = Pipe(k)
      BY <2>0 DEF Conn, Pipe
    <3>2. /\ client_notify_connect(client[c], TRUE) \in Client
          /\ client_notify_connect(client[c], TRUE) =
               [state |-> "CONNECTING2", device |-> k.dev, ob |-> 1, owed |-> 0]
      <4>1. client_notify_connect(client[c], TRUE) =
               [state |-> "CONNECTING2", device |-> k.dev, ob |-> 1, owed |-> 0]
        BY ONLY <2>0 DEF client_notify_connect, Client
      <4>2. k.dev \in DeviceIds \cup {0}
        BY ONLY <2>0 DEF Client
      <4>3. [state |-> "CONNECTING2", device |-> k.dev, ob |-> 1, owed |-> 0] \in Client
        BY ONLY <4>2 DEF Client, HasConn
      <4> QED BY ONLY <4>1, <4>3, Zenon
    <3>3. /\ client' \in [Clients -> Client]
          /\ \A x \in Clients \ {c} : client'[x] = client[x]
          /\ client'[c].state = "CONNECTING2" /\ client'[c].owed = 0
          /\ client'[c].device = k.dev /\ client'[c].ob = 1
      <4>1. client \in [Clients -> Client]
        BY DEF Inv, TypeOK
      <4>2. client' = [client EXCEPT ![c] = client_notify_connect(client[c], TRUE)]
        BY <2>2
      <4>3. client' \in [Clients -> Client] /\ client'[c] = client_notify_connect(client[c], TRUE)
        BY <2>0, <3>2, <4>1, <4>2, Zenon
      <4>4. client'[c] = [state |-> "CONNECTING2", device |-> k.dev, ob |-> 1, owed |-> 0]
        BY <3>2, <4>3, Zenon
      <4>5. \A x \in Clients \ {c} : client'[x] = client[x]
        BY <4>1, <4>2, Zenon
      <4>6. /\ client'[c].state = "CONNECTING2" /\ client'[c].owed = 0
            /\ client'[c].device = k.dev /\ client'[c].ob = 1
        BY <4>4
      <4> QED
        BY <4>3, <4>5, <4>6, Zenon
    <3>4. conns' = (conns \ {k}) \cup {n}
      BY <2>2
    <3>5. \A j \in conns \ {k} : j.client \in Clients \ {c} /\ Pipe(j) # Pipe(n)
      BY <3>1 DEF Inv, TypeOK, Conn, OneConnPerClient, SportsDistinct
    <3> HIDE DEF n
    <3>6. TypeOK'
      BY <1>0, <2>2, <3>1, <3>3, <3>4, Zenon DEF Inv, TypeOK
    <3>7. ConnHasItsClient' /\ ClientHasItsConn'
      <4>1. ConnHasItsClient'
        <5>1. ASSUME NEW j \in conns \ {k}
              PROVE  client'[j.client] = client[j.client]
          BY ONLY <3>3, <3>5, <5>1
        <5>2. UNCHANGED device
          BY <1>0
        <5>3. ASSUME NEW j \in conns \ {k}
              PROVE  /\ device'[j.dev] = "ACTIVE" /\ client'[j.client].device = j.dev
                     /\ client'[j.client].state \in
                          (IF j.state = "CONNECTING" THEN {"CONNECTING1"}
                           ELSE {"CONNECTING2", "CONNECTED"})
          BY <5>1, <5>2, <5>3 DEF Inv, ConnHasItsClient
        <5>4. device[k.dev] = "ACTIVE"
          BY DEF Inv, ConnHasItsClient
        <5>5. /\ device'[n.dev] = "ACTIVE" /\ client'[n.client].device = n.dev
              /\ client'[n.client].state \in
                   (IF n.state = "CONNECTING" THEN {"CONNECTING1"}
                    ELSE {"CONNECTING2", "CONNECTED"})
          BY ONLY <3>1, <3>3, <5>2, <5>4
        <5> QED BY ONLY <3>4, <5>3, <5>5 DEF ConnHasItsClient
      <4>2. ClientHasItsConn'
        BY <3>1, <3>3, <3>4 DEF Inv, ClientHasItsConn
      <4> QED BY <4>1, <4>2
    <3>8. OneConnPerClient' /\ SportsDistinct' /\ NoStaleConn'
      BY <2>2, <3>1, <3>4, <3>5 DEF Inv, OneConnPerClient, SportsDistinct, NoStaleConn
    <3>9. OneAnswerPerConnect' /\ AnswerBeforeData'
      <4>1. OneAnswerPerConnect /\ AnswerBeforeData
        BY DEF Inv
      <4>2. OneAnswerPerConnect'
        BY ONLY <3>3, <4>1 DEF OneAnswerPerConnect
      <4>3. AnswerBeforeData'
        BY ONLY <3>3, <4>1 DEF AnswerBeforeData
      <4> QED BY <4>2, <4>3
    <3>10. NoHalfOpen'
      BY <2>2, <3>1, <3>4 DEF Inv, NoHalfOpen
    <3> QED
      BY <3>6, <3>7, <3>8, <3>9, <3>10 DEF Inv
  <2> QED
    BY <1>1, <2>0, <2>1, <2>2, Zenon DEF TcpInputConnecting
<1>2. ASSUME NEW k \in conns, TcpInputConnected(k, flags)
      PROVE  Inv'
  BY <1>0, <1>2, OneTeardownKeepsInv DEF TcpInputConnected, Waiting
<1>3. CASE /\ \A k \in ConnsOf(d) : k.sport # s
           /\ open' \in {open, open \ {<<d, s>>}}
           /\ txFailed' \in {txFailed, txFailed \cup {d}}
           /\ UNCHANGED <<conns, client, stale>>
  <2>1. NoHalfOpen'
    BY <1>3 DEF Inv, NoHalfOpen, ConnsOf, Pipe
  <2>2. TypeOK'
    BY <1>0, <1>3 DEF Inv, TypeOK
  <2>3. ConnHasItsClient' /\ ClientHasItsConn'
    BY <1>0, <1>3 DEF Inv, ConnHasItsClient, ClientHasItsConn
  <2>4. OneConnPerClient' /\ SportsDistinct' /\ NoStaleConn'
    BY <1>3 DEF Inv, OneConnPerClient, SportsDistinct, NoStaleConn
  <2>5. OneAnswerPerConnect' /\ AnswerBeforeData'
    BY <1>3 DEF Inv, OneAnswerPerConnect, AnswerBeforeData
  <2> QED
    BY <2>1, <2>2, <2>3, <2>4, <2>5 DEF Inv
<1> QED
  BY <1>1, <1>2, <1>3 DEF device_tcp_input, ConnsOf

\* Devices go without RST: what their connections leave behind is the same.
LEMMA RemoveKeepsInv ==
  ASSUME Inv, NEW d \in DeviceIds, DeviceRemove(d)
  PROVE  Inv'
<1>0. UNCHANGED <<nextId, nextSport, txFailed, stale, phase>>
  BY DEF DeviceRemove
<1> DEFINE K == {k \in conns : k.dev = d}
<1>1. K = {k \in conns : k.dev \in {d} /\ device[k.dev] = "ACTIVE"}
  BY DEF Inv, ConnHasItsClient
<1> DEFINE st == [k \in K |-> k.state]
<1>2. /\ device' = [e \in DeviceIds |-> IF e = d THEN "NONE" ELSE device[e]]
      /\ conns' = conns \ K
      /\ open' = {p \in open : p[1] # d}
      /\ \/ client' = [c \in Clients |-> AfterTeardown(c, st)]
         \/ client' = [c \in Clients |-> TellListener(AfterTeardown(c, st))]
  BY <1>1 DEF DeviceRemove, device_remove
<1>3. \A k \in conns : k \in Conn /\ k.client \in Clients /\ client[k.client] \in Client
  BY DEF Inv, TypeOK, Conn
<1>4. FreeClient \in Client /\ FreeClient.owed = 0 /\ FreeClient.state = "FREE"
  BY DEF FreeClient, Client
<1>5. \A c \in Clients :
        \/ AfterTeardown(c, st) = client[c] /\ \A k \in K : k.client # c
        \/ /\ AfterTeardown(c, st) \in Client /\ AfterTeardown(c, st).owed = 0
           /\ AfterTeardown(c, st).state \in {"FREE", "COMMAND"}
  <2> SUFFICES ASSUME NEW c \in Clients, NEW k \in K, k.client = c
               PROVE  /\ AfterTeardown(c, st) \in Client /\ AfterTeardown(c, st).owed = 0
                      /\ AfterTeardown(c, st).state \in {"FREE", "COMMAND"}
    BY Zenon DEF AfterTeardown
  <2>1. \A j \in K : j.client = c => j = k
    BY DEF Inv, OneConnPerClient
  <2>2. k.state \in {"CONNECTING", "CONNECTED"}
    BY <1>3 DEF Conn
  <2>3. CASE k.state = "CONNECTED"
    BY <1>4, <2>3, Zenon DEF AfterTeardown, Waiting
  <2>4. CASE k.state = "CONNECTING"
    <3>1. client[c].state = "CONNECTING1" /\ client[c].owed = 1
      BY <2>4 DEF Inv, ConnHasItsClient, OneAnswerPerConnect
    <3>2. AfterTeardown(c, st) = client_notify_connect(client[c], FALSE)
      BY <2>1, <2>4, Zenon DEF AfterTeardown, Waiting
    <3> QED
      BY <1>3, <3>1, <3>2, RefusedClient, Zenon
  <2> QED BY <2>2, <2>3, <2>4, SMTT(30)
<1>6. \A r \in Client : /\ TellListener(r) \in Client
                        /\ TellListener(r).state = r.state /\ TellListener(r).owed = r.owed
                        /\ r.state # "LISTEN" => TellListener(r) = r
  BY DEF TellListener, QueueReply, Client
<1>7. /\ client' \in [Clients -> Client]
      /\ \A c \in Clients :
           \/ /\ client'[c].state = client[c].state /\ client'[c].owed = client[c].owed
              /\ client[c].state # "LISTEN" => client'[c] = client[c]
              /\ \A k \in K : k.client # c
           \/ client'[c].owed = 0 /\ client'[c].state \in {"FREE", "COMMAND"}
  <2>1. \A c \in Clients : client[c] \in Client
    BY DEF Inv, TypeOK
  <2> DEFINE after(c) == AfterTeardown(c, st)
  <2> HIDE DEF st, K
  <2>2. \A c \in Clients : after(c) \in Client
    BY ONLY <1>5, <2>1
  <2>3. \A c \in Clients : client'[c] \in {after(c), TellListener(after(c))}
    BY ONLY <1>2
  <2>4. client' \in [Clients -> Client]
    BY ONLY <1>2, <1>6, <2>2
  <2>5. ASSUME NEW c \in Clients
        PROVE  /\ client'[c].state = after(c).state /\ client'[c].owed = after(c).owed
               /\ after(c).state # "LISTEN" => client'[c] = after(c)
    BY ONLY <1>6, <2>2, <2>3, <2>5
  <2> QED BY ONLY <1>5, <2>4, <2>5
<1> HIDE DEF st, K
<1>8. \A k \in conns \ K : client'[k.client] = client[k.client]
  <2> SUFFICES ASSUME NEW k \in conns \ K
               PROVE  client'[k.client] = client[k.client]
    OBVIOUS
  <2>1. client[k.client].state \in HasConn
    BY DEF Inv, ConnHasItsClient, HasConn
  <2>2. \A j \in K : j.client # k.client
    BY DEF K, Inv, OneConnPerClient
  <2>3. AfterTeardown(k.client, st) = client[k.client]
    BY <2>2, Zenon DEF AfterTeardown, st
  <2> QED
    BY <1>2, <1>3, <1>6, <2>1, <2>3 DEF HasConn
<1>9. TypeOK'
  BY <1>0, <1>2, <1>7 DEF Inv, TypeOK
<1>10. ConnHasItsClient'
  BY <1>2, <1>3, <1>8 DEF Inv, ConnHasItsClient, Conn, K
<1>11. ClientHasItsConn'
  BY <1>2, <1>7 DEF Inv, ClientHasItsConn, HasConn
<1>12. OneConnPerClient' /\ SportsDistinct' /\ NoStaleConn'
  BY <1>0, <1>2, SMTT(30) DEF Inv, OneConnPerClient, SportsDistinct, NoStaleConn
<1>13. OneAnswerPerConnect' /\ AnswerBeforeData'
  <2>1. OneAnswerPerConnect /\ AnswerBeforeData
    BY DEF Inv
  <2> QED BY ONLY <1>7, <2>1, SMTT(30) DEF OneAnswerPerConnect, AnswerBeforeData
<1>14. NoHalfOpen'
  BY <1>0, <1>2 DEF Inv, NoHalfOpen, Pipe, K
<1> QED
  BY <1>9, <1>10, <1>11, <1>12, <1>13, <1>14 DEF Inv

\* So does every step.
LEMMA NextKeepsInv == Inv /\ [Next]_vars => Inv'
<1> SUFFICES ASSUME Inv, [Next]_vars PROVE Inv'
  OBVIOUS
<1>1. ASSUME NEW c \in Clients, ClientNext(c) PROVE Inv'
  BY <1>1, ClientStepKeepsInv
<1>2. ASSUME NEW d \in DeviceIds, DeviceNext(d) PROVE Inv'
  <2>1. CASE \E s \in Sports, flags \in Flags : device_tcp_input(d, s, flags)
    BY <2>1, TcpInputKeepsInv
  <2>2. CASE device_version_input(d)
    <3>1. UNCHANGED <<conns, client, nextId, nextSport, open, txFailed, stale, phase>>
      BY <2>2 DEF device_version_input
    <3>2. TypeOK'
      BY <2>2, <3>1 DEF device_version_input, Inv, TypeOK
    <3>3. ConnHasItsClient'
      <4>1. \A x \in DeviceIds : device[x] = "ACTIVE" => device'[x] = "ACTIVE"
        BY <2>2 DEF device_version_input, Inv, TypeOK
      <4>2. \A k \in conns : k.dev \in DeviceIds
        BY DEF Inv, TypeOK, Conn
      <4> QED BY <3>1, <4>1, <4>2 DEF Inv, ConnHasItsClient
    <3>4. /\ ClientHasItsConn' /\ OneConnPerClient' /\ SportsDistinct'
          /\ OneAnswerPerConnect' /\ AnswerBeforeData' /\ NoStaleConn'
      BY <3>1 DEF Inv, ClientHasItsConn, OneConnPerClient, SportsDistinct,
         OneAnswerPerConnect, AnswerBeforeData, NoStaleConn
    <3>5. NoHalfOpen'
      BY <3>1 DEF Inv, NoHalfOpen
    <3> QED
      BY <3>2, <3>3, <3>4, <3>5 DEF Inv
  <2>3. CASE DeviceRemove(d)
    BY <2>3, RemoveKeepsInv
  <2>4. CASE \E s \in Sports : TcpInputOverflow(d, s)
    <3>1. PICK k \in conns : k.state = "CONNECTED" /\ Teardown(k, "CONNECTED")
      BY <2>4 DEF TcpInputOverflow, ConnsOf
    <3>2. /\ UNCHANGED <<device, nextId, nextSport>> /\ phase' = "undefined"
          /\ stale' = stale \cup {"overflow"}
      BY <2>4 DEF TcpInputOverflow
    <3> QED BY <3>1, <3>2, OneTeardownKeepsInv DEF Waiting
  <2> QED BY <1>2, <2>1, <2>2, <2>3, <2>4 DEF DeviceNext
<1>3. CASE client_device_add
  <2>1. /\ client \in [Clients -> Client]
        /\ \A c \in Clients : client[c].state \notin HasConn => client[c].owed = 0
    BY DEF Inv, TypeOK, OneAnswerPerConnect, HasConn
  <2> QED
    BY <1>3, <2>1, IdleStepKeepsInv DEF client_device_add, TellListener, QueueReply,
       Client, HasConn
<1>4. CASE device_add
  <2>1. PICK d \in DeviceIds :
          /\ device[d] = "NONE" /\ nextId' = d + 1
          /\ device' \in {device, [device EXCEPT ![d] = "INIT"]}
          /\ nextSport' = [nextSport EXCEPT ![d] = 1]
    BY <1>4, Zenon DEF device_add, get_next_device_id
  <2>2. UNCHANGED <<conns, client, open, txFailed, stale, phase>>
    BY <1>4 DEF device_add
  <2>3. TypeOK'
    <3>1. device' \in [DeviceIds -> {"NONE", "INIT", "ACTIVE"}]
      BY <2>1 DEF Inv, TypeOK
    <3>2. nextId' \in 1..(MaxDeviceId + 1)
      BY ONLY <2>1, MuxConnAssumption DEF DeviceIds
    <3>3. 1 \in Sports
      BY ONLY MuxConnAssumption DEF Sports
    <3>4. nextSport' \in [DeviceIds -> Sports]
      BY <2>1, <3>3 DEF Inv, TypeOK
    <3> QED
      BY <2>2, <3>1, <3>2, <3>4 DEF Inv, TypeOK
  <2>4. ConnHasItsClient'
    BY <2>1, <2>2 DEF Inv, TypeOK, ConnHasItsClient, Conn
  <2>5. /\ ClientHasItsConn' /\ OneConnPerClient' /\ SportsDistinct'
        /\ OneAnswerPerConnect' /\ AnswerBeforeData' /\ NoStaleConn'
    BY <2>2 DEF Inv, ClientHasItsConn, OneConnPerClient, SportsDistinct,
       OneAnswerPerConnect, AnswerBeforeData, NoStaleConn
  <2>6. NoHalfOpen'
    BY <2>2 DEF Inv, NoHalfOpen
  <2> QED
    BY <2>3, <2>4, <2>5, <2>6 DEF Inv
<1>5. CASE device_check_timeouts
  <2>1. PICK K \in SUBSET {k \in conns : k.state = "CONNECTED"} :
          \E F \in SUBSET K : connection_teardown([k \in K |-> k.state], F)
    BY <1>5, Zenon DEF device_check_timeouts
  <2> DEFINE st == [k \in K |-> k.state]
  <2>2. /\ DOMAIN st \subseteq conns
        /\ \A k \in DOMAIN st : k.state = "CONNECTING" <=> st[k] \in Waiting
    BY DEF Waiting
  <2>3. UNCHANGED <<device, nextId, nextSport, stale, phase>>
    BY <1>5 DEF device_check_timeouts
  <2>4. phase' \in {"run", "killed", "down", "undefined"}
    BY <2>3 DEF Inv, TypeOK
  <2>5. PICK F : connection_teardown(st, F)
    BY <2>1
  <2> HIDE DEF st
  <2> QED
    BY <2>2, <2>3, <2>4, <2>5, TeardownKeepsInv
<1>6. CASE device_kill_connections
  <2>1. PICK K \in SUBSET conns :
          \E F \in SUBSET K : connection_teardown([k \in K |-> k.state], F)
    BY <1>6, Zenon DEF device_kill_connections
  <2> DEFINE st == [k \in K |-> k.state]
  <2>2. /\ DOMAIN st \subseteq conns
        /\ \A k \in DOMAIN st : k.state = "CONNECTING" <=> st[k] \in Waiting
    BY DEF Waiting, Inv, TypeOK, Conn
  <2>3. UNCHANGED <<device, nextId, nextSport, stale>> /\ phase' = "killed"
    BY <1>6 DEF device_kill_connections
  <2>4. PICK F : connection_teardown(st, F)
    BY <2>1
  <2> HIDE DEF st
  <2> QED
    BY <2>2, <2>3, <2>4, TeardownKeepsInv
<1>7. CASE shutdown
  <2>1. conns' = {} /\ open' = {} /\ client' = [c \in Clients |-> FreeClient]
    BY <1>7 DEF shutdown, Inv, ConnHasItsClient
  <2>2. FreeClient \in Client /\ FreeClient.state = "FREE" /\ FreeClient.owed = 0
    BY DEF FreeClient, Client
  <2>3. TypeOK'
    BY <1>7, <2>1, <2>2, SMTT(30) DEF shutdown, Inv, TypeOK
  <2>4. /\ ConnHasItsClient' /\ OneConnPerClient' /\ SportsDistinct' /\ NoHalfOpen'
        /\ NoStaleConn'
    BY <1>7, <2>1 DEF shutdown, Inv, ConnHasItsClient, OneConnPerClient, SportsDistinct,
       NoHalfOpen, NoStaleConn
  <2>5. ClientHasItsConn' /\ OneAnswerPerConnect' /\ AnswerBeforeData'
    BY <2>1, <2>2, SMTT(30) DEF ClientHasItsConn, OneAnswerPerConnect, AnswerBeforeData, HasConn
  <2> QED
    BY <2>3, <2>4, <2>5 DEF Inv
<1>8. CASE UNCHANGED vars
  BY <1>8 DEF vars, Inv, TypeOK, ConnHasItsClient, ClientHasItsConn,
     OneConnPerClient, SportsDistinct, OneAnswerPerConnect, AnswerBeforeData,
     NoHalfOpen, NoStaleConn
<1> QED
  BY <1>1, <1>2, <1>3, <1>4, <1>5, <1>6, <1>7, <1>8 DEF Next, Ended

\* The tables stay coherent (connection_teardown, client_close, device_remove
\* and the handlers that call them).
THEOREM Invariant == Spec => []Inv
BY InitInv, NextKeepsInv, PTL DEF Spec

\* The type invariant.
THEOREM TypeCorrect == Spec => []TypeOK
BY Invariant, PTL DEF Inv

\* No connection outlives its client or its device, no client waits for a
\* connection that is gone, and none has two.
THEOREM PairsStayTogether == Spec => []PairsMatch
BY Invariant, PTL DEF Inv, PairsMatch

\* find_sport never gives a port twice, wherever next_sport stands.
THEOREM PortsStayDistinct == Spec => []SportsDistinct
BY Invariant, PTL DEF Inv

\* A Connect is answered once.
THEOREM ConnectsAnsweredOnce == Spec => []OneAnswerPerConnect
BY Invariant, PTL DEF Inv

\* Its answer comes before any of the device's bytes.
THEOREM AnswersComeFirst == Spec => []AnswerBeforeData
BY Invariant, PTL DEF Inv

\* Every connection that goes is reset by one end or the other.
THEOREM EndsAgree == Spec => []NoHalfOpen
BY Invariant, PTL DEF Inv

\* update_connection never runs on a freed connection when a SYN|ACK comes in.
THEOREM NoUseOfFreedConn == Spec => []NoStaleConn
BY Invariant, PTL DEF Inv

\* Ids go up: get_next_device_id never gives one again.
THEOREM IdsStayUnique == Spec => IdsNeverReused
<1> DEFINE A == \A d \in DeviceIds : d < nextId /\ device[d] = "NONE" => device'[d] = "NONE"
<1>1. Inv /\ [Next]_vars => [A]_vars
  <2> SUFFICES ASSUME Inv, Next PROVE A
    OBVIOUS
  <2>0. nextId \in Nat /\ \A d \in DeviceIds : d \in Nat
    BY DEF Inv, TypeOK, DeviceIds
  <2>1. CASE device' = device
    BY <2>1
  <2>2. CASE \E d \in DeviceIds : /\ d >= nextId
                                  /\ device' = [device EXCEPT ![d] = "INIT"]
    BY <2>0, <2>2 DEF Inv, TypeOK
  <2>3. CASE \E D \in SUBSET DeviceIds :
               device' = [d \in DeviceIds |-> IF d \in D THEN "NONE" ELSE device[d]]
    BY <2>3
  <2>4. CASE \E d \in DeviceIds : device_version_input(d)
    BY <2>4 DEF device_version_input, Inv, TypeOK
  <2>5. ASSUME NEW c \in Clients, ClientNext(c) PROVE device' = device
    BY <2>5 DEF ClientNext, client_accept, ConnectNoDevice, ConnectInitDevice,
       ConnectDevice, start_listen, AnswerCommand, WrongStateCommand, ClientFails,
       output_buffer_process, device_client_process
  <2>6. ASSUME NEW d \in DeviceIds, DeviceNext(d) PROVE A
    <3>1. CASE \E s \in Sports, flags \in Flags : device_tcp_input(d, s, flags)
      BY <2>1, <3>1 DEF device_tcp_input
    <3>2. CASE DeviceRemove(d)
      BY <2>3, <3>2 DEF DeviceRemove, device_remove
    <3>3. CASE \E s \in Sports : TcpInputOverflow(d, s)
      BY <2>1, <3>3 DEF TcpInputOverflow
    <3> QED BY <2>4, <2>6, <3>1, <3>2, <3>3 DEF DeviceNext
  <2>7. CASE device_add
    BY <2>1, <2>2, <2>7 DEF device_add, get_next_device_id
  <2>8. CASE client_device_add \/ device_check_timeouts \/ device_kill_connections
    BY <2>1, <2>8 DEF client_device_add, device_check_timeouts, device_kill_connections
  <2>9. CASE shutdown
    BY <2>9 DEF shutdown
  <2> HIDE DEF A
  <2> QED
    BY <2>1, <2>5, <2>6, <2>7, <2>8, <2>9 DEF Next, Ended, vars
<1> QED
  BY <1>1, Invariant, PTL DEF Spec, IdsNeverReused, A

=============================================================================
