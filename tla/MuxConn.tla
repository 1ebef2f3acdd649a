------------------------------ MODULE MuxConn ------------------------------
(***************************************************************************)
(* The connection tables of usbmuxd: the clients of client.c, the devices  *)
(* and their connections of device.c, and every handler that creates,      *)
(* moves or frees one of them.  The main thread runs one handler at a      *)
(* time, so a handler is one action.  States that exist only inside a      *)
(* handler (CLIENT_DEAD, CONN_DEAD, CONN_REFUSED, CONN_DYING, MUXDEV_DEAD) *)
(* appear in the operators, never in a state.  The device is arbitrary: it *)
(* may send any TCP segment at any time.  Bytes and windows are MuxFlow's. *)
(***************************************************************************)
EXTENDS Integers, FiniteSets

CONSTANTS
  Clients,      \* the struct mux_client objects the daemon may have at a time
  MaxDeviceId,  \* bound: the device ids device_add may hand out
  SportMod      \* number of values of next_sport, 65536 in the code

ASSUME MuxConnAssumption ==
  /\ MaxDeviceId \in Nat
  /\ SportMod \in Nat \ {0, 1}

VARIABLES
  device,     \* id -> state of the device in device_list, "NONE" if not there
  nextId,     \* next_device_id
  nextSport,  \* id -> dev->next_sport
  conns,      \* the connections of all devices
  client,     \* client -> its fields, state "FREE" if not in client_list
  open,       \* <<device, sport>> SYN went out for, and no RST either way since
  txFailed,   \* devices a segment could not be submitted to
  stale,      \* objects that were used after they were freed or unset
  phase       \* "run", then "killed" and "down" as main() shuts down

vars == <<device, nextId, nextSport, conns, client, open, txFailed, stale,
          phase>>

DeviceIds == 1..MaxDeviceId
Sports == 0..(SportMod - 1)
Flags == {"SYN|ACK", "ACK", "RST", "OTHER"}
Waiting == {"CONNECTING", "REFUSED"}
ResetByDevice == {"REFUSED", "DYING"}
HasConn == {"CONNECTING1", "CONNECTING2", "CONNECTED"}

Conn == [dev : DeviceIds, sport : Sports, client : Clients,
         state : {"CONNECTING", "CONNECTED"}]

\* ob: ob_size, 1 standing for any size but 0; owed: Connect requests taken but not answered yet.
Client == [state : {"FREE", "COMMAND", "LISTEN"} \cup HasConn,
           device : DeviceIds \cup {0}, ob : {0, 1}, owed : Int]

FreeClient == [state |-> "FREE", device |-> 0, ob |-> 0, owed |-> 0]

Init ==
  /\ device = [d \in DeviceIds |-> "NONE"]
  /\ nextId = 1
  /\ nextSport = [d \in DeviceIds |-> 1]
  /\ conns = {}
  /\ client = [c \in Clients |-> FreeClient]
  /\ open = {}
  /\ txFailed = {}
  /\ stale = {}
  /\ phase = "run"

Pipe(k) == <<k.dev, k.sport>>
ConnsOf(d) == {k \in conns : k.dev = d}

(***************************************************************************)
(* Client-side effects of what happens to a connection.                    *)
(***************************************************************************)
QueueReply(r) == [r EXCEPT !.ob = 1]

NotifyKeepsState(r, ok) ==
  IF r.state = "CONNECTING1"
    THEN [r EXCEPT !.state = IF ok THEN "CONNECTING2" ELSE @,
                   !.ob = 1, !.owed = @ - 1]
    ELSE r

\* client_notify_connect: the answer to a Connect; -1 and nothing done unless
\* the client is in CONNECTING1.
client_notify_connect(r, ok) ==
  IF r.state = "CONNECTING1"
    THEN [state |-> IF ok THEN "CONNECTING2" ELSE "COMMAND",
          device |-> r.device, ob |-> 1, owed |-> r.owed - 1]
    ELSE r

TeardownWithoutNotify(c, st) ==
  IF \E k \in DOMAIN st : k.client = c /\ st[k] \notin Waiting
    THEN FreeClient
    ELSE client[c]

\* What teardown of the connections in DOMAIN st, each in state st[k], does to
\* client c: a waiting one is told of the refusal, an established one closed.
AfterTeardown(c, st) ==
  IF \E k \in DOMAIN st : k.client = c /\ st[k] \notin Waiting
    THEN FreeClient
    ELSE IF \E k \in DOMAIN st : k.client = c
           THEN client_notify_connect(client[c], FALSE)
           ELSE client[c]

\* client_device_add, client_device_remove, client_device_paired.
TellListener(r) == IF r.state = "LISTEN" THEN QueueReply(r) ELSE r

NeedsRstOnceConnected(state) == state = "CONNECTED"

\* connection_teardown sends an RST unless the device itself has reset the
\* connection.
NeedsRst(state) == state \notin ResetByDevice

\* The wire after teardown of the connections in DOMAIN st; the RSTs for those
\* in F cannot be submitted.
SendRst(st, F) ==
  /\ F \subseteq {k \in DOMAIN st : NeedsRst(st[k])}
  /\ open' = open \ {Pipe(k) : k \in {x \in DOMAIN st \ F :
                                     NeedsRst(st[x]) \/ st[x] \in ResetByDevice}}
  /\ txFailed' = txFailed \cup {k.dev : k \in F}

\* connection_teardown of every connection in DOMAIN st, on live devices.
connection_teardown(st, F) ==
  /\ conns' = conns \ DOMAIN st
  /\ client' = [c \in Clients |-> AfterTeardown(c, st)]
  /\ SendRst(st, F)

Teardown(k, state) ==
  \E F \in SUBSET {k} : connection_teardown([x \in {k} |-> state], F)

AbortedConnecting2(c) ==
  IF client[c].state = "CONNECTING2"
    THEN {k \in conns : k.dev = client[c].device /\ k.client = c}
    ELSE {}

\* The connection device_abort_connect finds for a client that is closed.
Aborted(c) ==
  IF client[c].state \in {"CONNECTING1", "CONNECTING2"}
    THEN {k \in conns : k.dev = client[c].device /\ k.client = c}
    ELSE {}

\* client_close: conn->client is cleared first, so that the teardown of the
\* aborted connection does not come back to the client.
client_close(c) ==
  \E F \in SUBSET Aborted(c) :
    /\ conns' = conns \ Aborted(c)
    /\ client' = [client EXCEPT ![c] = FreeClient]
    /\ SendRst([k \in Aborted(c) |-> k.state], F)

(***************************************************************************)
(* Handlers of client.c.                                                   *)
(***************************************************************************)
\* handle_command takes a command only in CLIENT_COMMAND.
MayCommand(c) == client[c].state = "COMMAND"

client_accept(c) ==
  /\ phase = "run"
  /\ client[c].state = "FREE"
  /\ client' = [client EXCEPT ![c] = [FreeClient EXCEPT !.state = "COMMAND"]]
  /\ UNCHANGED <<device, nextId, nextSport, conns, open, txFailed, stale, phase>>

SportIsNext(d, s) == s = nextSport[d]

\* Every port from next_sport up to s, cyclically, is taken; s is free.
SportIsNextFree(d, s) ==
  LET Used == {k.sport : k \in ConnsOf(d)}
      Ahead(t) == (t - nextSport[d]) % SportMod
  IN  /\ s \in Sports \ Used
      /\ \A t \in Sports \ Used : Ahead(s) <= Ahead(t)

\* collection_count(&dev->connections) >= 65535
SportsFull(d) == Cardinality(ConnsOf(d)) >= SportMod - 1

\* find_sport returns s; 0 stands for "no port" and for port 0.
find_sport(d, s) ==
  \/ /\ SportsFull(d)
     /\ s = 0
     /\ UNCHANGED nextSport
  \/ /\ ~SportsFull(d)
     /\ SportIsNextFree(d, s)
     /\ nextSport' = [nextSport EXCEPT ![d] = (s + 1) % SportMod]

\* A Connect for a device that is not there is answered RESULT_BADDEV.
ConnectNoDevice(c) ==
  /\ phase = "run"
  /\ MayCommand(c)
  /\ client' = [client EXCEPT ![c] = QueueReply(@)]
  /\ UNCHANGED <<device, nextId, nextSport, conns, open, txFailed, stale, phase>>

\* A Connect for a device whose version packet is not in yet: its connections
\* collection is not initialised, and nothing is said of what comes after.
ConnectInitDevice(c, d) ==
  /\ phase = "run"
  /\ MayCommand(c)
  /\ device[d] = "INIT"
  /\ stale' = stale \cup {"connections"}
  /\ phase' = "undefined"
  /\ UNCHANGED <<device, nextId, nextSport, conns, client, open, txFailed>>

\* device_start_connect without a port, or with a SYN that cannot be submitted:
\* the client is told and stays in CLIENT_COMMAND.
ConnectRejected(c, d, s) ==
  /\ client' = [client EXCEPT ![c] = QueueReply(@)]
  /\ txFailed' = IF s = 0 THEN txFailed ELSE txFailed \cup {d}
  /\ UNCHANGED <<conns, open>>

\* device_start_connect with the SYN out.
ConnectStarted(c, d, s) ==
  /\ s # 0
  /\ conns' = conns \cup {[dev |-> d, sport |-> s, client |-> c,
                           state |-> "CONNECTING"]}
  /\ open' = open \cup {<<d, s>>}
  /\ client' = [client EXCEPT ![c].state = "CONNECTING1", ![c].device = d,
                              ![c].owed = @ + 1]
  /\ UNCHANGED txFailed

\* A Connect for an active device.
ConnectDevice(c, d) ==
  /\ phase = "run"
  /\ MayCommand(c)
  /\ device[d] = "ACTIVE"
  /\ \E s \in Sports :
       find_sport(d, s) /\ (ConnectRejected(c, d, s) \/ ConnectStarted(c, d, s))
  /\ UNCHANGED <<device, nextId, stale, phase>>

\* Listen: the result, then the state, then the visible devices.
start_listen(c) ==
  /\ phase = "run"
  /\ MayCommand(c)
  /\ client' = [client EXCEPT ![c] = [@ EXCEPT !.state = "LISTEN", !.ob = 1]]
  /\ UNCHANGED <<device, nextId, nextSport, conns, open, txFailed, stale, phase>>

\* Every other command of handle_command is answered in place;
\* SavePairRecord also tells the listeners.
AnswerCommand(c) ==
  /\ phase = "run"
  /\ MayCommand(c)
  /\ \E Told \in {{}, Clients} :
       client' = [x \in Clients |-> IF x = c THEN QueueReply(client[x])
                                    ELSE IF x \in Told THEN TellListener(client[x])
                                    ELSE client[x]]
  /\ UNCHANGED <<device, nextId, nextSport, conns, open, txFailed, stale, phase>>

\* A command outside CLIENT_COMMAND: handle_command closes the client, and
\* input_buffer_process then stores to client->ib_size.
WrongStateCommand(c) ==
  /\ phase = "run"
  /\ client[c].state \in {"LISTEN", "CONNECTING1"}
  /\ client_close(c)
  /\ stale' = stale \cup {"client"}
  /\ UNCHANGED <<device, nextId, nextSport, phase>>

\* input_buffer_process or output_buffer_process closes a client that is not
\* CONNECTED: end of file, an error, a message of an impossible length.
ClientFails(c) ==
  /\ phase = "run"
  /\ client[c].state \notin {"FREE", "CONNECTED"}
  /\ client_close(c)
  /\ UNCHANGED <<device, nextId, nextSport, stale, phase>>

\* output_buffer_process with the whole buffer sent (a partial send leaves all
\* of this as it is).
output_buffer_process(c) ==
  /\ phase = "run"
  /\ client[c].state \notin {"FREE", "CONNECTED"}
  /\ client[c].ob # 0
  /\ client' = [client EXCEPT ![c].ob = 0,
                              ![c].state = IF @ = "CONNECTING2" THEN "CONNECTED"
                                           ELSE @]
  /\ UNCHANGED <<device, nextId, nextSport, conns, open, txFailed, stale, phase>>

\* client_device_add from the preflight of a device.
client_device_add ==
  /\ phase \in {"run", "killed"}
  /\ client' = [c \in Clients |-> TellListener(client[c])]
  /\ UNCHANGED <<device, nextId, nextSport, conns, open, txFailed, stale, phase>>

(***************************************************************************)
(* Handlers of device.c.                                                   *)
(***************************************************************************)
\* device_client_process ends a connection: the client's end of file or error,
\* or data that cannot be submitted to the device.
device_client_process(c) ==
  /\ phase = "run"
  /\ client[c].state = "CONNECTED"
  /\ \E k \in conns :
       /\ k.dev = client[c].device /\ k.client = c
       /\ Teardown(k, k.state)
  /\ UNCHANGED <<device, nextId, nextSport, stale, phase>>

\* device_tcp_input for a connection still CONNECTING.
TcpInputConnecting(k, flags) ==
  /\ k.state = "CONNECTING"
  /\ \/ /\ flags # "SYN|ACK"
        /\ Teardown(k, IF flags = "RST" THEN "REFUSED" ELSE "CONNECTING")
        /\ UNCHANGED stale
     \/ /\ flags = "SYN|ACK"               \* the ACK cannot be submitted
        /\ Teardown(k, "CONNECTING")
        /\ UNCHANGED stale
     \/ /\ flags = "SYN|ACK"
        /\ client[k.client].state = "CONNECTING1"
        /\ conns' = (conns \ {k}) \cup {[k EXCEPT !.state = "CONNECTED"]}
        /\ client' = [client EXCEPT ![k.client] = client_notify_connect(@, TRUE)]
        /\ UNCHANGED <<open, txFailed, stale>>
     \/ /\ flags = "SYN|ACK"               \* client_notify_connect fails
        /\ client[k.client].state # "CONNECTING1"
        /\ conns' = conns \ {k}
        /\ \E F \in SUBSET {k} : SendRst([x \in {k} |-> "CONNECTED"], F)
        /\ stale' = stale \cup {"conn"}    \* update_connection(conn)
        /\ UNCHANGED client

\* device_tcp_input for a CONNECTED one: a reset, or data whose ACK either goes
\* out (nothing changes here) or cannot be submitted.
TcpInputConnected(k, flags) ==
  /\ k.state = "CONNECTED"
  /\ Teardown(k, IF flags = "RST" THEN "DYING" ELSE "CONNECTED")
  /\ UNCHANGED stale

device_tcp_input(d, s, flags) ==
  /\ phase \in {"run", "killed"}
  /\ device[d] = "ACTIVE"
  /\ \/ \E k \in ConnsOf(d) :
          /\ k.sport = s
          /\ TcpInputConnecting(k, flags) \/ TcpInputConnected(k, flags)
     \/ /\ \A k \in ConnsOf(d) : k.sport # s
        /\ \/ /\ open' = open \ {<<d, s>>}  \* send_anon_rst, or the device's own
              /\ UNCHANGED txFailed
           \/ /\ flags # "RST"
              /\ txFailed' = txFailed \cup {d}
              /\ UNCHANGED open
        /\ UNCHANGED <<conns, client, stale>>
  /\ UNCHANGED <<device, nextId, nextSport, phase>>

\* Data that does not fit into ib_buf: connection_device_input frees the
\* connection, device_tcp_input goes on to send_tcp_ack on it, and nothing is
\* said of what comes after.  A device that keeps to tx_win sends none (MuxFlow).
TcpInputOverflow(d, s) ==
  /\ phase \in {"run", "killed"}
  /\ device[d] = "ACTIVE"
  /\ \E k \in ConnsOf(d) :
       k.sport = s /\ k.state = "CONNECTED" /\ Teardown(k, "CONNECTED")
  /\ stale' = stale \cup {"overflow"}
  /\ phase' = "undefined"
  /\ UNCHANGED <<device, nextId, nextSport>>

\* get_next_device_id returns d: ids go up, and skip the ones in the list.
get_next_device_id(d) ==
  /\ d >= nextId /\ device[d] = "NONE"
  /\ \A e \in nextId..(d - 1) : device[e] # "NONE"

\* device_add; the id is used up also when the version
\* packet cannot be submitted and the device is dropped.
device_add ==
  /\ phase \in {"run", "killed"}
  /\ \E d \in DeviceIds :
       /\ get_next_device_id(d)
       /\ nextId' = d + 1
       /\ \/ device' = [device EXCEPT ![d] = "INIT"]
          \/ UNCHANGED device
       /\ nextSport' = [nextSport EXCEPT ![d] = 1]
  /\ UNCHANGED <<conns, client, open, txFailed, stale, phase>>

\* device_version_input; a device with an unknown version leaves the list.
device_version_input(d) ==
  /\ phase \in {"run", "killed"}
  /\ device[d] = "INIT"
  /\ \E s \in {"ACTIVE", "NONE"} : device' = [device EXCEPT ![d] = s]
  /\ UNCHANGED <<nextId, nextSport, conns, client, open, txFailed, stale, phase>>

\* device_remove of the devices D: connections of a MUXDEV_DEAD device are torn
\* down without RST, and the listeners are told.
device_remove(D) ==
  LET Gone == {k \in conns : k.dev \in D /\ device[k.dev] = "ACTIVE"}
      st == [k \in Gone |-> k.state]
      Told == \E d \in D : device[d] = "ACTIVE"
  IN  /\ device' = [d \in DeviceIds |-> IF d \in D THEN "NONE" ELSE device[d]]
      /\ conns' = conns \ Gone
      /\ client' = [c \in Clients |-> IF Told THEN TellListener(AfterTeardown(c, st))
                                      ELSE AfterTeardown(c, st)]
      /\ open' = {p \in open : p[1] \notin D}

DeviceRemove(d) ==
  /\ phase \in {"run", "killed"}
  /\ device[d] # "NONE"
  /\ device_remove({d})
  /\ UNCHANGED <<nextId, nextSport, txFailed, stale, phase>>

\* device_check_timeouts: the connections K whose due ACK cannot be submitted.
device_check_timeouts ==
  /\ phase = "run"
  /\ \E K \in SUBSET {k \in conns : k.state = "CONNECTED"} : \E F \in SUBSET K :
       K # {} /\ connection_teardown([k \in K |-> k.state], F)
  /\ UNCHANGED <<device, nextId, nextSport, stale, phase>>

device_kill_connections ==
  /\ phase = "run"
  /\ LET K == {k \in conns : device[k.dev] # "INIT"}
     IN  \E F \in SUBSET K : connection_teardown([k \in K |-> k.state], F)
  /\ phase' = "killed"
  /\ UNCHANGED <<device, nextId, nextSport, stale>>

\* usb_shutdown removes every device; device_shutdown finds none left; then
\* client_shutdown closes every client.
shutdown ==
  /\ phase = "killed"
  /\ device' = [d \in DeviceIds |-> "NONE"]
  /\ conns' = {k \in conns : device[k.dev] # "ACTIVE"}
  /\ client' = [c \in Clients |-> FreeClient]
  /\ open' = {}
  /\ phase' = "down"
  /\ UNCHANGED <<nextId, nextSport, txFailed, stale>>

Ended == phase \in {"down", "undefined"} /\ UNCHANGED vars

ClientNext(c) ==
  \/ client_accept(c) \/ ConnectNoDevice(c)
  \/ \E d \in DeviceIds : ConnectInitDevice(c, d) \/ ConnectDevice(c, d)
  \/ start_listen(c) \/ AnswerCommand(c) \/ WrongStateCommand(c)
  \/ ClientFails(c) \/ output_buffer_process(c) \/ device_client_process(c)

DeviceNext(d) ==
  \/ \E s \in Sports, flags \in Flags : device_tcp_input(d, s, flags)
  \/ \E s \in Sports : TcpInputOverflow(d, s)
  \/ device_version_input(d) \/ DeviceRemove(d)

Next ==
  \/ \E c \in Clients : ClientNext(c)
  \/ \E d \in DeviceIds : DeviceNext(d)
  \/ client_device_add \/ device_add \/ device_check_timeouts
  \/ device_kill_connections \/ shutdown \/ Ended

Spec == Init /\ [][Next]_vars

(***************************************************************************)
(* Properties.                                                             *)
(***************************************************************************)
\* Type invariant of the tables.
TypeOK ==
  /\ device \in [DeviceIds -> {"NONE", "INIT", "ACTIVE"}]
  /\ nextId \in 1..(MaxDeviceId + 1)
  /\ nextSport \in [DeviceIds -> Sports]
  /\ conns \subseteq Conn
  /\ client \in [Clients -> Client]
  /\ open \subseteq DeviceIds \X Sports
  /\ txFailed \subseteq DeviceIds
  /\ stale \subseteq {"client", "conn", "connections", "overflow"}
  /\ phase \in {"run", "killed", "down", "undefined"}

\* No dangling conn->client, conn->dev or client->connect_device: a connection
\* hangs off an active device and points to a client in client_list that waits
\* for, or uses, a connection to that very device.  (connection_teardown,
\* client_close, device_remove.)
ConnHasItsClient ==
  \A k \in conns :
    /\ device[k.dev] = "ACTIVE"
    /\ client[k.client].device = k.dev
    /\ client[k.client].state \in (IF k.state = "CONNECTING" THEN {"CONNECTING1"}
                                   ELSE {"CONNECTING2", "CONNECTED"})

\* A client that waits for or uses a connection has one, so that it cannot wait
\* for an answer nobody will give, whatever the device and the other clients
\* do.  (connection_teardown, device_remove, device_kill_connections.)
ClientHasItsConn ==
  \A c \in Clients :
    client[c].state \in HasConn => \E k \in conns : k.client = c

\* ... and only one: get_mux_connection(device, client) is never ambiguous.
OneConnPerClient ==
  \A k1, k2 \in conns : k1.client = k2.client => k1 = k2

\* Clients and connections come and go in pairs, whichever of client,
\* connection and device goes first, in the middle of a handshake or not.
PairsMatch == ConnHasItsClient /\ ClientHasItsConn /\ OneConnPerClient

\* Two connections of one device never share a port, also after next_sport has
\* wrapped: a segment reaches the connection it is meant for.  (find_sport.)
SportsDistinct ==
  \A k1, k2 \in conns : Pipe(k1) = Pipe(k2) => k1 = k2

\* A client is owed an answer to its Connect exactly while it is CONNECTING1:
\* no Connect is answered twice and none is dropped.  (client_notify_connect.)
OneAnswerPerConnect ==
  \A c \in Clients :
    client[c].owed = IF client[c].state = "CONNECTING1" THEN 1 ELSE 0

\* The answer is still in the output buffer in CONNECTING2 (else the state
\* could never be left), and all of it is out in CONNECTED, where the socket
\* carries the device's bytes.  (output_buffer_process.)
AnswerBeforeData ==
  \A c \in Clients :
    /\ client[c].state = "CONNECTING2" => client[c].ob = 1
    /\ client[c].state = "CONNECTED" => client[c].ob = 0

\* Both ends agree: a port the device was sent a SYN for, and that neither end
\* has reset, has its connection; unless a segment could not be submitted to
\* that device.  (connection_teardown, device_tcp_input.)
NoHalfOpen ==
  /\ \A k \in conns : Pipe(k) \in open
  /\ \A p \in open : p[1] \in txFailed \/ \E k \in conns : Pipe(k) = p

\* The SYN|ACK path of device_tcp_input never calls update_connection on a
\* connection that was just freed: client_notify_connect does not fail there, as
\* no client leaves CONNECTING1 while its connection is still CONNECTING.
NoStaleConn == "conn" \notin stale

\* A device id is never handed out again: an id a client remembers never
\* reaches another device.  (get_next_device_id.)
IdsNeverReused ==
  [][\A d \in DeviceIds : d < nextId /\ device[d] = "NONE" => device'[d] = "NONE"]_vars

\* handle_command's closing of the client is the last thing that happens to it.
NoStaleClient == "client" \notin stale

=============================================================================
