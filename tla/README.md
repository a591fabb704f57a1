# A TLA+ model of OCVSMD

OCVSMD, the OpenCyphal vehicle system management daemon, is a process that talks
to the nodes of a Cyphal network on behalf of other processes. Those processes
use an SDK, which reaches the daemon over a local stream socket. This directory
holds TLA+ modules that describe how the daemon, its clients and the connections
between them behave, TLC configurations that check them on small instances, and
TLAPS proofs for instances of any size.

Paths below are relative to the repository.

## Inventory

| Component | State | Operations | Hard behaviour |
|---|---|---|---|
| Framing, `src/common/ipc/pipe/socket_base.cpp` | socket buffer, `read_phase`, `read_msg_size` | `send`: one system call for the header, one per fragment; `receiveMessage`: one for the header, one for the payload | short counts, full buffers, a reader that runs between two calls of the writer |
| Pipe, `socket_client.cpp`, `socket_server.cpp` | descriptors, callbacks, `client_id_to_context_` | start, connect, accept, send, receive, disconnect | refused connections, end of stream, SIGPIPE, death of the peer |
| Client router, `client_router.cpp` | `next_tag_`, `is_connected_`, `map_of_gateways_` (weak pointers), per gateway `next_sequence_`, `event_handler_`, `completion_error_code_` | make a gateway, subscribe, send, dispose; handlers of RouteConnect, ChannelMsg, ChannelEnd and of the loss of the pipe | handlers called from loops over the gateways make and destroy gateways; ends that cross |
| Server router, `server_router.cpp` | `client_id_to_map_of_gateways_`, `service_id_to_channel_factory_` | the same, per client; channel factories | messages that arrive for channels already ended; clients that vanish |
| Channel, `channel.hpp`, `gateway.hpp` | the gateway pointer | send, complete, subscribe; events Connected, Input, Completed | lifetime against lifetime of the gateway |
| ExecCmd service, `src/daemon/engine/svc/node/exec_cmd_service.cpp` | `id_to_fsm_`, per request `node_id_to_op_` | start, response, deadline, cancellation, completion | calls that fail half-way, answers and deadlines in any order, clients that go away |
| SDK command client, `src/sdk/svc/node/exec_cmd_client.cpp`, `node_command_client.cpp`, `include/ocvsmd/sdk/execution.hpp` | the channel, `receiver_`, `node_id_to_response_` | sendCommand, submit, three event handlers | no timeout of its own; a receiver that may be called twice |
| Daemonization, `src/daemon/main.cpp`, `init.d/ocvsmd` | three processes, a pipe, the PID file and its lock, `g_running` | fifteen steps, signals, run loop; script start and stop | processes that die silently, launches that overlap, a PID file removed under a running daemon |
| Engine, `src/daemon/engine/engine.cpp` | transport, presentation, node, IPC router | init, runWhile | failure of any part; a signal between test and poll |
| Configuration, `src/daemon/engine/config.cpp`, `init.d/ocvsmd.toml` | the TOML tree, `is_dirty_`, the file | load, get, set, save | a crash while saving; launches that overlap; an operator who edits the file meanwhile |
| Socket addresses, `src/common/io/` | the parsed address, descriptors | parse, socket, bind, listen, connect, accept | brackets, colons and ports in every arrangement; null bytes in names; socket files left behind; TIME_WAIT; no descriptor left |
| Executors, `include/ocvsmd/platform/` | the kernel's table of pointers to `AwaitableNode`s, `total_awaitables_`, the schedule | register, move, destroy, poll | pointers to objects that moved or are gone, descriptors handed out again, results nobody looks at, level against edge triggering |
| Cyphal media, `src/daemon/engine/cyphal/`, `src/daemon/engine/platform/` | sockets per interface, filters | make, setFilters, push, pop, send, receive | half-opened media, redundant interfaces of which some fail, devices that go down or disappear, errors that stay pending |
| SDK facade, `src/sdk/daemon.cpp` | the client router | make | - |
| Logging, command line tool, generated code | - | wrappers of libraries | - |

How they interact. An SDK process has one `ClientRouter` over one `SocketClient`;
the daemon has one `ServerRouter` over one `SocketServer`. Each process is single
threaded: an executor calls a handler for every descriptor that is ready. The
client router opens with RouteConnect and is connected when the reply comes. A
channel of the client has a tag; its first message (sequence 0) makes the server
router call the factory of the service named in it, which gives the service a
channel of its own with the same tag. Either side ends a channel by destroying
it, which sends ChannelEnd if the other side can know the tag. When the pipe is
lost, the router completes all channels with `Disconnected`. `ExecCmdService` is
the one service there is, `ExecCmdClient` its client. On the other side the
engine owns a Cyphal transport over up to three redundant CAN or UDP interfaces,
whose media register their sockets with the same executor as the IPC server.

What makes each correct:

* framing: what is handed up is what was sent;
* routers: gateways in the maps are alive; a channel is opened once, completed
  once and hears nothing after that; nothing is reordered; whoever waits is told
  when the other side is gone;
* ExecCmd: a node is commanded once, a success has everything, a request always
  ends and leaves nothing behind;
* daemonization: success is reported if and only if deserved, the PID file names
  the daemon, everybody exits;
* executor: what the kernel points to is alive, and what is ready is handled;
* addresses: a string means one address and leads nowhere else, a daemon can be
  started again, and two do not share an address;
* media: no descriptor leaks, one working interface is enough, nothing is stuck;
* configuration: the node keeps its unique id and the operator his edits.

The hazards, each at its line and with the properties that look for it, are
listed in `PROJECT.json`.

## Modules

| Module | Models | Composed from |
|---|---|---|
| `IpcPipe` | the two ends of the pipe, frames, events, faults | |
| `ClientRouter` | the client router, its `SocketClient`, the owners of its channels | `IpcPipe` |
| `ServerRouter` | the server router, its `SocketServer`, the services | `IpcPipe` |
| `IpcSystem` | all processes together; the channel properties | both routers |
| `RpcChannel` | abstract: what a channel promises its two owners | |
| `IpcRefinement` | that `IpcSystem` implements `RpcChannel` | `IpcSystem`, `RpcChannel` |
| `IpcProofs` | theorems about `IpcSystem`: types and gateways; the way of a request; what owners of channels are told; the refinement | `IpcRefinement` |
| `SocketFraming` | `SocketBase`, one direction of one connection | |
| `SocketFramingProofs` | theorems about `SocketFraming` | |
| `ExecCmd` | SDK client, service and nodes over one IPC channel per command | |
| `ExecCmdProofs` | theorems about `ExecCmd` | |
| `Executor` | both executors and the kernel interfaces under them, as functions on a record | |
| `Reactor` | the daemon's loop: IPC server and CAN media on one executor | `Executor` |
| `ReactorProofs` | theorems about `Reactor` and the operators of `Executor` | |
| `SocketAddress` | parsing of connection strings, and the grammar they should follow | |
| `Endpoint` | binding, listening and connecting: daemons with one string, a client with another or the same | `SocketAddress` |
| `EndpointProofs` | theorems about `Endpoint` and the parser | |
| `Media` | transport bags, CAN and UDP media, both drivers | |
| `MediaProofs` | theorems about `Media` | |
| `Engine` | the configuration file and the order of `Engine::init` | |
| `EngineProofs` | theorems about `Engine` | |
| `Daemonize` | the launches of the daemon and the init script | |
| `DaemonizeProofs` | theorems about `Daemonize` | |
| `MC*` | instances for TLC | |

### IpcPipe, ClientRouter, ServerRouter, IpcSystem

A client process connects once and never again, and the server numbers accepted
connections freshly, so the process, its connection and its `ClientId` are one
value `c`. Variables carry the router's members: `cReg` is the key set of
`map_of_gateways_`, `cSub` the gateways with an `event_handler_`, `cSeq` is
`next_sequence_`, `conn` is `is_connected_`, `nextTag` is `next_tag_`; `known` and
`sReg` are the two levels of `client_id_to_map_of_gateways_`. `cLive` and `sLive`
are the channels that exist. `cEvents`, `sEvents`, `opened` and `sSent` are
histories that the properties read and no action does.

One handler is one action, whole, with two exceptions. The loops of
`forEachRegisteredGateway` (Connected) and of `handlePipeEvent(Disconnected)`
call application code once per gateway, and that code may make, subscribe, use
or destroy channels. They are unrolled: `HandleRouteConnect` or
`ClientLosesPipe` starts the loop, `ClientNotify` is one round in any order (the
map is a hash map), `ClientReleaseOrphan` disposes of a gateway that only the
local vector of the loop kept alive, `ClientLoopEnd` ends it. The first loop
holds strong pointers (`held`), the second locks weak ones as it goes. On the
daemon's side a service destroys at most its own channel in a handler, so its
loop has no interleaving to show.

What is abstracted. Payloads are their sequence numbers; serialization is
decodable or not ("undecodable"). The service a channel is for is decided by its
tag (`Served`). A failed send is clean here - nothing of the frame is on the
wire; the torn frames of `SocketBase::send` are the subject of `SocketFraming`.
`SendOutcomes` has what `::send` may do once the peer is gone: swallow the data,
fail, or raise SIGPIPE, which no process handles. An error returned by a
message handler closes the connection, and is part of "readFail". `complete(e)`
only stores the code used at disposal, so it is the parameter `e` of
`ClientDispose` and `ServerDispose`. Applications send only after they have
subscribed, as all of the SDK does. A daemon that ended does not come back: the
clients of the SDK never reconnect, so a second daemon is a second system.

### RpcChannel, IpcRefinement

`RpcChannel` is a channel without routers: one record per channel and nine steps
from record to record (ask, begin, respond, deliver, finish, complete, release,
abandon, lose). Responses are delivered in order, never after the end, all of
them before an end that is not `Disconnected`; a service begins at most once.
`IpcRefinement` maps the routers' state to such records - "working" is a channel
in `sLive`, "asked" is `next_sequence_` past 0, deliveries and ends are read off the
histories, as the sets of the numbers sent and received - and
`ImplementsRpcChannel` is the abstract specification under that mapping; it is
both checked and proved. A step of the routers may be a step of several channels, as when a pipe
is lost and the daemon tells all its services. The abstract specification states
no liveness; `PipeLossReachesUsedChannels` and `RequestIsCompleted` do.

### SocketFraming

The stream is a sequence of cells; a cell remembers which message it comes from
and where. A message is given by where each of its fragments ends, counted from
the start of its payload, so the size in the header is the last of them. `SendHeader` and `SendFragment` are the single `::send` calls,
`ReceiveHeader` and `ReceivePayload` the single `::recv` calls. The kernel takes
as many cells as there is room for. Reading nothing leaves `read_phase` as it
is and is a stutter.

### ExecCmd

One client process with several commands, the daemon's `Fsm` of each, and the
nodes. The channel is what `IpcSystem` shows a channel to be: frames in order,
each write possibly refused, each side learning of a lost pipe in its own time.
`ClientConnected` may happen twice, because a channel subscribed by a handler
inside the Connected loop gets Connected from the subscription and again from
the loop; the model allows it for every channel. SIGPIPE counts as a lost
pipe. `PromiseResolved` is the callback of a Cyphal promise, with a response or
with a failure such as the deadline; which one comes is the network's choice.
`ServiceCannotDecode` is the router's way with a request that cannot be decoded: the
service never hears of it, and the channel ends with code 0. `answered` and
`refused` are the nodes that responded and those whose response the channel did
not take, `unsent` counts the requests that could not be sent, `garbled` has the
ones not decoded; only the properties read them.

### Executor, Reactor

`Executor` has the two `AwaitableNode` classes next to what they ask of the kernel.
An interest in the kernel's table carries a pointer: a callback's name, and
whether it is the node on the stack of `registerAwaitableCallback` ("temp") or the
one its owner keeps ("owned"). Results of `epoll_ctl` and `kevent` are not looked at
by the code, so a refused call leaves the record as it was and the model goes on,
like the code. epoll knows a descriptor once and reports it while it is ready;
kqueue knows a descriptor and a filter and, with `EV_CLEAR`, reports an arrival
once. `active` is the kernel's list of what to look at, in order, since one wait
returns at most `MaxEvents`. libcyphal's `spinOnce` is external: it runs what is due
in order.

`Reactor` puts the daemon's callbacks on it: accept, one per client, and pop and
push of a CAN media. The table of descriptors has `NumFds` entries and the lowest
free one is handed out, so that a closed connection's number is the next one's.
Peers connect, send and close at any time. `Stop` is the teardown in the order of
the members.

### SocketAddress, Endpoint

A connection string is a scheme and a sequence of tokens: the characters the
parser compares with, digits, "v4" for a dotted literal, blank and NUL. The functions
of the C library are modelled by what they do with such tokens: `Strtoull` skips
blanks, takes a sign and the base from the prefix, stops at the first character that
does not fit, limits what is too large and negates modulo 2^64 after a minus sign;
`Is6` counts the groups of an IPv6 literal. `sun_path`, the largest port and 2^64 are
small constants. The grammar is written from the other end: `Readings` are all ways
to take a text for a host with or without a port, and `GrammarPorts` the texts that
are a numeral of one of three bases, with the sum of what its digits are worth.

`Endpoint` has the kernel's view of addresses: abstract names of `addr_len` bytes,
paths up to their terminator, the two IP families and the wildcard, port 0. A daemon
binds and listens in two steps, and another one may run between them: with
`SO_REUSEADDR` a TCP address can be bound twice, but only one socket may listen.
Socket files stay when a daemon is gone; TCP connections it closed first stay in
TIME_WAIT. `refusal` remembers what was so when a daemon was last refused: whether
another one had the address, and whether one with this path had ended.

### Media

The configured list of interfaces goes through the two bags (UDP first, then
CAN) to media and to the drivers. A socket has a device, a binding, a pending
error, room to send and something received; the table of descriptors is bounded.
The devices are up, down or gone: a CAN socket whose device goes down has an
error pending, one whose device disappears has lost its binding for good.
libcyphal's transport is external and modelled from what the media's interface
asks of it: it queues a transfer for every interface, drops what failed, waits for
the push callback when there is no room, and hands errors to the handler the bag
installs. Errors are one value: nobody asks which. When subscriptions change it sets
the filters of one CAN media after the other; each `setsockopt` may fail, and `refused`
has the sockets that kept their old filters. `Trials` gives each list of interfaces the ports,
transfers, changes and faults it is tried with.

### Engine

Processes load the file, bring up transport and node, generate and save the
unique id if there is none, start IPC, and save again when they stop. Saving is
two steps, as in `save()`: opening empties the file, writing fills it, and a crash
or a full disk in between leaves a part of its sections. Writing to the end of a
file is one step, so a reader may see it empty or cut by a failure. A save that throws
before the file is open (`SaveThrows`) leaves the configuration dirty, so that the
daemon runs with an id that is not in the file and writes its copy when it stops.
`overlap`, `raced` and `damaged` remember what the properties have to except.

### Daemonize

A launch has an original process, a child and a daemon. Each step of the daemon
is an action, at the grain of the system calls that other processes can see:
`open`, `lockf`, `ftruncate` and `write` of step 12 are four. A PID file is named
by the launch that created it, so that a file that was removed and one made
later are different files. `Exit` gives back lock, address and pipe, as the
kernel does. `Crash` is an end of the daemon without a word at any step,
`ChildCrash` that of the first child between its two forks. The IPC address is
free once its owner is gone, as it is for TCP and abstract addresses.

## Runs

`engine` checks for deadlock: a daemon can always be started again. All other runs
say `CHECK_DEADLOCK FALSE`: processes exit for good, and the bounds on channels,
messages, strings and launches let the instances come to rest.

| Run | Instance | Shows |
|---|---|---|
| `channels` | 1 client, 2 channels (1 for a service), 2 requests, 1 response per channel, all faults | types; `RegisteredGatewayIsAlive`, `ChannelOpenedOncePerTag`, `CompletedIsFinal`, `ResponsesPrecedeCompletion`, `RequestsArriveFromTheFirst`, `RequestsFindTheirClient` |
| `liveness` | the same with 1 request, 2 responses, no refused write; fair executors | `OnlyConnectedComesLate`, `PeerDeathReachesServices`, `PipeLossReachesUsedChannels`, `RequestIsCompleted`, `ImplementsRpcChannel` |
| `framing` | 6 messages of 1 or 2 fragments, one as large as allowed, one larger, a buffer that holds two of them | `IntactBeforeFirstCut`, `ClosedOnlyForAReason` |
| `exec_cmd` | 2 commands, one for 2 nodes of which one is repeated, one for none; all faults; fair executors | `FinalResultIsLast`, `SuccessIsComplete`, `NodeCommandedOnce`, `RunningFsmHasWork`, `ConnectedCommandHasResult`, `DroppedCommandIsCancelled` |
| `daemonize` | 2 launches, all faults, the script; fair scheduling | `SuccessMeansReady`, `PidFileIsKept`, `LauncherReturns`, `SignalledDaemonExits` |
| `reactor` | both platforms, 2 connections for 1 free descriptor, 2 messages each, 1 event per wait; fair loop | `InterestIsLive`, `AwaitablesCounted`, `EpollAcceptsConnections`, `EpollHandlesMessages` |
| `endpoints` | 2 daemons with one string of any kind, every system call may fail; a client with the same string, with another from all pairs of short names and of 9 TCP strings, or, where no daemon starts, with any TCP text of up to 5 tokens, ports of up to 4 digits and signs and longer ones, hosts of up to nine groups with and without brackets, paths up to one longer than `sun_path` has room for | `SplitMatchesGrammar`, `ParseMatchesGrammar`, `OnlyTheNamedIsReached`, `RefusedBindHasHolder`, `OneDaemonPerAddress` |
| `media` | 6 descriptors, and for each list of interfaces its own trial: lists of both kinds, good, unknown, too long, empty, with 1 port, 2 transfers, 2 changes of devices; 3 UDP interfaces with 1 change; 4 in a list, with 2 ports; 3 CAN interfaces, 3 ports for 2 filters, any `setsockopt` may fail; all lists of up to 4 names for 2 CAN devices, and of UDP addresses behind a bad one, opened only | `SocketsOwned`, `LostOnlyIfEveryInterfaceFailed`, `SubscribedPortsPass`, `WorkingInterfacesUsed`, `NothingIsStuck` |
| `engine` | 2 processes, 3 ids, 2 edits, all faults | `SameIdInEveryRun`, `EditsSurvive` |
| `handshake_loss` | 1 channel, the daemon may die | a violation, see below |
| `sigpipe` | 1 channel, the client may die | a violation |
| `exec_cmd_refused` | 1 command, writes may be refused | a violation |

Why the bounds are enough. Clients share nothing in either router except the
daemon's fate - maps are keyed by client - so one client shows all interleavings
with the daemon; the proofs are for any number. Two channels are needed for a
handler of one to act on the other while a loop runs; two requests on a channel
for a second message to follow its end; one response for it to cross the end.
Two commands are needed for the Connected loop, two nodes for a first and a last
answer and for a call to fail after another was made. Two launches race for one
PID file, and the script makes a second one; again the proofs are for any number.
The framing instance has a whole message, a cut one, a message after it and one
that is too large. In `reactor` one free descriptor makes the second connection
wait with EMFILE and then reuse the number of the first; one event per wait makes
descriptors compete; two messages are needed for one to be left after a callback.
Five tokens hold `[::1]` and every way to spoil it, and a port after a shorter
host; longer texts with a bracketed host, ports that reach past the largest port (19)
and past what `strtoull` returns (99), with every prefix and sign, and hosts around
the eight groups are added separately. In `endpoints` two daemons are
needed for one to bind before the other listens; the many texts go to a client whose
daemon does not start, since the parser is the same and a daemon's life would be
checked over again for each. In `media` two UDP interfaces with two ports, or three
with one, take all descriptors, and a fourth has no place; two changes take a device
down and up again, or away. One CAN interface can refuse its filters before and one
after another that takes them, and three ports do not fit the filters. Four names are
one more than there are places. In `engine` two processes overlap, and the third id
and the second edit come after the first was saved.

The type invariants of `SocketFraming`, `ExecCmd`, `Engine` and `Daemonize` are proved and
no run lists them; that of `Reactor` holds on its instance too.

### What the violations show

Each states what a comment of the repository says, and
TLC gives the behaviour of the code that contradicts it.

* `handshake_loss`. `channel.hpp:70`: any unexpected communication error leads to
  channel completion. `client_router.cpp:340` does so only once the RouteConnect
  reply has come. A channel made before that, over a connection refused or lost
  meanwhile, waits for ever; with it `sync_wait` of a command, whose timeout
  `exec_cmd_client.cpp:49` leaves unhandled.
* `sigpipe`. The same comment names the sudden death of a client. The daemon
  writes a response after the death and before it reads the end of stream:
  `socket_base.cpp:76` has no `MSG_NOSIGNAL`, and SIGPIPE ends the daemon.
* `exec_cmd_refused`. `node_command_client.hpp:45`: a success lacks the nodes that are
  missing or failed to respond in time. A response the channel does not take is only
  logged (`exec_cmd_service.cpp:219`), and the command goes on to a success without a
  node that did respond.
### Other behaviour worth knowing

The modules have the following behaviour too; the properties are stated around
it, so that they hold.

* Torn messages. A short count of `::send` is taken for success, and an error after
  the header leaves the header on the stream (`socket_base.cpp:74`): the reader
  hands up a payload made of two messages. `IntactBeforeFirstCut` ends there.
* Partial reads. A reader that runs between the writer's `::send` of the route
  prefix and of the body gets a part of the payload and closes a connection
  nothing is wrong with (`socket_base.cpp:141`); the second reason in
  `ClosedOnlyForAReason`.
* Two results. After a request that could not be sent the receiver has its failure,
  and gets another call when the channel is completed (`exec_cmd_client.cpp:74`).
  `FinalResultIsLast` counts just that.
* A request the daemon cannot decode is dropped (`server_router.hpp:62`), and its
  gateway ends the channel with the code 0 it was made with (`server_router.cpp:114`):
  the client is told a success that lacks nodes nobody asked. `SuccessIsComplete` has
  this and the case of `exec_cmd_refused` as its exceptions, and says that there is
  no other.
* An end that cannot be written is not written again: a client waits on, or a daemon
  works on, until the pipe is lost (`EndRefused`, `CancelRefused`).
* A channel destroyed by a handler of the Connected loop still gets Connected
  (`client_router.cpp:238`); `OnlyConnectedComesLate` says that nothing else arrives
  late.
* The PID file. A launch that fails after step 12 leaves it, and from then on the
  script refuses to start because the daemon "is already running"
  (`init.d/ocvsmd:19`). The script prints "stopped" when it has only sent SIGTERM.
* kqueue. With `EV_CLEAR` an arrival is reported once, and a callback reads one
  message. Two messages that arrive before the first callback runs leave the
  second one unread until a third arrives: `ReceivedMessageIsHandled` holds for
  epoll, and TLC refutes it for kqueue.
* Socket files are never unlinked: a `unix:` daemon cannot be started twice in the
  life of a file; `RefusedBindHasHolder` has it as the second reason, and says that
  there is no third. A `tcp://` string without a port makes the daemon listen on a
  port nobody knows (`Ephemeral`).
* A path with a null byte, or an empty one, names another socket than it says
  (`OnlyTheNamedIsReached`).
* Filters. With no subscription left `socketcanFilter` gets a null pointer and
  refuses, so that the old filters stay; with too many it refuses as well, and
  `setsockopt` may fail. The handler swallows it, and nothing tries again before the
  next change: a new port stays shut out there, which is the one exception of
  `SubscribedPortsPass`.
* `UdpMediaCollection::parse` gives its three places to the first three addresses that
  are not empty (`udp_media.hpp:113`), also to ones that are no address of this
  machine: a fourth that is one is not used. CAN names that do not open take no place.
* An interface whose device disappeared is never opened again: `tryReopen` exists
  and nothing calls it.
* `save()` writes in place and does not look at the stream: a full disk, a crash or
  a read-only file costs the id or the edits, and two first launches that overlap
  have two ids (`SameIdInEveryRun`, `EditsSurvive`).
* A `save()` that throws leaves `is_dirty_` set (`config.cpp:60`): the node is on the
  network with an id that is not in the file, and when the daemon stops it writes its
  copy over what was edited meanwhile (`EditsSurvive` excepts such edits).

### Fairness

* `IpcSystem!ExecutorFairness`: both processes spin their executors for ever and
  handlers return, so an executor with something to do does it. A read is bound
  to fail only when the peer's end is closed. Applications and services owe
  nothing.
* `ServiceFairness`, an assumption of `RequestIsCompleted` alone: a service
  completes every channel it is given. `exec_cmd` shows as much of ExecCmd.
* `ExecCmd!IpcFairness` is executor fairness again; `DeadlineFairness`, an
  assumption of `ConnectedCommandHasResult` alone, is that a Cyphal promise is
  resolved at its deadline at the latest. `DroppedCommandIsCancelled` needs none.
* `Daemonize!Fairness`: the operating system runs every process, and a poll
  returns after a second at most (`engine.cpp:168`). Faults, signals and the script
  owe nothing.
* `Reactor!FairSpec`: what is due runs, and the loop waits again. Peers and the bus
  owe nothing.
* `Media!Fairness`: the loop calls the transport for a queue that is not empty and
  for a socket that is ready, and the kernel empties a socket's buffer, by sending
  or by dropping. Devices owe nothing: they may stay down for ever.
* `Engine` and `Endpoint` state no liveness.

## Proofs

The theorems hold for every set of clients, channels, messages, launches,
commands, nodes and faults, every size of messages, header and buffer, every
connection string, every list of interfaces and every number of connections and
descriptors, under the assumptions the modules name: bounds are natural numbers,
served tags are tags, faults are faults, "nobody" is no launch, a message has at
least one fragment and no fragment is empty; brackets, colon, asterisk and the
null byte are tokens, and strings are made of tokens; the daemon's own three
sockets fit the table of descriptors and no connection has their names; devices
have names that fit `IFNAMSIZ`. TLC evaluates each assumption in the runs, and
every inductive invariant below was model-checked on an instance before it was
proved.

Loops. Where the code loops over data, the models have a recursive function in a
LET: what there is after k rounds. The provers do not take the library's theorems
on recursive definitions and induction, whose parameter is an operator; the
proofs go another way. A set of natural numbers that is not empty has a least
element (`LeastNatural`, from `NatLessThanWellFounded`); what holds at first and is
kept by every round holds at the end (`RoundByRound`, for a set of rounds); a
function with the rounds of the loop exists (`LoopExists`), so that the recursive
definition, which is a CHOOSE, satisfies its equation. With these, a fact about a
loop needs only the proof of one round.

Routers, in the order in which the proofs build on each other:

* `TypeCorrect`: `TypeOK` is inductive by itself. One lemma per handler; facts
  about functions of functions and about heads, tails and appends are lemmas at
  the top.
* `GatewaysStayAlive`: `RegisteredGatewayIsAlive` is inductive only together with
  `HeldOnlyInLoop` - when no loop runs nothing is held - since otherwise starting
  a loop would forget gateways kept alive by an earlier one.
* `ChannelsOpenOnce`: `ChannelOpenedOncePerTag` follows from `OpenInv`: on the way
  to the daemon there is at most one message with sequence 0 for a tag; while it
  is there the channel was not opened and `next_sequence_` is past 0; a tag with
  `next_sequence_` 0 was not opened.
* `RequestsFindClients`: the property speaks of the moment a frame is handled,
  and needs `HandshakeInv` about all the time before. A client that is connected,
  or whose RouteConnect or reply is still under way, is one the daemon knows as
  long as the connection stands, and only a connected client writes channel
  frames.
* `RequestsStartAtTheFirst`: `RequestInv`. What a service has seen of a channel is
  below what is queued, what is queued is increasing and below `next_sequence_`
  (`WayInOrder`, `ServiceInOrder`); a channel that was told the end is not
  registered (`ServiceEnds`), and it is not opened a second time by
  `ChannelsOpenOnce`.
* `NothingFollowsCompleted`, `LateEventsAreConnected`: `OwnerInv`. Tags given out
  stay below `next_tag_` (`TagsBelow`), so an end cannot be followed by the events
  of a new channel with the same tag; the loops hold only what they may still
  notify (`LoopShape`); a channel told its end is neither registered nor waiting in
  a loop (`ClientEnds`).
* `ResponsesComeBeforeTheEnd`: `ResponseInv`. As long as a channel is registered
  every response its service wrote is at the owner or queued, in order, and
  nothing is behind the end (`WrittenInOrder`, `ReadInOrder`, `NoneLost`,
  `EndIsLast`).
* `RoutersImplementRpcChannel`: the initial states map to initial states, and each
  step of the routers is a step of `RpcChannel` or none under the mapping. Each of
  the nine abstract steps has a lemma that says which change of which variables
  it is; the handlers are then cut into those. The proof uses `RouterInv`, all the
  invariants above with `EndInv`: an end that is on its way was written after the
  service was gone, or the client's channel destroyed. Without it a ChannelEnd in
  a queue could complete an abstract channel whose service still works.

Framing:

* `PayloadsAreIntact` and `ConnectionsCloseForAReason` follow from `StreamInv`, as
  does `FramingTypeCorrect`. The properties speak of what was handed up; the
  invariant has to say what is on the wire, where the reader is in it and how far
  the writer has come. `WireShape`: cells of messages in the order of sending, the
  message under way last. `Unbroken`: behind a cell of a message before the first
  cut comes, without a gap, all that is written of it, and then the first cell of
  a later message. `AtHeader`, `AtPayload`: a reader in phase Header is between two
  messages, one in phase Payload right behind the header whose size it has - in
  both cases only before the first cut, after which nothing of the kind is true.
  `DeliveredShape`: what was handed up is behind what is on the wire. The writer's
  two calls are first shown to be instances of one step, `Writes`, or of `Skips`.

ExecCmd:

* `CommandedOnce` and `FsmHasWork` need the type invariant (`ExecCmdTypeCorrect`)
  and that the first request is in the channel at most once and before the `Fsm`
  (`UpInv`). `FinalResultComesLast` and `SuccessReportsEverything` need in addition
  `FsmInv`, `DownInv` and `ResultInv`: every node asked is pending or resolved; the end
  is the last frame and the end of the `Fsm`; what an open client has collected,
  together with what is on its way, is what was written.

Engine:

* `UniqueIdIsStable` and `OperatorsEditsSurvive`: `DirtyInv` says when a process can have
  something to save: while it makes its first save, and after one that threw until it
  ends. `IdInv` and `EditInv` are what file and processes have in common as long as
  nothing overlapped and every save went through: the one process that may still write
  the file has the edits, and either the file has the id of all nodes ever shown, or
  that process has it and the file none. `EngineTypeCorrect` gives the types.

Daemonization:

* `PidFilesAreKept`: `LockInv` - past `lockf` a daemon holds the lock of the file it
  has open, past `write` the file has its pid - so that nobody else gets past
  `lockf` on that file.
* `SuccessIsEarned`: `PipeInv` - "init_complete" on the pipe, and a daemon at or past
  step 14, mean that the engine was initialized.
* `DaemonizeTypeCorrect`: the two and the types of the remaining variables.

Reactor:

* `InterestsAlwaysLive` and `AwaitablesAlwaysCounted` follow from `ReactorInv`, whose core
  is `Sound`: the kernel's interests are those of the live nodes, one each, at the
  place where the owner keeps the node; the descriptor of a live node is its socket;
  the count is the number of live nodes; what is due is live. The operations of an
  executor are first shown to be of three shapes, `Registered` (setup and move
  together), `Destroyed` and closing, for epoll and kqueue alike. That registering is
  never refused - its result is not looked at - needs what the daemon does: a socket
  has one descriptor (`Distinct`), the daemon's own are open while it runs
  (`OwnOpen`), a connection waits in the backlog once and is not accepted yet
  (`QueuedOnce`), and there is a push callback only with frames to send. The
  teardown loop over the contexts leaves no client callback behind
  (`EraseContextsSound`).

Endpoint:

* `SplittingMatchesGrammar`: the scanner and the grammar are both reduced to the
  positions of the colons and of the closing bracket, for texts of any length:
  brackets first, then no colon, one colon, or more than one. The theorem is about the
  splitting: which texts are literals for `inet_pton` and what a port is worth to
  `strtoull` is the same definition on both sides, and is model-checked against the
  grammar of numbers by `ParseMatchesGrammar`.
* `ConnectedToTheNamed`: `EndpointInv` says that a client is connected exactly if its
  address reaches the daemon's, both parsed from the strings; the rest is that parsing
  is injective as far as the property says.
* `RefusedBindAlwaysHasHolder` needs `FilesHaveDaemons`: a socket file is that of a daemon
  that has the address or of one that has ended. The property remembers both facts at
  the refusal, which itself looks only at the file, at who listens or at who is bound.
* `OneDaemonListens` is `Exclusive`: of paths and abstract names there is one holder, bound
  or listening; of a TCP address many may be bound, but `listen` lets one through. The
  invariant speaks of holders, since the second listener would be made between the
  bind and the listen of the first.

Media:

* `DescriptorsAlwaysOwned`, `OneWorkingInterfaceIsEnough` and `FiltersFollowSubscriptions`
  follow from `MediaInv`. `Holds` relates table and media: each holds sockets of the
  right direction, no two hold the same, none is left over; it is kept by every
  round of the loops over configured addresses and over interfaces, failing ones
  included. The loop that sets filters goes on over a media that refused, and leaves
  the old filters to no other socket (`FilterAccs`). `Accounted`: every transfer is, for every interface, queued, carried or
  failed. A UDP bag has no CAN sockets, so that filters matter for one kind only.
* `InterfacesThatWorkAreUsed`: after k addresses there are three media, or fewer than
  two free descriptors, or as many media as there are working interfaces among the
  k (`Complete`), and the i-th media is for the i-th place that works (`FirstOf`). A
  media that could not be made gives back what it had opened, or this would not be
  kept. For UDP the places are those with an address.

Only model-checked: all liveness, since fairness and ENABLED are beyond the prover:
`PeerDeathReachesServices`, `PipeLossReachesUsedChannels`, `RequestIsCompleted`,
`ConnectedCommandHasResult`, `DroppedCommandIsCancelled`, `LauncherReturns`,
`SignalledDaemonExits`, `EpollAcceptsConnections`, `EpollHandlesMessages`, `NothingIsStuck`;
and `ParseMatchesGrammar`, what `strtoull` computes over the digits of a port. Every other property of a passing run is the statement of a theorem.

## Not modelled

Logging, the command line tool, generated serialization code. `CanMedia::tryReopen`,
`udpWait` and the setter of file server roots, which no code of the daemon calls;
the error reporters of `transport_helpers.hpp`, whose uses are commented out; CAN FD,
which is never asked for; `toString` of addresses. Move assignment of channels and
`subscribe(nullptr)`, which nothing uses on a live channel. libcyphal, the TOML
library and the kernel are external: modelled as far as the code relies on them.
Message versions are sent and never compared. `--dev` mode is `Daemonize` without
its processes. 64-bit tags, sequence numbers and client ids do not wrap around in
any run of the daemon. Timeouts have no values: the deadline of a command
(`exec_cmd_service.cpp:128`) may overflow, and `kevent` is given a `tv_nsec` that may
reach 10^9, which it refuses (`kqueue_single_threaded_executor.hpp:98`); both sums
are on libcyphal's durations.

## Plan

1. Done: the IPC routers with their abstract specification, framing, the ExecCmd
   service end to end, daemonization, the executors and the loop on them, socket
   addresses and endpoints, media and drivers, configuration and engine.
2. Done: every safety property and action property of the passing runs is proved,
   and so is the refinement.
3. Left: liveness stays with TLC. Move assignment of channels would be the next
   thing to model, once something uses it.
