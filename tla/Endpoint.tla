------------------------------ MODULE Endpoint ------------------------------
(***************************************************************************)
(* Where the daemon listens and where its clients look for it: the daemon  *)
(* parses its configured connection string and binds a socket to it        *)
(* (Engine::init, SocketServer::start), an application parses its own and  *)
(* connects (Daemon::make, SocketClient::start).  Daemons end, by          *)
(* themselves or by a crash, and are started again; a second one may be    *)
(* started while the first one runs, also between its bind and its listen. *)
(***************************************************************************)
EXTENDS SocketAddress

CONSTANTS Strings,   \* the connection strings a daemon may be configured with
          Pairs,     \* pairs of different strings, of a daemon and of a client
          Daemons,   \* processes of the daemon
          Faults     \* subset of {"socket", "fcntl", "option", "listen"}

(* A connection string is a scheme and a sequence of tokens.               *)
ConnectionStrings == [scheme : STRING, rest : Seq(Tokens)]

ASSUME StringsAssumption == Strings \subseteq ConnectionStrings
ASSUME PairsAssumption == Pairs \subseteq ConnectionStrings \X ConnectionStrings

VARIABLES
  text,      \* the daemon's connection string
  asked,     \* the client's
  bound,     \* the daemons whose socket is bound and does not listen yet
  listening, \* the daemons that listen
  ended,     \* a daemon had the address and has ended
  files,     \* socket files in the file system
  waits,     \* TCP addresses with connections in TIME_WAIT
  served,    \* daemons with a connection
  refusal,   \* what was so when a daemon got EADDRINUSE
  client     \* what became of the client's connection

kernel == <<files, waits, served>>
vars == <<text, asked, bound, listening, ended, kernel, refusal, client>>

PortHint == 0
ServerAddress == Parse(text, PortHint)
ClientAddress == Parse(asked, PortHint)
---------------------------------------------------------------------------
(* The kernel's view of an address.  A Unix address whose first byte is    *)
(* null is an abstract name of addr_len bytes, another one a path up to    *)
(* its terminator.                                                         *)

IsPath(a) == a.family = "unix" /\ a.sun_path[1] # NUL
UnixName(a) == IF IsPath(a) THEN CString(a.sun_path) ELSE SubSeq(a.sun_path, 1, a.addr_len)

AnyHost(a) == a.family = "inet6" /\ ToSet(a.host) \subseteq {":", "0"}

(* Port 0 makes the kernel choose a port nobody uses, and nobody knows.    *)
Ephemeral(a) == IsAnyInet(a) /\ a.port = 0

(* A socket bound to the IPv6 wildcard takes IPv4 too when bind() cleared  *)
(* IPV6_V6ONLY; without that it depends on the system.                     *)
TakesIPv4(a) == AnyHost(a) /\ a.is_wildcard

(* The addresses a server at a is reached under.  Connecting to the        *)
(* wildcard means the local host.                                          *)
Reaches(b, a) ==
  \/ /\ a.family = "unix" /\ b.family = "unix"
     /\ IsPath(a) = IsPath(b) /\ UnixName(a) = UnixName(b)
  \/ /\ IsAnyInet(a) /\ IsAnyInet(b)
     /\ a.port = b.port /\ ~Ephemeral(a)
     /\ \/ a.family = b.family /\ a.host = b.host
        \/ a.family = b.family /\ AnyHost(a)
        \/ b.family = "inet" /\ TakesIPv4(a)

NoRefusal == [refused |-> FALSE, held |-> FALSE, left |-> FALSE]
---------------------------------------------------------------------------
Init ==
  /\ \E p \in {<<s, s>> : s \in Strings} \cup Pairs : text = p[1] /\ asked = p[2]
  /\ bound = {} /\ listening = {} /\ ended = FALSE
  /\ files = {} /\ waits = {} /\ served = {}
  /\ refusal = NoRefusal
  /\ client = "none"

(* SocketAddress::socket, SO_REUSEADDR, IPV6_V6ONLY and bind; whatever     *)
(* fails closes the new descriptor, so that nothing is left of it.         *)
SocketFaults == {"socket", "fcntl", "option"}

Holders == bound \cup listening

MutNoReuseAddress(a) ==  \* mutant: SO_REUSEADDR is not set
  IF IsPath(a) THEN a \in files ELSE ~Ephemeral(a) /\ (Holders # {} \/ a \in waits)

MutUnlinksFirst(a) ==  \* mutant: an old socket file is removed before bind()
  IF IsAnyInet(a) THEN ~Ephemeral(a) /\ listening # {}
  ELSE ~IsPath(a) /\ Holders # {}

(* bind() of a path fails if the file exists, whoever left it, and that of *)
(* an abstract name if another socket has it.  With SO_REUSEADDR a TCP     *)
(* address is taken only while someone listens: neither TIME_WAIT nor one  *)
(* that is bound counts.                                                   *)
AddressInUse(a) ==
  IF IsPath(a) THEN a \in files
  ELSE IF IsAnyInet(a) THEN ~Ephemeral(a) /\ listening # {}
  ELSE Holders # {}

Bind(d) ==
  /\ d \notin Holders /\ ~Failed(ServerAddress)
  /\ ~AddressInUse(ServerAddress)
  /\ bound' = bound \cup {d}
  /\ files' = files \cup (IF IsPath(ServerAddress) THEN {ServerAddress} ELSE {})
  /\ UNCHANGED <<text, asked, listening, ended, waits, served, refusal, client>>

(* Someone has the address, or a daemon that ended left its socket file.   *)
Refused(d) ==
  /\ refusal' = [refused |-> TRUE, held |-> Holders \ {d} # {},
                 left |-> ended /\ IsPath(ServerAddress)]
  /\ UNCHANGED <<text, asked, listening, kernel, client>>

BindFails(d) ==
  /\ d \notin Holders /\ ~Failed(ServerAddress)
  /\ AddressInUse(ServerAddress)
  /\ Refused(d)
  /\ UNCHANGED <<bound, ended>>

(* Two sockets bound to one TCP address cannot both listen.                *)
ListenRefused == IsAnyInet(ServerAddress) /\ ~Ephemeral(ServerAddress) /\ listening # {}

Listen(d) ==
  /\ d \in bound /\ ~ListenRefused
  /\ bound' = bound \ {d}
  /\ listening' = listening \cup {d}
  /\ UNCHANGED <<text, asked, ended, kernel, refusal, client>>

(* A failed listen() leaves the bound socket to the object, which Engine   *)
(* destroys when init fails: of it only a socket file stays.               *)
ListenFails(d) ==
  /\ d \in bound
  /\ bound' = bound \ {d}
  /\ ended' = TRUE
  /\ \/ ListenRefused /\ Refused(d)
     \/ "listen" \in Faults /\ UNCHANGED <<text, asked, listening, kernel, refusal, client>>

(* The daemon exits or crashes.  Its sockets are gone, its socket file is  *)
(* not: nothing in the program unlinks it.  Connections that it closed     *)
(* first stay in TIME_WAIT for a while.                                    *)
StopServer(d) ==
  /\ d \in Holders
  /\ bound' = bound \ {d} /\ listening' = listening \ {d}
  /\ ended' = TRUE
  /\ served' = served \ {d}
  /\ waits' = IF d \in served /\ IsAnyInet(ServerAddress) THEN waits \cup {ServerAddress} ELSE waits
  /\ UNCHANGED <<text, asked, files, refusal, client>>

TimeWaitEnds ==
  /\ waits # {}
  /\ waits' = {}
  /\ UNCHANGED <<text, asked, bound, listening, ended, files, served, refusal, client>>

(* Daemon::make: the string is parsed, the socket made and connected.  An  *)
(* error is reported now or, after EINPROGRESS, by SO_ERROR; the result is *)
(* the same.                                                               *)
Outcome ==
  IF Failed(ClientAddress) THEN "invalid"
  ELSE IF ~Failed(ServerAddress) /\ listening # {} /\ Reaches(ClientAddress, ServerAddress)
  THEN "connected"
  ELSE IF listening # {} THEN "missed" ELSE "refused"

StartClient ==
  /\ client \in {"none", "refused", "error"}
  /\ client' = Outcome
  /\ IF Outcome = "connected" THEN \E d \in listening : served' = served \cup {d}
     ELSE UNCHANGED served
  /\ UNCHANGED <<text, asked, bound, listening, ended, files, waits, refusal>>

(* socket() or O_NONBLOCK fails: the descriptor is closed again, and       *)
(* Daemon::make returns nothing.                                           *)
StartClientFails ==
  /\ client \in {"none", "refused"} /\ ~Failed(ClientAddress)
  /\ Faults \cap SocketFaults # {}
  /\ client' = "error"
  /\ UNCHANGED <<text, asked, bound, listening, ended, kernel, refusal>>

Next ==
  \/ \E d \in Daemons : Bind(d) \/ BindFails(d) \/ Listen(d) \/ ListenFails(d) \/ StopServer(d)
  \/ TimeWaitEnds \/ StartClient \/ StartClientFails

Spec == Init /\ [][Next]_vars
---------------------------------------------------------------------------
Parsed(s) == IF Failed(Parse(s, PortHint)) THEN {} ELSE {Parse(s, PortHint)}

(* A TCP connection string is accepted just when it can be read as a host  *)
(* with or without a port, there is only one such reading, and it is the   *)
(* address.  (A missing bracket, a second colon, text after a bracket.)    *)
(* What a port is worth is taken from the scanner here.                    *)
SplitMatchesGrammar ==
  \A s \in {text, asked} : s.scheme = "tcp://" =>
    Readings(s.rest, ScannedPorts(s.rest, PortHint)) = Parsed(s)

(* The port is the one that the text names by the grammar of numbers: empty*)
(* ports, blanks, signs, octal and hexadecimal ones, and negative numbers, *)
(* which wrap around; ports that are too large are refused.                *)
ParseMatchesGrammar ==
  \A s \in {text, asked} : s.scheme = "tcp://" =>
    Readings(s.rest, GrammarPorts(s.rest, PortHint)) = Parsed(s)

(* A client that got a connection got it from the address in its string.   *)
(* Different Unix strings name different sockets, abstract ones with null  *)
(* bytes in any place included; the exceptions are paths that are empty or *)
(* hold a null byte.                                                       *)
OnlyTheNamedIsReached ==
  (client = "connected" /\ text # asked) =>
    \/ /\ text.scheme = "tcp://" /\ asked.scheme = "tcp://"
       /\ ServerAddress.port = ClientAddress.port
       /\ AnyHost(ServerAddress) \/ ServerAddress.host = ClientAddress.host
    \/ \E s \in {text, asked} : s.scheme = "unix:" /\ (s.rest = <<>> \/ NUL \in ToSet(s.rest))

(* A daemon cannot take its address only while another one has it, or, for *)
(* a socket file, after a daemon with this path ended, whatever became of  *)
(* it: connections in TIME_WAIT do not keep it from starting, and nor does *)
(* a TCP address or an abstract name that was used before.                 *)
RefusedBindHasHolder == refusal.refused => refusal.held \/ refusal.left

(* Two daemons with one connection string never listen at once, also when  *)
(* both bind before one listens and when socket files are left behind,     *)
(* unless the kernel chooses their ports.                                  *)
OneDaemonPerAddress ==
  ~Ephemeral(ServerAddress) => \A d, e \in listening : d = e

=============================================================================
