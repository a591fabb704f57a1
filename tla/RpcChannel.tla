----------------------------- MODULE RpcChannel -----------------------------
(***************************************************************************)
(* What the IPC subsystem promises the two owners of a channel, an         *)
(* application and a service, with no word of routers, gateways, sockets   *)
(* and messages on their way: a request reaches at most one service, its   *)
(* responses arrive in order and before the end, the end is told once to   *)
(* each side, and only the loss of the connection may come in between.     *)
(* Channels do not interact; a step may be one of several channels, as     *)
(* when a connection is lost.                                              *)
(***************************************************************************)
EXTENDS Naturals

CONSTANTS Clients,   \* the client processes
          Tags,      \* the channels of each of them
          AppCodes   \* the codes applications and services end channels with

Codes == AppCodes \cup {"Disconnected"}

VARIABLE ch  \* the state of every channel

(* A channel is asked for by the application's first request and released  *)
(* when the application destroys it; `sent` and `got` are the numbers of   *)
(* the responses that the service wrote and the application has; `done`    *)
(* and `told` are how the end was announced to either of them.             *)
Channel == [asked : BOOLEAN, released : BOOLEAN, service : {"none", "working", "ended"},
            sent : SUBSET Nat, got : SUBSET Nat,
            done : {"none"} \cup Codes, told : {"none"} \cup Codes]

Fresh == [asked |-> FALSE, released |-> FALSE, service |-> "none",
          sent |-> {}, got |-> {}, done |-> "none", told |-> "none"]

Init == ch = [c \in Clients |-> [t \in Tags |-> Fresh]]

(* The steps of one channel, from state x to state y. *)

Ask(x, y) == ~x.asked /\ ~x.released /\ y = [x EXCEPT !.asked = TRUE]

Release(x, y) == ~x.released /\ y = [x EXCEPT !.released = TRUE]

Begin(x, y) == x.asked /\ x.service = "none" /\ y = [x EXCEPT !.service = "working"]

(* Responses are numbered in the order they are written; a number may be   *)
(* left out, for a response that could not be written.                     *)
Respond(x, y) ==
  /\ x.service = "working" /\ x.told = "none"
  /\ \E n \in y.sent \ x.sent :
       /\ \A k \in x.sent : k < n
       /\ y = [x EXCEPT !.sent = @ \cup {n}]

(* The application gets them in that order. *)
Deliver(x, y) ==
  /\ x.done = "none" /\ ~x.released
  /\ \E n \in x.sent \ x.got :
       /\ \A k \in x.sent : k < n => k \in x.got
       /\ \A k \in x.got : k < n
       /\ y = [x EXCEPT !.got = @ \cup {n}]

Finish(x, y) == x.service = "working" /\ y = [x EXCEPT !.service = "ended"]

(* The application is told of the end by the service - or, if its request  *)
(* could not be read, although no service ever worked for it.              *)
Complete(x, y) ==
  /\ x.asked /\ x.done = "none" /\ ~x.released
  /\ x.service # "working" /\ x.got = x.sent
  /\ \E e \in AppCodes : y = [x EXCEPT !.done = e]

Abandon(x, y) ==
  /\ x.released /\ x.service = "working" /\ x.told = "none"
  /\ \E e \in AppCodes : y = [x EXCEPT !.told = e]

(* The connection is lost: each side is told, sooner or later. *)
Lose(x, y) ==
  \/ x.done = "none" /\ ~x.released /\ y = [x EXCEPT !.done = "Disconnected"]
  \/ x.told = "none" /\ x.service = "working" /\ y = [x EXCEPT !.told = "Disconnected"]

Step(x, y) ==
  \/ Ask(x, y) \/ Release(x, y) \/ Begin(x, y) \/ Respond(x, y) \/ Deliver(x, y)
  \/ Finish(x, y) \/ Complete(x, y) \/ Abandon(x, y) \/ Lose(x, y)

Next ==
  LET old == ch
      new == ch'
  IN  /\ DOMAIN new = Clients
      /\ \A c \in Clients :
           /\ DOMAIN new[c] = Tags
           /\ \A t \in Tags : new[c][t] = old[c][t] \/ Step(old[c][t], new[c][t])

Spec == Init /\ [][Next]_ch

=============================================================================
