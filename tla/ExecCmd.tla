------------------------------ MODULE ExecCmd ------------------------------
(***************************************************************************)
(* The 'Node: Execute Command' service end to end: NodeCommandClient and   *)
(* ExecCmdClient in the SDK, ExecCmdService with one Fsm per request in the*)
(* daemon, and the Cyphal nodes the daemon calls.                          *)
(*                                                                         *)
(* Between the two is one IPC channel per command, as IpcSystem describes  *)
(* channels: frames arrive in order, a write may be refused, and when the  *)
(* pipe is lost each side learns it in its own time. A client process has  *)
(* one pipe, its router connects at most once.                             *)
(***************************************************************************)
EXTENDS Naturals, Sequences

CONSTANTS
  Cmds,       \* the commands the client process sends, each on its channel
  Nodes,      \* ids of Cyphal nodes
  NodeLists,  \* for each command the node_ids arguments it may be given
  Faults      \* the failures this instance allows

ASSUME ExecCmdAssumption ==
  /\ NodeLists \in [Cmds -> SUBSET Seq(Nodes)]
  /\ Faults \subseteq {"refuse", "pipeLoss", "sendFail", "callFail", "undecodable"}

Codes == {"Success", "Failure"}
Request(n)  == [kind |-> "request", seq |-> n]
EndOfClient == [kind |-> "end", seq |-> 0]
Response(n) == [kind |-> "response", node |-> {n}, code |-> "Success"]
EndOf(code) == [kind |-> "end", node |-> {}, code |-> code]

(* The frames of a channel in its two directions, and what a receiver gets.*)
UpFrames == [kind : {"request", "end"}, seq : Nat]
DownFrames == [kind : {"response", "end"}, node : SUBSET Nodes, code : Codes]
Results == [code : Codes, nodes : SUBSET Nodes]

VARIABLES
  link,       \* the client's router: "connecting", "up" or "lost"
  peer,       \* whether the daemon knows the client
  phase,      \* the ExecCmdClient: "none", "waiting" (subscribed), "open" (Connected),
              \* "ended" (Completed) or "dropped" (destroyed)
  ids,        \* node_ids of the request
  sends,      \* how often the request was given to the channel
  collected,  \* node_id_to_response_
  results,    \* history: what the receiver was called with
  unsent,     \* history: how often the request could not be sent
  up,         \* frames on their way to the service
  down,       \* frames on their way to the client
  fsm,        \* the Fsm: "none", "running" or "gone" (released, or never made
              \* because the request could not be decoded)
  ops,        \* node_id_to_op_
  commanded,  \* history: how often a node was sent the command
  resolved,   \* history: nodes that answered or ran out of time
  answered,   \* history: those of them that answered
  refused,    \* history: those of them whose response the channel did not take
  garbled     \* history: commands whose request could not be decoded

clientVars == <<link, phase, ids, sends, collected, results, unsent>>
promiseVars == <<resolved, answered, refused>>
serviceVars == <<peer, fsm, ops, commanded, promiseVars, garbled>>
vars == <<clientVars, serviceVars, up, down>>

Init ==
  /\ link = "connecting"
  /\ peer = FALSE
  /\ phase = [r \in Cmds |-> "none"]
  /\ ids = [r \in Cmds |-> <<>>]
  /\ sends = [r \in Cmds |-> 0]
  /\ collected = [r \in Cmds |-> {}]
  /\ results = [r \in Cmds |-> <<>>]
  /\ up = [r \in Cmds |-> <<>>]
  /\ down = [r \in Cmds |-> <<>>]
  /\ fsm = [r \in Cmds |-> "none"]
  /\ ops = [r \in Cmds |-> {}]
  /\ commanded = [r \in Cmds |-> [n \in Nodes |-> 0]]
  /\ resolved = [r \in Cmds |-> {}]
  /\ unsent = [r \in Cmds |-> 0]
  /\ answered = [r \in Cmds |-> {}]
  /\ refused = [r \in Cmds |-> {}]
  /\ garbled = {}

(* Every variable has its type. *)
TypeOK ==
  /\ link \in {"connecting", "up", "lost"}
  /\ peer \in BOOLEAN
  /\ phase \in [Cmds -> {"none", "waiting", "open", "ended", "dropped"}]
  /\ ids \in [Cmds -> Seq(Nodes)]
  /\ sends \in [Cmds -> 0 .. 2]
  /\ collected \in [Cmds -> SUBSET Nodes]
  /\ results \in [Cmds -> Seq(Results)]
  /\ up \in [Cmds -> Seq(UpFrames)]
  /\ down \in [Cmds -> Seq(DownFrames)]
  /\ fsm \in [Cmds -> {"none", "running", "gone"}]
  /\ ops \in [Cmds -> SUBSET Nodes]
  /\ commanded \in [Cmds -> [Nodes -> Nat]]
  /\ resolved \in [Cmds -> SUBSET Nodes]
  /\ unsent \in [Cmds -> Nat]
  /\ answered \in [Cmds -> SUBSET Nodes]
  /\ refused \in [Cmds -> SUBSET Nodes]
  /\ garbled \subseteq Cmds

(* Whether a write to the pipe is reported as done. With the other end     *)
(* closed that says nothing.                                               *)
SendOutcomes(open) == {TRUE} \cup {b \in {FALSE} : ~open \/ "sendFail" \in Faults}

(* The queues after frames were written, or not. *)
WriteUp(r, frames, sent) == IF peer /\ sent THEN [up EXCEPT ![r] = @ \o frames] ELSE up
WriteDown(r, frames, sent) == IF link # "lost" /\ sent THEN [down EXCEPT ![r] = @ \o frames] ELSE down

-----------------------------------------------------------------------------
(* The pipe of the client process. *)

(* The RouteConnect handshake. *)
LinkUp ==
  /\ link = "connecting"
  /\ link' = "up"
  /\ peer' = TRUE
  /\ UNCHANGED <<phase, ids, sends, collected, results, unsent, up, down, fsm, ops, commanded,
                 promiseVars, garbled>>

(* The connection fails before the handshake is done: is_connected_ is     *)
(* false, so no channel is told.                                           *)
LinkRefused ==
  /\ "refuse" \in Faults
  /\ link = "connecting"
  /\ link' = "lost"
  /\ UNCHANGED <<phase, ids, sends, collected, results, unsent, up, down, serviceVars>>

-----------------------------------------------------------------------------
(* NodeCommandClient and ExecCmdClient. *)

(* sendCommand and submit: the channel is made and subscribed. *)
ClientSubmit(r) ==
  /\ phase[r] = "none"
  /\ \E node_ids \in NodeLists[r] : ids' = [ids EXCEPT ![r] = node_ids]
  /\ phase' = [phase EXCEPT ![r] = "waiting"]
  /\ UNCHANGED <<link, sends, collected, results, unsent, up, down, serviceVars>>

(* The receiver is called with a result; responses are copied into it. *)
Emit(r, code, nodes) ==
  results' = [results EXCEPT ![r] = Append(@, [code |-> code, nodes |-> nodes])]

(* handleEvent(Connected): the request is sent, or the receiver gets the   *)
(* error and the channel stays. A router that tells its channels that they *)
(* are connected tells one subscribed meanwhile a second time.             *)
ClientConnected(r) ==
  /\ link = "up"
  /\ phase[r] = "waiting" \/ (phase[r] = "open" /\ sends[r] < 2)
  /\ phase' = [phase EXCEPT ![r] = "open"]
  /\ sends' = [sends EXCEPT ![r] = @ + 1]
  /\ \E sent \in SendOutcomes(peer) :
       /\ up' = WriteUp(r, <<Request(sends[r])>>, sent)
       /\ IF sent THEN UNCHANGED <<results, unsent>>
                  ELSE Emit(r, "Failure", {}) /\ unsent' = [unsent EXCEPT ![r] = @ + 1]
  /\ UNCHANGED <<link, ids, collected, down, serviceVars>>

(* The handlers of the router run one after the other: no event is handled *)
(* while channels are still to be told that they are connected.            *)
AllTold == \A r \in Cmds : phase[r] # "waiting"

(* What handleEvent(Input) makes of a response: emplace() keeps the first. *)
Collect(nodes, frame) == nodes \cup frame.node

(* The result made of Completed: the responses, or the error code alone. *)
EmitCompleted(r, code) ==
  IF code # "Success" THEN Emit(r, "Failure", {}) ELSE Emit(r, "Success", collected[r])

(* The end of a channel takes its gateway out of the router's map. *)
MutStaysOpen == "open"  \* mutant: it stays registered
PhaseAfterEnd == "ended"

(* A frame of an open channel: handleEvent(Input), handleEvent(Completed).  *)
(* A frame for a channel that is not registered is ignored.                *)
ClientReceive(r) ==
  /\ link = "up"
  /\ AllTold
  /\ down[r] # <<>>
  /\ down' = [down EXCEPT ![r] = Tail(@)]
  /\ LET frame == Head(down[r]) IN
       \/ /\ phase[r] = "open" /\ frame.kind = "response"
          /\ collected' = [collected EXCEPT ![r] = Collect(@, frame)]
          /\ UNCHANGED <<phase, results>>
       \/ /\ phase[r] = "open" /\ frame.kind = "end"
          /\ phase' = [phase EXCEPT ![r] = PhaseAfterEnd]
          /\ EmitCompleted(r, frame.code)
          /\ UNCHANGED collected
       \/ /\ phase[r] # "open"
          /\ UNCHANGED <<phase, results, collected>>
  /\ UNCHANGED <<link, ids, sends, unsent, up, serviceVars>>

(* A connected router loses the pipe: every channel is completed with      *)
(* Disconnected, unread frames are gone.                                   *)
ClientLosesPipe ==
  /\ link = "up"
  /\ AllTold
  /\ ~peer \/ "pipeLoss" \in Faults
  /\ link' = "lost"
  /\ phase' = [r \in Cmds |-> IF phase[r] = "open" THEN "ended" ELSE phase[r]]
  /\ results' = [r \in Cmds |->
       IF phase[r] = "open" THEN Append(results[r], [code |-> "Failure", nodes |-> {}])
                            ELSE results[r]]
  /\ down' = [r \in Cmds |-> <<>>]
  /\ UNCHANGED <<ids, sends, collected, unsent, up, serviceVars>>

(* The application lets go of the sender, with or without a result. *)
ClientDrop(r) ==
  /\ phase[r] \in {"waiting", "open", "ended"}
  /\ phase' = [phase EXCEPT ![r] = "dropped"]
  /\ IF phase[r] = "open"
       THEN \E sent \in SendOutcomes(peer) : up' = WriteUp(r, <<EndOfClient>>, sent)
       ELSE UNCHANGED up
  /\ UNCHANGED <<link, ids, sends, collected, results, unsent, down, serviceVars>>

-----------------------------------------------------------------------------
(* ExecCmdService. *)

(* unique_node_ids *)
Unique(node_ids) == {node_ids[i] : i \in 1 .. Len(node_ids)}

(* Fsm::complete: pending calls are cancelled, the channel is completed and*)
(* destroyed with the Fsm.                                                 *)
Complete(r, frames) ==
  /\ ops' = [ops EXCEPT ![r] = {}]
  /\ fsm' = [fsm EXCEPT ![r] = "gone"]
  /\ \E sent \in SendOutcomes(link # "lost") : down' = WriteDown(r, frames, sent)

(* How many Cyphal requests a node gets for a list of node ids. *)
MutCallsPerEntry(node_ids, n) == \* mutant: duplicates are not removed
  Len(SelectSeq(node_ids, LAMBDA m : m = n))
CallsTo(node_ids, n) == IF n \in Unique(node_ids) THEN 1 ELSE 0

(* A request without nodes is completed at once. *)
MutNeverEmpty(node_ids) == FALSE  \* mutant: the check is missing
NothingToDo(node_ids) == node_ids = <<>>

(* operator() and Fsm::start. The calls are made one after the other, and  *)
(* the first that fails ends the request with its error.                   *)
ServiceStart(r) ==
  LET wanted == Unique(ids[r])
      Command(nodes) ==
        commanded' = [commanded EXCEPT ![r] = [n \in Nodes |->
          IF n \in nodes THEN @[n] + CallsTo(ids[r], n) ELSE @[n]]]
  IN  \/ /\ NothingToDo(ids[r])
         /\ Complete(r, <<EndOf("Success")>>)
         /\ UNCHANGED commanded
      \/ /\ ~NothingToDo(ids[r])
         /\ fsm' = [fsm EXCEPT ![r] = "running"]
         /\ ops' = [ops EXCEPT ![r] = wanted]
         /\ Command(wanted)
         /\ UNCHANGED down
      \/ /\ "callFail" \in Faults
         /\ \E called \in SUBSET wanted : called # wanted /\ Command(called)
         /\ Complete(r, <<EndOf("Failure")>>)

(* registerChannel's factory: a first request that cannot be decoded is not*)
(* given to the service. Its gateway dies at once and ends the channel with*)
(* the completion code it was made with, which is success.                 *)
ServiceCannotDecode(r) ==
  /\ "undecodable" \in Faults
  /\ garbled' = garbled \cup {r}
  /\ Complete(r, <<EndOf("Success")>>)
  /\ UNCHANGED commanded

(* The router gives the service a new channel for the first request only;  *)
(* Input is of no interest to the Fsm, Completed cancels it.               *)
StartsService(r, frame) == frame.kind = "request" /\ frame.seq = 0

ServiceReceive(r) ==
  /\ peer
  /\ up[r] # <<>>
  /\ up' = [up EXCEPT ![r] = Tail(@)]
  /\ LET frame == Head(up[r]) IN
       \/ /\ StartsService(r, frame)
          /\ ServiceStart(r)
          /\ UNCHANGED garbled
       \/ /\ StartsService(r, frame)
          /\ ServiceCannotDecode(r)
       \/ /\ frame.kind = "end" /\ fsm[r] = "running"
          /\ Complete(r, <<>>)
          /\ UNCHANGED <<commanded, garbled>>
       \/ /\ ~StartsService(r, frame)
          /\ ~(frame.kind = "end" /\ fsm[r] = "running")
          /\ UNCHANGED <<fsm, ops, down, commanded, garbled>>
  /\ UNCHANGED <<clientVars, peer, promiseVars>>

(* The last pending call completes the request. *)
MutAnyIsLast(r, n) == TRUE    \* mutant: the first does
MutNoneIsLast(r, n) == FALSE  \* mutant: never checked
IsLastOp(r, n) == ops[r] = {n}

(* The callback of a promise, with a response or with a failure (the       *)
(* deadline has passed). A response that cannot be written is only logged. *)
PromiseResolved(r, n, success) ==
  /\ n \in ops[r]
  /\ resolved' = [resolved EXCEPT ![r] = @ \cup {n}]
  /\ answered' = IF success THEN [answered EXCEPT ![r] = @ \cup {n}] ELSE answered
  /\ \E sent, ended \in SendOutcomes(link # "lost") :
       LET response == IF success /\ sent THEN <<Response(n)>> ELSE <<>>
           end == IF ended THEN <<EndOf("Success")>> ELSE <<>>
       IN  /\ refused' = IF success /\ ~sent THEN [refused EXCEPT ![r] = @ \cup {n}] ELSE refused
           /\ IF IsLastOp(r, n)
                THEN /\ ops' = [ops EXCEPT ![r] = {}]
                     /\ fsm' = [fsm EXCEPT ![r] = "gone"]
                     /\ down' = WriteDown(r, response \o end, TRUE)
                ELSE /\ ops' = [ops EXCEPT ![r] = @ \ {n}]
                     /\ down' = WriteDown(r, response, TRUE)
                     /\ UNCHANGED fsm
  /\ UNCHANGED <<clientVars, peer, up, commanded, garbled>>

(* The daemon finds the pipe lost: every Fsm of the client gets Completed. *)
MutKeepsFsm(r) == fsm[r]  \* mutant: Completed is not handled
FsmAfterLoss(r) == IF fsm[r] = "running" THEN "gone" ELSE fsm[r]

ServiceLosesPipe ==
  /\ peer
  /\ link = "lost" \/ "pipeLoss" \in Faults
  /\ peer' = FALSE
  /\ fsm' = [r \in Cmds |-> FsmAfterLoss(r)]
  /\ ops' = [r \in Cmds |-> IF fsm'[r] = "gone" THEN {} ELSE ops[r]]
  /\ up' = [r \in Cmds |-> <<>>]
  /\ UNCHANGED <<clientVars, down, commanded, promiseVars, garbled>>

-----------------------------------------------------------------------------
Next ==
  \/ LinkUp
  \/ LinkRefused
  \/ ClientLosesPipe
  \/ ServiceLosesPipe
  \/ \E r \in Cmds : ClientSubmit(r)
  \/ \E r \in Cmds : ClientConnected(r)
  \/ \E r \in Cmds : ClientReceive(r)
  \/ \E r \in Cmds : ClientDrop(r)
  \/ \E r \in Cmds : ServiceReceive(r)
  \/ \E r \in Cmds, n \in Nodes, success \in BOOLEAN : PromiseResolved(r, n, success)

Spec == Init /\ [][Next]_vars

(* Both processes spin their executors, and a lost pipe is noticed. *)
IpcFairness ==
  /\ \A r \in Cmds :
       /\ WF_vars(phase[r] = "waiting" /\ ClientConnected(r))
       /\ WF_vars(ClientReceive(r))
       /\ WF_vars(ServiceReceive(r))
  /\ WF_vars(~peer /\ ClientLosesPipe)
  /\ WF_vars(link = "lost" /\ ServiceLosesPipe)

(* A promise is resolved by a response or by its deadline, however far off.*)
DeadlineFairness ==
  \A r \in Cmds, n \in Nodes : WF_vars(\E success \in BOOLEAN : PromiseResolved(r, n, success))

FairSpec == Spec /\ IpcFairness

-----------------------------------------------------------------------------
Succeeded(r) == {i \in 1 .. Len(results[r]) : results[r][i].code = "Success"}

(* A successful result is reported only after every node asked has answered*)
(* or run out of time, and it has the response of every node that answered:*)
(* none is overtaken by the end of the channel, none is left over from a   *)
(* request given up half-way. There are two exceptions, both silent: a     *)
(* response the channel did not take is only logged (ExecCmdService, the   *)
(* promise's callback) and missing, and of a request the daemon could not  *)
(* decode nothing was executed, yet its client is told an empty success.   *)
SuccessIsComplete ==
  \A r \in Cmds : \A i \in Succeeded(r) :
    IF r \in garbled
      THEN results[r][i].nodes = {} /\ \A n \in Nodes : commanded[r][n] = 0
      ELSE /\ resolved[r] = Unique(ids[r])
           /\ results[r][i].nodes = answered[r] \ refused[r]

(* What NodeCommandClient::Command promises of a successful result: a node *)
(* that is not in it is missing or failed to respond in time.              *)
SuccessLacksOnlySilentNodes ==
  \A r \in Cmds : \A i \in Succeeded(r) :
    Unique(ids[r]) \ results[r][i].nodes \subseteq resolved[r] \ answered[r]

(* The receiver hears how its command ended exactly once, and nothing after*)
(* that. Calls before it only say that the request could not be sent, one  *)
(* for each time that it could not: the channel stays subscribed then, and *)
(* its completion is reported as well (ExecCmdClientImpl::handleEvent). A  *)
(* request that was sent is never reported as failed until it has ended.   *)
FinalResultIsLast ==
  \A r \in Cmds :
    /\ phase[r] \in {"none", "waiting", "open"} => Len(results[r]) = unsent[r]
    /\ phase[r] = "ended" => Len(results[r]) = unsent[r] + 1
    /\ phase[r] = "dropped" => Len(results[r]) \in {unsent[r], unsent[r] + 1}
    /\ \A i \in 1 .. Len(results[r]) - 1 : results[r][i].code = "Failure"

(* No node is sent a command twice, although node_ids may repeat and the   *)
(* request may be sent twice (Fsm::start, unique_node_ids).                *)
NodeCommandedOnce ==
  \A r \in Cmds, n \in Nodes : commanded[r][n] <= 1

(* An Fsm that runs has a call pending, so that something will complete it,*)
(* and one that is gone has cancelled its calls (Fsm::complete).           *)
RunningFsmHasWork ==
  \A r \in Cmds : fsm[r] = "running" <=> ops[r] # {}

(* What only a refused write can leave: the Fsm is gone and no end of its  *)
(* channel is on the way, or the client has dropped a channel whose Fsm    *)
(* still runs and no end is on the way.                                    *)
EndRefused(r) ==
  /\ phase[r] = "open" /\ link = "up" /\ peer /\ fsm[r] = "gone"
  /\ \A i \in 1 .. Len(down[r]) : down[r][i].kind # "end"

CancelRefused(r) ==
  /\ phase[r] = "dropped" /\ link = "up" /\ peer /\ fsm[r] = "running"
  /\ \A i \in 1 .. Len(up[r]) : up[r][i].kind # "end"

(* If deadlines expire, a command whose channel got connected has a result *)
(* in the end, unless the application drops it - whether nodes answer or   *)
(* not, whatever calls fail, also when the pipe is lost meanwhile. The one *)
(* exception is an end of its channel that was refused for lack of buffer  *)
(* space and is not sent again.                                            *)
ConnectedCommandHasResult ==
  DeadlineFairness =>
    \A r \in Cmds : phase[r] = "open" ~> (results[r] # <<>> \/ phase[r] = "dropped" \/ EndRefused(r))

(* A command the application dropped is cancelled in the daemon, even if   *)
(* its nodes never answer and its deadline never comes, unless the end of  *)
(* its channel was refused.                                                *)
DroppedCommandIsCancelled ==
  \A r \in Cmds : phase[r] = "dropped" ~> (fsm[r] # "running" \/ CancelRefused(r))

=============================================================================
