--------------------------- MODULE ExecCmdProofs ---------------------------
(***************************************************************************)
(* Proofs about ExecCmd for any commands, nodes and node lists, and every  *)
(* combination of faults: no node is commanded twice, a running Fsm has    *)
(* work, the final result is the last, and a success is complete.          *)
(***************************************************************************)
EXTENDS ExecCmd, SequenceTheorems, TLAPS

(* What the two sides write is a frame, and what the receiver gets a result. *)
LEMMA FramesAreFrames ==
  /\ \A n \in Nat : Request(n) \in UpFrames
  /\ EndOfClient \in UpFrames
  /\ \A n \in Nodes : Response(n) \in DownFrames
  /\ \A code \in Codes : EndOf(code) \in DownFrames
  BY DEF Request, EndOfClient, Response, EndOf, UpFrames, DownFrames, Codes

(* A list of node ids names nodes. *)
LEMMA UniqueType ==
  ASSUME NEW s \in Seq(Nodes)
  PROVE  /\ Unique(s) \subseteq Nodes
         /\ s = <<>> => Unique(s) = {}
         /\ s # <<>> => Unique(s) # {}
  <1>1. s # <<>> => 1 \in 1 .. Len(s)
    OBVIOUS
  <1> QED
    BY <1>1 DEF Unique

(* A frame of the client reaches its own queue or none. *)
LEMMA WriteUpFacts ==
  ASSUME TypeOK, NEW r \in Cmds, NEW f \in UpFrames, NEW sent \in BOOLEAN,
         up' = WriteUp(r, <<f>>, sent)
  PROVE  /\ up' \in [Cmds -> Seq(UpFrames)]
         /\ \A q \in Cmds : q # r => up'[q] = up[q]
         /\ up'[r] = up[r] \/ up'[r] = Append(up[r], f)
  <1>1. up \in [Cmds -> Seq(UpFrames)]
    BY DEF TypeOK
  <1>2. up[r] \o <<f>> = Append(up[r], f) /\ Append(up[r], f) \in Seq(UpFrames)
    BY <1>1, AppendIsConcat, AppendProperties
  <1>3. up' = up \/ up' = [up EXCEPT ![r] = Append(up[r], f)]
    BY <1>2 DEF WriteUp
  <1> QED
    BY <1>1, <1>2, <1>3

(* Frames of the daemon reach the queue of their channel or none. *)
LEMMA WriteDownFacts ==
  ASSUME TypeOK, NEW r \in Cmds, NEW fs \in Seq(DownFrames), NEW sent \in BOOLEAN,
         down' = WriteDown(r, fs, sent)
  PROVE  /\ down' \in [Cmds -> Seq(DownFrames)]
         /\ \A q \in Cmds : q # r => down'[q] = down[q]
         /\ down'[r] = IF link # "lost" /\ sent THEN down[r] \o fs ELSE down[r]
  <1>1. down \in [Cmds -> Seq(DownFrames)]
    BY DEF TypeOK
  <1>2. down[r] \o fs \in Seq(DownFrames)
    BY <1>1, ConcatProperties
  <1> QED
    BY <1>1, <1>2 DEF WriteDown

(* A write is reported as done or as refused. *)
LEMMA OutcomesAreBoolean == \A open \in BOOLEAN : SendOutcomes(open) \subseteq BOOLEAN
  BY DEF SendOutcomes

(* Fsm::complete ends the Fsm and leaves every other command alone. *)
LEMMA CompleteFacts ==
  ASSUME TypeOK, NEW r \in Cmds, NEW fs \in Seq(DownFrames), Complete(r, fs)
  PROVE  /\ ops' = [ops EXCEPT ![r] = {}]
         /\ fsm' = [fsm EXCEPT ![r] = "gone"]
         /\ down' \in [Cmds -> Seq(DownFrames)]
         /\ \A q \in Cmds : q # r => down'[q] = down[q]
         /\ down'[r] = down[r] \/ down'[r] = down[r] \o fs
  <1>1. PICK sent \in BOOLEAN : down' = WriteDown(r, fs, sent)
    BY OutcomesAreBoolean DEF Complete
  <1> QED
    BY <1>1, WriteDownFacts DEF Complete

(* A node gets at most one request when a command is started. *)
LEMMA CallsAtMostOnce ==
  \A s \in Seq(Nodes), n \in Nodes : CallsTo(s, n) \in {0, 1}
  BY DEF CallsTo

(* Fsm::start: no node is called more than once; the Fsm runs with every   *)
(* node pending, or the channel is completed, successfully only if there   *)
(* was nothing to do.                                                      *)
LEMMA ServiceStartFacts ==
  ASSUME TypeOK, NEW r \in Cmds, ServiceStart(r)
  PROVE  /\ commanded' \in [Cmds -> [Nodes -> Nat]]
         /\ \A q \in Cmds : q # r => commanded'[q] = commanded[q]
         /\ \A n \in Nodes : commanded'[r][n] <= commanded[r][n] + 1
         /\ \/ /\ fsm' = [fsm EXCEPT ![r] = "running"]
               /\ ops' = [ops EXCEPT ![r] = Unique(ids[r])]
               /\ Unique(ids[r]) # {}
               /\ down' = down
            \/ /\ fsm' = [fsm EXCEPT ![r] = "gone"]
               /\ ops' = [ops EXCEPT ![r] = {}]
               /\ down' \in [Cmds -> Seq(DownFrames)]
               /\ \A q \in Cmds : q # r => down'[q] = down[q]
               /\ \E code \in Codes :
                    /\ down'[r] = down[r] \/ down'[r] = down[r] \o <<EndOf(code)>>
                    /\ code = "Success" => Unique(ids[r]) = {}
  <1> DEFINE Command(nodes) ==
        commanded' = [commanded EXCEPT ![r] = [n \in Nodes |->
          IF n \in nodes THEN @[n] + CallsTo(ids[r], n) ELSE @[n]]]
  <1>0. ids[r] \in Seq(Nodes) /\ commanded \in [Cmds -> [Nodes -> Nat]]
    BY DEF TypeOK
  <1>1. ASSUME NEW nodes, Command(nodes)
        PROVE  /\ commanded' \in [Cmds -> [Nodes -> Nat]]
               /\ \A q \in Cmds : q # r => commanded'[q] = commanded[q]
               /\ \A n \in Nodes : commanded'[r][n] <= commanded[r][n] + 1
    <2> DEFINE row == [n \in Nodes |-> IF n \in nodes THEN commanded[r][n] + CallsTo(ids[r], n)
                                                     ELSE commanded[r][n]]
    <2>1. ASSUME NEW n \in Nodes
          PROVE  row[n] \in Nat /\ row[n] <= commanded[r][n] + 1
      <3>1. CallsTo(ids[r], n) \in {0, 1} /\ commanded[r][n] \in Nat
        BY <1>0, CallsAtMostOnce
      <3>2. row[n] = commanded[r][n] \/ row[n] = commanded[r][n] + CallsTo(ids[r], n)
        OBVIOUS
      <3> QED
        BY <3>1, <3>2
    <2>2. \A n \in Nodes : row[n] \in Nat /\ row[n] <= commanded[r][n] + 1
      BY <2>1
    <2>3. row \in [Nodes -> Nat]
      BY <2>2
    <2>4. commanded' = [commanded EXCEPT ![r] = row]
      BY <1>1, Zenon
    <2> HIDE DEF row
    <2> QED
      BY <1>0, <2>2, <2>3, <2>4
  <1> HIDE DEF Command
  <1>2. CASE NothingToDo(ids[r]) /\ Complete(r, <<EndOf("Success")>>) /\ UNCHANGED commanded
    <2>1. <<EndOf("Success")>> \in Seq(DownFrames) /\ "Success" \in Codes
      BY FramesAreFrames DEF Codes
    <2>2. Unique(ids[r]) = {}
      BY <1>0, <1>2, UniqueType DEF NothingToDo
    <2>3. \A n \in Nodes : commanded'[r][n] <= commanded[r][n] + 1
      BY <1>0, <1>2
    <2>4. commanded' = commanded
      BY <1>2
    <2> QED
      BY <1>0, <1>2, <2>1, <2>2, <2>3, <2>4, CompleteFacts
  <1>3. CASE /\ ~NothingToDo(ids[r])
             /\ fsm' = [fsm EXCEPT ![r] = "running"]
             /\ ops' = [ops EXCEPT ![r] = Unique(ids[r])]
             /\ Command(Unique(ids[r]))
             /\ UNCHANGED down
    <2>1. Unique(ids[r]) # {}
      BY <1>0, <1>3, UniqueType DEF NothingToDo
    <2> QED
      BY <1>1, <1>3, <2>1
  <1>4. CASE /\ \E called \in SUBSET Unique(ids[r]) : Command(called)
             /\ Complete(r, <<EndOf("Failure")>>)
    <2>1. <<EndOf("Failure")>> \in Seq(DownFrames) /\ "Failure" \in Codes
      BY FramesAreFrames DEF Codes
    <2> QED
      BY <1>1, <1>4, <2>1, CompleteFacts
  <1> QED
    BY <1>2, <1>3, <1>4 DEF ServiceStart, Command

(* What becomes of a first request, whether it can be decoded or not.      *)
Starts(r) == (ServiceStart(r) /\ UNCHANGED garbled) \/ ServiceCannotDecode(r)

(* As above; but for one that cannot be decoded, a success is told without *)
(* anything done.                                                          *)
LEMMA StartsFacts ==
  ASSUME TypeOK, NEW r \in Cmds, Starts(r)
  PROVE  /\ commanded' \in [Cmds -> [Nodes -> Nat]]
         /\ \A q \in Cmds : q # r => commanded'[q] = commanded[q]
         /\ \A n \in Nodes : commanded'[r][n] <= commanded[r][n] + 1
         /\ garbled' \subseteq Cmds
         /\ \A q \in Cmds : q # r => (q \in garbled' <=> q \in garbled)
         /\ r \in garbled' => r \in garbled \/ commanded' = commanded
         /\ \/ /\ fsm' = [fsm EXCEPT ![r] = "running"]
               /\ ops' = [ops EXCEPT ![r] = Unique(ids[r])]
               /\ Unique(ids[r]) # {}
               /\ down' = down
               /\ garbled' = garbled
            \/ /\ fsm' = [fsm EXCEPT ![r] = "gone"]
               /\ ops' = [ops EXCEPT ![r] = {}]
               /\ down' \in [Cmds -> Seq(DownFrames)]
               /\ \A q \in Cmds : q # r => down'[q] = down[q]
               /\ \E code \in Codes :
                    /\ down'[r] = down[r] \/ down'[r] = down[r] \o <<EndOf(code)>>
                    /\ code = "Success" => r \in garbled' \/ Unique(ids[r]) = {}
  <1>1. CASE ServiceStart(r) /\ UNCHANGED garbled
    <2>1. garbled' = garbled /\ garbled' \subseteq Cmds
      BY <1>1 DEF TypeOK
    <2> QED
      BY <1>1, <2>1, ServiceStartFacts
  <1>2. CASE ServiceCannotDecode(r)
    <2>1. <<EndOf("Success")>> \in Seq(DownFrames) /\ "Success" \in Codes
      BY FramesAreFrames DEF Codes
    <2>2. commanded' = commanded /\ garbled' = garbled \cup {r} /\ Complete(r, <<EndOf("Success")>>)
      BY <1>2 DEF ServiceCannotDecode
    <2>3. commanded \in [Cmds -> [Nodes -> Nat]] /\ garbled' \subseteq Cmds
      BY <2>2 DEF TypeOK
    <2>4. \A n \in Nodes : commanded'[r][n] <= commanded[r][n] + 1
      BY <2>2, <2>3
    <2> QED
      BY <2>1, <2>2, <2>3, <2>4, CompleteFacts
  <1> QED
    BY <1>1, <1>2 DEF Starts

(* The nodes whose response is on its way to the client, or was. *)
Written(r) == answered[r] \ refused[r]

(* What the callback of a promise does with the frames it writes: the      *)
(* response, if there is one and it could be written, goes into the        *)
(* channel, and the end after the last one.                                *)
Resolves(r, n, response, end) ==
  /\ n \in ops[r]
  /\ resolved' = [resolved EXCEPT ![r] = @ \cup {n}]
  /\ \/ answered' = answered /\ refused' = refused /\ response = <<>>
     \/ /\ answered' = [answered EXCEPT ![r] = @ \cup {n}]
        /\ \/ refused' = refused /\ response # <<>>
           \/ refused' = [refused EXCEPT ![r] = @ \cup {n}] /\ response = <<>>
  /\ \/ /\ ops[r] = {n}
        /\ ops' = [ops EXCEPT ![r] = {}]
        /\ fsm' = [fsm EXCEPT ![r] = "gone"]
        /\ down' = WriteDown(r, response \o end, TRUE)
     \/ /\ ops[r] # {n}
        /\ ops' = [ops EXCEPT ![r] = @ \ {n}]
        /\ fsm' = fsm
        /\ down' = WriteDown(r, response, TRUE)

(* PromiseResolved is such a step. *)
LEMMA PromiseResolvedFacts ==
  ASSUME TypeOK, NEW r \in Cmds, NEW n \in Nodes, NEW success \in BOOLEAN,
         PromiseResolved(r, n, success)
  PROVE  \E response \in {<<>>, <<Response(n)>>}, end \in {<<>>, <<EndOf("Success")>>} :
           Resolves(r, n, response, end)
  <1> DEFINE response(sent) == IF success /\ sent THEN <<Response(n)>> ELSE <<>>
             end(ended) == IF ended THEN <<EndOf("Success")>> ELSE <<>>
  <1>1. PICK sent \in BOOLEAN, ended \in BOOLEAN :
          /\ refused' = IF success /\ ~sent THEN [refused EXCEPT ![r] = @ \cup {n}] ELSE refused
          /\ IF IsLastOp(r, n)
               THEN /\ ops' = [ops EXCEPT ![r] = {}]
                    /\ fsm' = [fsm EXCEPT ![r] = "gone"]
                    /\ down' = WriteDown(r, response(sent) \o end(ended), TRUE)
               ELSE /\ ops' = [ops EXCEPT ![r] = @ \ {n}]
                    /\ down' = WriteDown(r, response(sent), TRUE)
                    /\ UNCHANGED fsm
    BY OutcomesAreBoolean, Zenon DEF PromiseResolved
  <1>2. \/ answered' = answered /\ refused' = refused /\ response(sent) = <<>>
        \/ /\ answered' = [answered EXCEPT ![r] = @ \cup {n}]
           /\ \/ refused' = refused /\ response(sent) # <<>>
              \/ refused' = [refused EXCEPT ![r] = @ \cup {n}] /\ response(sent) = <<>>
    <2>1. answered' = IF success THEN [answered EXCEPT ![r] = @ \cup {n}] ELSE answered
      BY DEF PromiseResolved
    <2>2. <<Response(n)>> # <<>>
      OBVIOUS
    <2>3. CASE success /\ sent
      BY <1>1, <2>1, <2>2, <2>3
    <2>4. CASE success /\ ~sent
      BY <1>1, <2>1, <2>4
    <2>5. CASE ~success
      BY <1>1, <2>1, <2>5
    <2> QED
      BY <2>3, <2>4, <2>5
  <1>3. n \in ops[r] /\ resolved' = [resolved EXCEPT ![r] = @ \cup {n}]
    BY DEF PromiseResolved
  <1>4. response(sent) \in {<<>>, <<Response(n)>>} /\ end(ended) \in {<<>>, <<EndOf("Success")>>}
    OBVIOUS
  <1> HIDE DEF response, end
  <1>5. IsLastOp(r, n) <=> ops[r] = {n}
    BY DEF IsLastOp
  <1> QED
    BY <1>1, <1>2, <1>3, <1>4, <1>5 DEF Resolves
---------------------------------------------------------------------------
(* The inductive invariant, one operator per relation between the client,  *)
(* the channel and the Fsm of a command.                                   *)

Over == {"ended", "dropped"}

(* A client that was not told Connected has sent and collected nothing; a  *)
(* result is a failed attempt to send or the end of the client, and only   *)
(* the end may be a success.                                               *)
ClientInv(r) ==
  /\ phase[r] \in {"none", "waiting"} => sends[r] = 0 /\ collected[r] = {}
  /\ phase[r] \in {"none", "waiting", "open"} => Len(results[r]) = unsent[r]
  /\ phase[r] = "ended" => Len(results[r]) = unsent[r] + 1
  /\ phase[r] = "dropped" => Len(results[r]) \in {unsent[r], unsent[r] + 1}
  /\ \A i \in 1 .. Len(results[r]) :
       results[r][i].code = "Success" => i = Len(results[r]) /\ phase[r] \in Over

(* The first request is in the channel at most once, and before the Fsm.   *)
UpInv(r) ==
  /\ \A i, j \in 1 .. Len(up[r]) :
       StartsService(r, up[r][i]) /\ StartsService(r, up[r][j]) => i = j
  /\ \A i \in 1 .. Len(up[r]) :
       StartsService(r, up[r][i]) => fsm[r] = "none" /\ sends[r] > 0
  /\ sends[r] = 0 => fsm[r] = "none"

(* Before the Fsm nothing has happened, and after a request that could not *)
(* be decoded neither; while the Fsm runs, every node asked is pending or  *)
(* resolved, and not both.                                                 *)
FsmInv(r) ==
  /\ fsm[r] = "none" =>
       /\ resolved[r] = {} /\ down[r] = <<>> /\ r \notin garbled
       /\ \A n \in Nodes : commanded[r][n] = 0
  /\ fsm[r] = "running" <=> ops[r] # {}
  /\ fsm[r] = "running" => ops[r] \cup resolved[r] = Unique(ids[r])
  /\ ops[r] \cap resolved[r] = {}
  /\ answered[r] \subseteq resolved[r] /\ refused[r] \subseteq resolved[r]
  /\ r \in garbled =>
       fsm[r] = "gone" /\ resolved[r] = {} /\ \A n \in Nodes : commanded[r][n] = 0
  /\ \A n \in Nodes : commanded[r][n] <= 1

(* The end of the channel is the last frame, and the end of the Fsm; what  *)
(* an open client has collected and what is on its way is what was written.*)
DownInv(r) ==
  /\ \A i \in 1 .. Len(down[r]) :
       down[r][i].kind = "end" =>
         /\ i = Len(down[r]) /\ down[r][i].node = {} /\ fsm[r] = "gone"
         /\ down[r][i].code = "Success" => r \in garbled \/ resolved[r] = Unique(ids[r])
  /\ link # "lost" /\ phase[r] = "open" =>
       \A n \in Nodes :
         n \in Written(r) <=>
           n \in collected[r] \/ \E i \in 1 .. Len(down[r]) : n \in down[r][i].node

(* A success was reported after the Fsm had ended, with all there was. *)
ResultInv(r) ==
  \A i \in Succeeded(r) :
    /\ fsm[r] = "gone"
    /\ r \in garbled \/ resolved[r] = Unique(ids[r])
    /\ results[r][i].nodes = Written(r)

CmdInv(r) == ClientInv(r) /\ UpInv(r) /\ FsmInv(r) /\ DownInv(r) /\ ResultInv(r)

Inv == \A r \in Cmds : CmdInv(r)

(* A command that a step leaves alone keeps its invariant, whatever        *)
(* becomes of the link, as long as a lost one is not found again.          *)
LEMMA SameCmd ==
  ASSUME NEW q \in Cmds, CmdInv(q), link = "lost" => link' = "lost",
         phase'[q] = phase[q], ids'[q] = ids[q], sends'[q] = sends[q],
         collected'[q] = collected[q], results'[q] = results[q], up'[q] = up[q],
         down'[q] = down[q], fsm'[q] = fsm[q], ops'[q] = ops[q],
         commanded'[q] = commanded[q], resolved'[q] = resolved[q], unsent'[q] = unsent[q],
         answered'[q] = answered[q], refused'[q] = refused[q], q \in garbled' <=> q \in garbled
  PROVE  CmdInv(q)'
  BY DEF CmdInv, ClientInv, UpInv, FsmInv, DownInv, ResultInv, Succeeded, StartsService, Written
---------------------------------------------------------------------------
(* Type correctness.  That a request is sent at most twice needs ClientInv.*)
LEMMA TypeInit == Init => TypeOK
  <1> SUFFICES ASSUME Init PROVE TypeOK
    OBVIOUS
  <1>1. <<>> \in Seq(Nodes) /\ <<>> \in Seq(Results) /\ <<>> \in Seq(UpFrames)
        /\ <<>> \in Seq(DownFrames)
    OBVIOUS
  <1>2. /\ ids \in [Cmds -> Seq(Nodes)] /\ results \in [Cmds -> Seq(Results)]
        /\ up \in [Cmds -> Seq(UpFrames)] /\ down \in [Cmds -> Seq(DownFrames)]
    BY <1>1 DEF Init
  <1>3. commanded \in [Cmds -> [Nodes -> Nat]]
    BY DEF Init
  <1>4. /\ phase \in [Cmds -> {"none", "waiting", "open", "ended", "dropped"}]
        /\ fsm \in [Cmds -> {"none", "running", "gone"}]
        /\ sends \in [Cmds -> 0 .. 2]
    BY DEF Init
  <1> QED
    BY <1>2, <1>3, <1>4 DEF Init, TypeOK

(* A result added to those of one command. *)
LEMMA EmitType ==
  ASSUME TypeOK, NEW r \in Cmds, NEW code \in Codes, NEW nodes \in SUBSET Nodes,
         Emit(r, code, nodes)
  PROVE  results' \in [Cmds -> Seq(Results)]
  <1>1. [code |-> code, nodes |-> nodes] \in Results
    BY DEF Results
  <1>2. Append(results[r], [code |-> code, nodes |-> nodes]) \in Seq(Results)
    BY <1>1, AppendProperties DEF TypeOK
  <1> QED
    BY <1>2 DEF TypeOK, Emit

(* Every step keeps the types. *)
LEMMA TypeStep == TypeOK /\ Inv /\ [Next]_vars => TypeOK'
  <1> SUFFICES ASSUME TypeOK, Inv, [Next]_vars
               PROVE  TypeOK'
    OBVIOUS
  <1> USE DEF clientVars, promiseVars, serviceVars
  <1>1. CASE LinkUp \/ LinkRefused
    BY <1>1 DEF LinkUp, LinkRefused, TypeOK
  <1>2. CASE ClientLosesPipe
    <2>1. [code |-> "Failure", nodes |-> {}] \in Results
      BY DEF Results, Codes
    <2>2. results' \in [Cmds -> Seq(Results)]
      <3>1. ASSUME NEW r \in Cmds
            PROVE  Append(results[r], [code |-> "Failure", nodes |-> {}]) \in Seq(Results)
        BY <2>1 DEF TypeOK
      <3> QED
        BY <1>2, <3>1 DEF ClientLosesPipe, TypeOK
    <2>3. phase' \in [Cmds -> {"none", "waiting", "open", "ended", "dropped"}]
      BY <1>2 DEF ClientLosesPipe, TypeOK
    <2>4. down' \in [Cmds -> Seq(DownFrames)]
      BY <1>2 DEF ClientLosesPipe
    <2> QED
      BY <1>2, <2>2, <2>3, <2>4 DEF ClientLosesPipe, TypeOK
  <1>3. CASE ServiceLosesPipe
    <2>1. fsm' \in [Cmds -> {"none", "running", "gone"}]
      BY <1>3 DEF ServiceLosesPipe, FsmAfterLoss, TypeOK
    <2>2. ops' \in [Cmds -> SUBSET Nodes]
      BY <1>3 DEF ServiceLosesPipe, TypeOK
    <2>3. up' \in [Cmds -> Seq(UpFrames)]
      BY <1>3 DEF ServiceLosesPipe
    <2> QED
      BY <1>3, <2>1, <2>2, <2>3 DEF ServiceLosesPipe, TypeOK
  <1>4. ASSUME NEW r \in Cmds, ClientSubmit(r) PROVE TypeOK'
    <2>1. PICK node_ids \in NodeLists[r] : ids' = [ids EXCEPT ![r] = node_ids]
      BY <1>4 DEF ClientSubmit
    <2>2. node_ids \in Seq(Nodes)
      BY <2>1, ExecCmdAssumption
    <2>3. ids' \in [Cmds -> Seq(Nodes)]
      BY <2>1, <2>2 DEF TypeOK
    <2> QED
      BY <1>4, <2>3 DEF ClientSubmit, TypeOK
  <1>5. ASSUME NEW r \in Cmds, ClientConnected(r) PROVE TypeOK'
    <2>1. PICK sent \in BOOLEAN :
            /\ up' = WriteUp(r, <<Request(sends[r])>>, sent)
            /\ IF sent THEN UNCHANGED <<results, unsent>>
                       ELSE Emit(r, "Failure", {}) /\ unsent' = [unsent EXCEPT ![r] = @ + 1]
      BY <1>5, OutcomesAreBoolean DEF ClientConnected, TypeOK
    <2>2. sends[r] \in 0 .. 2 /\ sends[r] < 2
      BY <1>5 DEF ClientConnected, TypeOK, Inv, CmdInv, ClientInv
    <2>3. sends' \in [Cmds -> 0 .. 2]
      BY <1>5, <2>2 DEF ClientConnected, TypeOK
    <2>4. up' \in [Cmds -> Seq(UpFrames)]
      BY <2>1, <2>2, FramesAreFrames, WriteUpFacts
    <2>5. results' \in [Cmds -> Seq(Results)]
      BY <2>1, EmitType DEF Codes, TypeOK
    <2>6. unsent' \in [Cmds -> Nat]
      <3>1. unsent' = unsent \/ unsent' = [unsent EXCEPT ![r] = unsent[r] + 1]
        BY <2>1
      <3>2. unsent[r] \in Nat /\ unsent[r] + 1 \in Nat
        BY DEF TypeOK
      <3> QED
        BY <3>1, <3>2 DEF TypeOK
    <2> QED
      BY <1>5, <2>3, <2>4, <2>5, <2>6 DEF ClientConnected, TypeOK
  <1>6. ASSUME NEW r \in Cmds, ClientReceive(r) PROVE TypeOK'
    <2> DEFINE frame == Head(down[r])
    <2>1. frame \in DownFrames /\ down' \in [Cmds -> Seq(DownFrames)]
      BY <1>6 DEF ClientReceive, TypeOK
    <2>2. frame.node \subseteq Nodes /\ frame.code \in Codes
      BY <2>1 DEF DownFrames
    <2>3. CASE /\ phase[r] = "open" /\ frame.kind = "response"
               /\ collected' = [collected EXCEPT ![r] = Collect(@, frame)]
               /\ UNCHANGED <<phase, results>>
      BY <1>6, <2>1, <2>2, <2>3 DEF ClientReceive, TypeOK, Collect, DownFrames
    <2>4. CASE /\ phase[r] = "open" /\ frame.kind = "end"
               /\ phase' = [phase EXCEPT ![r] = PhaseAfterEnd]
               /\ EmitCompleted(r, frame.code)
               /\ UNCHANGED collected
      <3>1. collected[r] \in SUBSET Nodes /\ {} \in SUBSET Nodes
        BY DEF TypeOK
      <3>2. results' \in [Cmds -> Seq(Results)]
        BY <2>4, <3>1, EmitType DEF EmitCompleted, Codes
      <3>3. phase' \in [Cmds -> {"none", "waiting", "open", "ended", "dropped"}]
        BY <2>4 DEF TypeOK, PhaseAfterEnd
      <3> HIDE DEF frame
      <3> QED
        BY <1>6, <2>1, <2>4, <3>2, <3>3 DEF ClientReceive, TypeOK
    <2>5. CASE UNCHANGED <<phase, results, collected>>
      BY <1>6, <2>1, <2>5 DEF ClientReceive, TypeOK
    <2> QED
      BY <1>6, <2>3, <2>4, <2>5 DEF ClientReceive
  <1>7. ASSUME NEW r \in Cmds, ClientDrop(r) PROVE TypeOK'
    <2>1. up' \in [Cmds -> Seq(UpFrames)]
      <3>1. CASE phase[r] = "open"
        <4>1. PICK sent \in BOOLEAN : up' = WriteUp(r, <<EndOfClient>>, sent)
          BY <1>7, <3>1, OutcomesAreBoolean DEF ClientDrop, TypeOK
        <4> QED
          BY <4>1, FramesAreFrames, WriteUpFacts
      <3>2. CASE phase[r] # "open"
        BY <1>7, <3>2 DEF ClientDrop, TypeOK
      <3> QED
        BY <3>1, <3>2
    <2> QED
      BY <1>7, <2>1 DEF ClientDrop, TypeOK
  <1>8. ASSUME NEW r \in Cmds, ServiceReceive(r) PROVE TypeOK'
    <2>1. up' \in [Cmds -> Seq(UpFrames)]
      BY <1>8 DEF ServiceReceive, TypeOK
    <2>2. CASE Starts(r)
      <3>1. Unique(ids[r]) \subseteq Nodes
        BY UniqueType DEF TypeOK
      <3>5. ops' = [ops EXCEPT ![r] = Unique(ids[r])] \/ ops' = [ops EXCEPT ![r] = {}]
        BY <2>2, StartsFacts
      <3>2. ops' \in [Cmds -> SUBSET Nodes]
        BY <3>1, <3>5 DEF TypeOK
      <3>4. fsm' \in [Cmds -> {"none", "running", "gone"}]
        BY <2>2, StartsFacts DEF TypeOK
      <3>3. /\ down' \in [Cmds -> Seq(DownFrames)]
            /\ commanded' \in [Cmds -> [Nodes -> Nat]]
            /\ garbled' \subseteq Cmds
        BY <2>2, StartsFacts DEF TypeOK
      <3> QED
        BY <1>8, <2>1, <3>2, <3>3, <3>4 DEF ServiceReceive, TypeOK
    <2>3. CASE Complete(r, <<>>) /\ UNCHANGED <<commanded, garbled>>
      <3>1. <<>> \in Seq(DownFrames)
        OBVIOUS
      <3>2. /\ ops' \in [Cmds -> SUBSET Nodes]
            /\ fsm' \in [Cmds -> {"none", "running", "gone"}]
            /\ down' \in [Cmds -> Seq(DownFrames)]
        BY <2>3, <3>1, CompleteFacts DEF TypeOK
      <3> QED
        BY <1>8, <2>1, <2>3, <3>2 DEF ServiceReceive, TypeOK
    <2>4. CASE UNCHANGED <<fsm, ops, down, commanded, garbled>>
      BY <1>8, <2>1, <2>4 DEF ServiceReceive, TypeOK
    <2> QED
      BY <1>8, <2>2, <2>3, <2>4 DEF ServiceReceive, Starts
  <1>9. ASSUME NEW r \in Cmds, NEW n \in Nodes, NEW success \in BOOLEAN,
               PromiseResolved(r, n, success)
        PROVE  TypeOK'
    <2>1. PICK response \in {<<>>, <<Response(n)>>}, end \in {<<>>, <<EndOf("Success")>>} :
            Resolves(r, n, response, end)
      BY <1>9, PromiseResolvedFacts
    <2>2. ops' \in [Cmds -> SUBSET Nodes]
      <3>1. ops[r] \ {n} \in SUBSET Nodes
        BY DEF TypeOK
      <3> QED
        BY <2>1, <3>1 DEF TypeOK, Resolves
    <2>5. fsm' \in [Cmds -> {"none", "running", "gone"}]
      BY <2>1 DEF TypeOK, Resolves
    <2>3. /\ resolved' \in [Cmds -> SUBSET Nodes]
          /\ answered' \in [Cmds -> SUBSET Nodes]
          /\ refused' \in [Cmds -> SUBSET Nodes]
      <3>1. /\ resolved[r] \cup {n} \in SUBSET Nodes
            /\ answered[r] \cup {n} \in SUBSET Nodes
            /\ refused[r] \cup {n} \in SUBSET Nodes
        BY DEF TypeOK
      <3>2. /\ resolved' = [resolved EXCEPT ![r] = resolved[r] \cup {n}]
            /\ answered' = answered \/ answered' = [answered EXCEPT ![r] = answered[r] \cup {n}]
            /\ refused' = refused \/ refused' = [refused EXCEPT ![r] = refused[r] \cup {n}]
        BY <2>1 DEF Resolves
      <3>3. resolved' \in [Cmds -> SUBSET Nodes]
        BY <3>1, <3>2 DEF TypeOK
      <3>4. answered' \in [Cmds -> SUBSET Nodes]
        BY <3>1, <3>2 DEF TypeOK
      <3>5. refused' \in [Cmds -> SUBSET Nodes]
        BY <3>1, <3>2 DEF TypeOK
      <3> QED
        BY <3>3, <3>4, <3>5
    <2>4. down' \in [Cmds -> Seq(DownFrames)]
      <3>0. <<Response(n)>> \in Seq(DownFrames) /\ <<EndOf("Success")>> \in Seq(DownFrames)
        BY FramesAreFrames DEF Codes
      <3>1. response \in Seq(DownFrames) /\ end \in Seq(DownFrames)
        BY <3>0, EmptySeq
      <3>2. response \o end \in Seq(DownFrames)
        BY <3>1, ConcatProperties
      <3> QED
        BY <2>1, <3>1, <3>2, WriteDownFacts DEF Resolves
    <2> QED
      BY <1>9, <2>2, <2>3, <2>4, <2>5 DEF PromiseResolved, TypeOK
  <1>10. CASE UNCHANGED vars
    BY <1>10 DEF vars, TypeOK
  <1> QED
    BY <1>1, <1>2, <1>3, <1>4, <1>5, <1>6, <1>7, <1>8, <1>9, <1>10 DEF Next
---------------------------------------------------------------------------
(* The invariant holds at first, and every step keeps it.                  *)
LEMMA InvInit == Init => Inv
  <1> SUFFICES ASSUME Init, NEW r \in Cmds PROVE CmdInv(r)
    BY DEF Inv
  <1>1. /\ phase[r] = "none" /\ sends[r] = 0 /\ collected[r] = {} /\ results[r] = <<>>
        /\ up[r] = <<>> /\ down[r] = <<>> /\ fsm[r] = "none" /\ ops[r] = {}
        /\ resolved[r] = {} /\ answered[r] = {} /\ refused[r] = {} /\ r \notin garbled
        /\ unsent[r] = 0
    BY DEF Init
  <1>2. \A n \in Nodes : commanded[r][n] = 0
    BY DEF Init
  <1>3. ClientInv(r) /\ ResultInv(r)
    BY <1>1 DEF ClientInv, ResultInv, Succeeded, Written
  <1>4. UpInv(r) /\ DownInv(r)
    BY <1>1 DEF UpInv, DownInv
  <1>5. FsmInv(r)
    BY <1>1, <1>2 DEF FsmInv
  <1> QED
    BY <1>3, <1>4, <1>5 DEF CmdInv

(* A frame added to the channel starts the service only if it is the       *)
(* first the client sends.                                                 *)
LEMMA UpAppend ==
  ASSUME TypeOK, NEW r \in Cmds, UpInv(r), NEW f \in UpFrames,
         up'[r] = Append(up[r], f), fsm'[r] = fsm[r],
         sends'[r] \in Nat, sends'[r] >= sends[r],
         StartsService(r, f) => sends[r] = 0 /\ sends'[r] > 0
  PROVE  UpInv(r)'
  <1>1. /\ Len(up'[r]) = Len(up[r]) + 1 /\ Len(up[r]) \in Nat
        /\ \A i \in 1 .. Len(up[r]) : up'[r][i] = up[r][i]
        /\ up'[r][Len(up[r]) + 1] = f
    BY AppendProperties DEF TypeOK
  <1>2. sends[r] \in Nat
    <2>1. sends[r] \in 0 .. 2
      BY DEF TypeOK
    <2> QED
      BY <2>1
  <1>3. ASSUME NEW i \in 1 .. Len(up'[r]), StartsService(r, up'[r][i])
        PROVE  \/ i = Len(up[r]) + 1 /\ sends[r] = 0 /\ sends'[r] > 0
               \/ i \in 1 .. Len(up[r]) /\ StartsService(r, up[r][i])
    BY <1>1, <1>3
  <1>4. ASSUME NEW i \in 1 .. Len(up'[r]), StartsService(r, up'[r][i])
        PROVE  fsm'[r] = "none" /\ sends'[r] > 0
    BY <1>2, <1>3, <1>4 DEF UpInv
  <1>5. ASSUME NEW i \in 1 .. Len(up'[r]), StartsService(r, up'[r][i]),
               NEW j \in 1 .. Len(up'[r]), StartsService(r, up'[r][j])
        PROVE  i = j
    BY <1>2, <1>3, <1>5 DEF UpInv
  <1>6. sends'[r] = 0 => fsm'[r] = "none"
    BY <1>2 DEF UpInv
  <1> QED
    BY <1>4, <1>5, <1>6 DEF UpInv, StartsService

(* Unfolding the invariant of one command. *)
LEMMA InvOf == ASSUME Inv, NEW r \in Cmds PROVE CmdInv(r)
  BY DEF Inv

(* sendCommand and submit. *)
LEMMA SubmitInv == ASSUME TypeOK, Inv, NEW r \in Cmds, ClientSubmit(r) PROVE Inv'
  <1> USE DEF clientVars, promiseVars, serviceVars, ClientSubmit, TypeOK
  <1>1. ASSUME NEW q \in Cmds, q # r PROVE CmdInv(q)'
    BY <1>1, InvOf, SameCmd
  <1>2. fsm[r] = "none" /\ sends[r] = 0 /\ collected[r] = {} /\ ops[r] = {}
    BY InvOf DEF CmdInv, ClientInv, UpInv, FsmInv
  <1>3. \A i \in 1 .. Len(results[r]) : results[r][i].code # "Success"
    BY InvOf DEF CmdInv, ClientInv, Over
  <1>4. ClientInv(r)'
    BY <1>2, <1>3, InvOf DEF CmdInv, ClientInv, Over
  <1>5. UpInv(r)'
    BY InvOf DEF CmdInv, UpInv, StartsService
  <1>6. FsmInv(r)'
    BY <1>2, InvOf DEF CmdInv, FsmInv
  <1>7. DownInv(r)'
    BY <1>2, InvOf DEF CmdInv, FsmInv, DownInv, Written
  <1>8. ResultInv(r)'
    BY <1>3 DEF ResultInv, Succeeded
  <1> QED
    BY <1>1, <1>4, <1>5, <1>6, <1>7, <1>8 DEF Inv, CmdInv

(* handleEvent(Connected): a request after the first does not start the    *)
(* service.                                                                *)
LEMMA ConnectedInv == ASSUME TypeOK, Inv, NEW r \in Cmds, ClientConnected(r) PROVE Inv'
  <1> USE DEF clientVars, promiseVars, serviceVars
  <1>0. PICK sent \in BOOLEAN :
          /\ up' = WriteUp(r, <<Request(sends[r])>>, sent)
          /\ IF sent THEN UNCHANGED <<results, unsent>>
                     ELSE Emit(r, "Failure", {}) /\ unsent' = [unsent EXCEPT ![r] = @ + 1]
    BY OutcomesAreBoolean DEF ClientConnected, TypeOK
  <1>1. sends[r] \in Nat /\ Request(sends[r]) \in UpFrames
    <2>1. sends[r] \in 0 .. 2
      BY DEF TypeOK
    <2> QED
      BY <2>1, FramesAreFrames
  <1>2. /\ up' \in [Cmds -> Seq(UpFrames)]
        /\ \A q \in Cmds : q # r => up'[q] = up[q]
        /\ up'[r] = up[r] \/ up'[r] = Append(up[r], Request(sends[r]))
    BY <1>0, <1>1, WriteUpFacts
  <1>3. \/ results' = results /\ unsent' = unsent
        \/ /\ results' = [results EXCEPT ![r] = Append(results[r], [code |-> "Failure", nodes |-> {}])]
           /\ unsent' = [unsent EXCEPT ![r] = unsent[r] + 1]
    BY <1>0 DEF Emit
  <1>4. phase[r] \in {"waiting", "open"} /\ phase'[r] = "open" /\ sends'[r] = sends[r] + 1
    BY DEF ClientConnected, TypeOK
  <1>5. ASSUME NEW q \in Cmds, q # r PROVE CmdInv(q)'
    BY <1>2, <1>3, <1>5, InvOf, SameCmd DEF ClientConnected, TypeOK
  <1>6. \A i \in 1 .. Len(results[r]) : results[r][i].code # "Success"
    BY <1>4, InvOf DEF CmdInv, ClientInv, Over
  <1>7. /\ Len(results'[r]) - Len(results[r]) = unsent'[r] - unsent[r]
        /\ \A i \in 1 .. Len(results'[r]) : results'[r][i].code # "Success"
    <2>1. results[r] \in Seq(Results) /\ [code |-> "Failure", nodes |-> {}] \in Results
      BY DEF TypeOK, Results, Codes
    <2>2. Len(results[r]) \in Nat /\ unsent[r] \in Nat
      BY <2>1 DEF TypeOK
    <2>3. CASE results' = results /\ unsent' = unsent
      BY <1>6, <2>2, <2>3
    <2>4. CASE /\ results' = [results EXCEPT ![r] = Append(results[r], [code |-> "Failure", nodes |-> {}])]
               /\ unsent' = [unsent EXCEPT ![r] = unsent[r] + 1]
      <3>1. /\ results'[r] = Append(results[r], [code |-> "Failure", nodes |-> {}])
            /\ unsent'[r] = unsent[r] + 1
        BY <2>4 DEF TypeOK
      <3>2. /\ Len(results'[r]) = Len(results[r]) + 1
            /\ \A i \in 1 .. Len(results'[r]) : results'[r][i].code # "Success"
        BY <1>6, <2>1, <3>1, AppendProperties
      <3> QED
        BY <2>2, <3>1, <3>2
    <2> QED
      BY <1>3, <2>3, <2>4
  <1>8. ClientInv(r)'
    <2>1. Len(results[r]) = unsent[r]
      BY <1>4, InvOf DEF CmdInv, ClientInv
    <2>2. unsent[r] \in Nat /\ Len(results'[r]) \in Nat /\ unsent'[r] \in Nat
      BY <1>3 DEF TypeOK
    <2> QED
      BY <1>1, <1>4, <1>7, <2>1, <2>2 DEF ClientInv, Over
  <1>9. UpInv(r)'
    <2>1. CASE up'[r] = up[r]
      BY <1>1, <1>4, <2>1, InvOf DEF ClientConnected, CmdInv, UpInv, StartsService
    <2>2. CASE up'[r] = Append(up[r], Request(sends[r]))
      <3>1. StartsService(r, Request(sends[r])) => sends[r] = 0
        BY DEF StartsService, Request
      <3> QED
        BY <1>1, <1>4, <2>2, <3>1, InvOf, UpAppend DEF ClientConnected, CmdInv
    <2> QED
      BY <1>2, <2>1, <2>2
  <1>10. FsmInv(r)'
    BY InvOf DEF ClientConnected, CmdInv, FsmInv
  <1>11. DownInv(r)'
    <2>1. CASE phase[r] = "open"
      BY <2>1, InvOf DEF ClientConnected, CmdInv, DownInv, Written
    <2>2. CASE phase[r] = "waiting"
      <3>1. fsm[r] = "none" /\ collected[r] = {} /\ Written(r) = {} /\ down[r] = <<>>
        BY <2>2, InvOf DEF CmdInv, ClientInv, UpInv, FsmInv, Written
      <3> QED
        BY <3>1 DEF ClientConnected, DownInv, Written
    <2> QED
      BY <1>4, <2>1, <2>2
  <1>12. ResultInv(r)'
    BY <1>7 DEF ResultInv, Succeeded
  <1> QED
    BY <1>5, <1>8, <1>9, <1>10, <1>11, <1>12 DEF Inv, CmdInv

(* The application drops the sender: the end of the channel does not start the service. *)
LEMMA DropInv == ASSUME TypeOK, Inv, NEW r \in Cmds, ClientDrop(r) PROVE Inv'
  <1> USE DEF clientVars, promiseVars, serviceVars
  <1>1. /\ \A q \in Cmds : q # r => up'[q] = up[q]
        /\ up'[r] = up[r] \/ up'[r] = Append(up[r], EndOfClient)
    <2>1. CASE phase[r] = "open"
      <3>1. PICK sent \in BOOLEAN : up' = WriteUp(r, <<EndOfClient>>, sent)
        BY <2>1, OutcomesAreBoolean DEF ClientDrop, TypeOK
      <3> QED
        BY <3>1, FramesAreFrames, WriteUpFacts
    <2>2. CASE phase[r] # "open"
      BY <2>2 DEF ClientDrop
    <2> QED
      BY <2>1, <2>2
  <1>2. ASSUME NEW q \in Cmds, q # r PROVE CmdInv(q)'
    BY <1>1, <1>2, InvOf, SameCmd DEF ClientDrop, TypeOK
  <1>3. phase'[r] = "dropped"
    BY DEF ClientDrop, TypeOK
  <1>4. ClientInv(r)'
    <2>1. Len(results[r]) \in {unsent[r], unsent[r] + 1}
      BY InvOf DEF ClientDrop, CmdInv, ClientInv
    <2> QED
      BY <1>3, <2>1, InvOf DEF ClientDrop, CmdInv, ClientInv, Over
  <1>5. UpInv(r)'
    <2>1. CASE up'[r] = up[r]
      BY <2>1, InvOf DEF ClientDrop, CmdInv, UpInv, StartsService
    <2>2. CASE up'[r] = Append(up[r], EndOfClient)
      <3>1. ~StartsService(r, EndOfClient)
        BY DEF StartsService, EndOfClient
      <3>2. sends[r] \in 0 .. 2 /\ sends' = sends
        BY DEF ClientDrop, TypeOK
      <3> QED
        BY <2>2, <3>1, <3>2, FramesAreFrames, InvOf, UpAppend DEF ClientDrop, CmdInv
    <2> QED
      BY <1>1, <2>1, <2>2
  <1>6. FsmInv(r)'
    BY InvOf DEF ClientDrop, CmdInv, FsmInv
  <1>7. DownInv(r)'
    BY <1>3, InvOf DEF ClientDrop, CmdInv, DownInv, Written
  <1>8. ResultInv(r)'
    BY InvOf DEF ClientDrop, CmdInv, ResultInv, Succeeded, Written
  <1> QED
    BY <1>2, <1>4, <1>5, <1>6, <1>7, <1>8 DEF Inv, CmdInv

(* handleEvent(Input) and handleEvent(Completed): the end comes when       *)
(* nothing else is on its way, so what was collected is all there is.      *)
LEMMA ReceiveInv == ASSUME TypeOK, Inv, NEW r \in Cmds, ClientReceive(r) PROVE Inv'
  <1> USE DEF clientVars, promiseVars, serviceVars
  <1> DEFINE frame == Head(down[r])
  <1>1. down[r] \in Seq(DownFrames) /\ down[r] # <<>> /\ down'[r] = Tail(down[r]) /\ link = "up"
    BY DEF ClientReceive, TypeOK
  <1>2. /\ frame \in DownFrames /\ frame = down[r][1] /\ Len(down[r]) \in Nat \ {0}
        /\ Len(down'[r]) = Len(down[r]) - 1
        /\ \A i \in 1 .. Len(down'[r]) : down'[r][i] = down[r][i + 1]
    BY <1>1, HeadTailProperties
  <1> HIDE DEF frame
  <1>3. UpInv(r)' /\ FsmInv(r)'
    <2>1. UpInv(r)'
      BY InvOf DEF ClientReceive, CmdInv, UpInv, StartsService
    <2>2. fsm[r] # "none"
      BY <1>1, InvOf DEF CmdInv, FsmInv
    <2>3. FsmInv(r)'
      BY <2>2, InvOf DEF ClientReceive, CmdInv, FsmInv
    <2> QED
      BY <2>1, <2>3
  <1>4. ASSUME NEW i \in 1 .. Len(down'[r]), down'[r][i].kind = "end"
        PROVE  /\ i = Len(down'[r]) /\ down'[r][i].node = {} /\ fsm'[r] = "gone"
               /\ down'[r][i].code = "Success" => r \in garbled' \/ resolved'[r] = Unique(ids'[r])
    <2>1. i + 1 \in 1 .. Len(down[r]) /\ down'[r][i] = down[r][i + 1]
      BY <1>2
    <2> QED
      BY <1>2, <1>4, <2>1, InvOf DEF ClientReceive, CmdInv, DownInv
  <1>5. CASE /\ phase[r] = "open" /\ frame.kind = "response"
             /\ collected' = [collected EXCEPT ![r] = Collect(@, frame)]
             /\ UNCHANGED <<phase, results>>
    <2>1. ASSUME NEW q \in Cmds, q # r PROVE CmdInv(q)'
      BY <1>5, <2>1, InvOf, SameCmd DEF ClientReceive, TypeOK
    <2>2. ClientInv(r)' /\ ResultInv(r)'
      BY <1>5, InvOf DEF ClientReceive, CmdInv, ClientInv, ResultInv, Succeeded, Written
    <2>3. ASSUME NEW n \in Nodes
          PROVE  n \in Written(r) <=>
                   n \in collected'[r] \/ \E i \in 1 .. Len(down'[r]) : n \in down'[r][i].node
      <3>1. n \in Written(r) <=>
              n \in collected[r] \/ \E i \in 1 .. Len(down[r]) : n \in down[r][i].node
        BY <1>1, <1>5, InvOf DEF CmdInv, DownInv
      <3>2. collected'[r] = collected[r] \cup frame.node
        BY <1>5 DEF Collect, TypeOK
      <3>3. ASSUME NEW i \in 1 .. Len(down[r]), n \in down[r][i].node
            PROVE  n \in frame.node \/ \E j \in 1 .. Len(down'[r]) : n \in down'[r][j].node
        <4>1. CASE i = 1
          BY <1>2, <3>3, <4>1
        <4>2. CASE i # 1
          <5>1. i - 1 \in 1 .. Len(down'[r]) /\ down'[r][i - 1] = down[r][i]
            BY <1>2, <4>2
          <5> QED
            BY <3>3, <5>1
        <4> QED
          BY <4>1, <4>2
      <3>4. ASSUME NEW j \in 1 .. Len(down'[r]), n \in down'[r][j].node
            PROVE  \E i \in 1 .. Len(down[r]) : n \in down[r][i].node
        <4>1. j + 1 \in 1 .. Len(down[r]) /\ down'[r][j] = down[r][j + 1]
          BY <1>2
        <4> QED
          BY <3>4, <4>1
      <3>5. 1 \in 1 .. Len(down[r])
        BY <1>2
      <3> QED
        BY <1>2, <3>1, <3>2, <3>3, <3>4, <3>5
    <2>4. DownInv(r)'
      BY <1>4, <2>3 DEF ClientReceive, DownInv, Written
    <2> QED
      BY <1>3, <2>1, <2>2, <2>4 DEF Inv, CmdInv
  <1>6. CASE /\ phase[r] = "open" /\ frame.kind = "end"
             /\ phase' = [phase EXCEPT ![r] = PhaseAfterEnd]
             /\ EmitCompleted(r, frame.code)
             /\ UNCHANGED collected
    <2>1. PICK result \in Results :
            /\ results' = [results EXCEPT ![r] = Append(results[r], result)]
            /\ result.code = "Success" => frame.code = "Success" /\ result.nodes = collected[r]
      <3>1. frame.code \in Codes /\ collected[r] \in SUBSET Nodes
        BY <1>2 DEF DownFrames, TypeOK
      <3>2. CASE frame.code # "Success"
        <4> DEFINE result == [code |-> "Failure", nodes |-> {}]
        <4>1. result \in Results /\ result.code = "Failure"
          BY DEF Results, Codes
        <4>2. results' = [results EXCEPT ![r] = Append(results[r], result)]
          BY <1>6, <3>2 DEF EmitCompleted, Emit
        <4> QED
          BY <4>1, <4>2
      <3>3. CASE frame.code = "Success"
        <4> DEFINE result == [code |-> "Success", nodes |-> collected[r]]
        <4>1. result \in Results /\ result.nodes = collected[r]
          BY <3>1 DEF Results, Codes
        <4>2. results' = [results EXCEPT ![r] = Append(results[r], result)]
          BY <1>6, <3>3 DEF EmitCompleted, Emit
        <4> QED
          BY <3>3, <4>1, <4>2
      <3> QED
        BY <3>2, <3>3
    <2>2. ASSUME NEW q \in Cmds, q # r PROVE CmdInv(q)'
      BY <1>6, <2>1, <2>2, InvOf, SameCmd DEF ClientReceive, TypeOK
    <2>3. phase'[r] = "ended" /\ results'[r] = Append(results[r], result)
      BY <1>6, <2>1 DEF PhaseAfterEnd, TypeOK
    <2>4. /\ Len(results'[r]) = Len(results[r]) + 1 /\ Len(results[r]) \in Nat
          /\ \A i \in 1 .. Len(results[r]) : results'[r][i] = results[r][i]
          /\ results'[r][Len(results[r]) + 1] = result
      BY <2>1, <2>3, AppendProperties DEF TypeOK
    <2>5. /\ \A i \in 1 .. Len(results[r]) : results[r][i].code # "Success"
          /\ Len(results[r]) = unsent[r]
      BY <1>6, InvOf DEF CmdInv, ClientInv, Over
    <2>6. ClientInv(r)'
      <3>1. unsent' = unsent
        BY DEF ClientReceive
      <3>2. \A i \in 1 .. Len(results'[r]) : results'[r][i].code = "Success" => i = Len(results'[r])
        BY <2>4, <2>5
      <3>3. Len(results'[r]) = unsent'[r] + 1
        BY <2>4, <2>5, <3>1
      <3> QED
        BY <2>3, <3>2, <3>3 DEF ClientInv, Over
    <2>7. Len(down[r]) = 1 /\ frame.node = {} /\ fsm[r] = "gone"
          /\ (frame.code = "Success" => r \in garbled \/ resolved[r] = Unique(ids[r]))
      <3>1. 1 \in 1 .. Len(down[r])
        BY <1>2
      <3> QED
        BY <1>2, <1>6, <3>1, InvOf DEF CmdInv, DownInv
    <2>8. collected[r] = Written(r)
      <3>1. \A n \in Nodes : n \in Written(r) <=> n \in collected[r]
        BY <1>1, <1>2, <1>6, <2>7, InvOf DEF CmdInv, DownInv
      <3> QED
        BY <3>1 DEF TypeOK, Written
    <2>9. ResultInv(r)'
      <3>1. ASSUME NEW i \in 1 .. Len(results'[r]), results'[r][i].code = "Success"
            PROVE  /\ fsm'[r] = "gone" /\ (r \in garbled' \/ resolved'[r] = Unique(ids'[r]))
                   /\ results'[r][i].nodes = Written(r)'
        <4>1. i = Len(results[r]) + 1
          BY <2>4, <2>5, <3>1
        <4>2. results'[r][i] = result
          BY <2>4, <4>1
        <4> QED
          BY <2>1, <2>7, <2>8, <3>1, <4>2 DEF ClientReceive, Written
      <3> QED
        BY <3>1 DEF ResultInv, Succeeded
    <2>10. DownInv(r)'
      BY <1>4, <2>3 DEF DownInv
    <2> QED
      BY <1>3, <2>2, <2>6, <2>9, <2>10 DEF Inv, CmdInv
  <1>7. CASE phase[r] # "open" /\ UNCHANGED <<phase, results, collected>>
    <2>1. ASSUME NEW q \in Cmds, q # r PROVE CmdInv(q)'
      BY <1>7, <2>1, InvOf, SameCmd DEF ClientReceive, TypeOK
    <2>2. ClientInv(r)' /\ ResultInv(r)'
      BY <1>7, InvOf DEF ClientReceive, CmdInv, ClientInv, ResultInv, Succeeded, Written
    <2>3. DownInv(r)'
      BY <1>4, <1>7 DEF DownInv
    <2> QED
      BY <1>3, <2>1, <2>2, <2>3 DEF Inv, CmdInv
  <1> QED
    BY <1>5, <1>6, <1>7 DEF ClientReceive, frame

(* A lost pipe ends every open client with a failure. *)
LEMMA ClientLossInv == ASSUME TypeOK, Inv, ClientLosesPipe PROVE Inv'
  <1> USE DEF promiseVars, serviceVars
  <1> SUFFICES ASSUME NEW r \in Cmds PROVE CmdInv(r)'
    BY DEF Inv
  <1> DEFINE failure == [code |-> "Failure", nodes |-> {}]
  <1>1. /\ link' = "lost" /\ down'[r] = <<>>
        /\ UNCHANGED <<ids, sends, collected, unsent, up, serviceVars>>
        /\ phase'[r] = IF phase[r] = "open" THEN "ended" ELSE phase[r]
        /\ results'[r] = IF phase[r] = "open" THEN Append(results[r], failure) ELSE results[r]
    BY DEF ClientLosesPipe
  <1>2. results[r] \in Seq(Results) /\ failure \in Results /\ failure.code = "Failure"
    BY DEF TypeOK, Results, Codes
  <1>3. sends[r] \in 0 .. 2
    BY DEF TypeOK
  <1> HIDE DEF failure
  <1>4. UpInv(r)' /\ DownInv(r)'
    BY <1>1, InvOf DEF CmdInv, UpInv, DownInv, StartsService, Written
  <1>5. FsmInv(r)'
    BY <1>1, InvOf DEF CmdInv, FsmInv
  <1>6. CASE phase[r] = "open"
    <2>1. /\ Len(results'[r]) = Len(results[r]) + 1 /\ Len(results[r]) \in Nat
          /\ \A i \in 1 .. Len(results[r]) : results'[r][i] = results[r][i]
          /\ results'[r][Len(results[r]) + 1] = failure
      BY <1>1, <1>2, <1>6, AppendProperties
    <2>2. /\ \A i \in 1 .. Len(results[r]) : results[r][i].code # "Success"
          /\ Len(results[r]) = unsent[r]
      BY <1>6, InvOf DEF CmdInv, ClientInv, Over
    <2>6. \A i \in 1 .. Len(results'[r]) : i \in 1 .. Len(results[r]) \/ i = Len(results[r]) + 1
      BY <2>1
    <2>3. \A i \in 1 .. Len(results'[r]) : results'[r][i].code # "Success"
      <3>1. \A i \in 1 .. Len(results[r]) : results'[r][i].code # "Success"
        BY <2>1, <2>2
      <3>2. results'[r][Len(results[r]) + 1].code # "Success"
        BY <1>2, <2>1
      <3> QED
        BY <2>6, <3>1, <3>2
    <2>4. ClientInv(r)'
      BY <1>1, <1>3, <1>6, <2>1, <2>2, <2>3 DEF ClientInv, Over
    <2>5. ResultInv(r)'
      BY <2>3 DEF ResultInv, Succeeded
    <2> QED
      BY <1>4, <1>5, <2>4, <2>5 DEF CmdInv
  <1>7. CASE phase[r] # "open"
    BY <1>1, <1>4, <1>5, <1>7, InvOf DEF CmdInv, ClientInv, ResultInv, Succeeded, Written
  <1> QED
    BY <1>6, <1>7

(* The daemon ends every Fsm of a lost client. *)
LEMMA ServiceLossInv == ASSUME TypeOK, Inv, ServiceLosesPipe PROVE Inv'
  <1> USE DEF clientVars, promiseVars
  <1> SUFFICES ASSUME NEW r \in Cmds PROVE CmdInv(r)'
    BY DEF Inv
  <1>1. /\ up'[r] = <<>>
        /\ fsm'[r] = IF fsm[r] = "running" THEN "gone" ELSE fsm[r]
        /\ ops'[r] = IF fsm'[r] = "gone" THEN {} ELSE ops[r]
        /\ UNCHANGED <<clientVars, down, commanded, promiseVars, garbled>>
    BY DEF ServiceLosesPipe, FsmAfterLoss
  <1>2. fsm[r] \in {"none", "running", "gone"}
    BY DEF TypeOK
  <1>3. ClientInv(r)'
    BY <1>1, InvOf DEF CmdInv, ClientInv
  <1>4. UpInv(r)'
    BY <1>1, InvOf DEF CmdInv, UpInv
  <1>5. FsmInv(r)'
    BY <1>1, <1>2, InvOf DEF CmdInv, FsmInv
  <1>6. DownInv(r)'
    BY <1>1, InvOf DEF CmdInv, DownInv, Written
  <1>7. ResultInv(r)'
    BY <1>1, InvOf DEF CmdInv, ResultInv, Succeeded, Written
  <1> QED
    BY <1>3, <1>4, <1>5, <1>6, <1>7 DEF CmdInv

(* A channel the service has read a frame of that does not start it. *)
LEMMA UpTail ==
  ASSUME TypeOK, NEW r \in Cmds, UpInv(r), up[r] # <<>>, up'[r] = Tail(up[r]),
         sends'[r] = sends[r], fsm'[r] = fsm[r] \/ sends[r] > 0,
         fsm'[r] = fsm[r] \/ \A i \in 2 .. Len(up[r]) : ~StartsService(r, up[r][i])
  PROVE  UpInv(r)'
  <1>1. sends[r] \in 0 .. 2 /\ up[r] \in Seq(UpFrames)
    BY DEF TypeOK
  <1>2. /\ Len(up[r]) \in Nat \ {0} /\ Len(up'[r]) = Len(up[r]) - 1
        /\ \A i \in 1 .. Len(up'[r]) : up'[r][i] = up[r][i + 1]
    BY <1>1, HeadTailProperties
  <1>3. ASSUME NEW i \in 1 .. Len(up'[r]), StartsService(r, up'[r][i])
        PROVE  /\ i + 1 \in 2 .. Len(up[r]) /\ i + 1 \in 1 .. Len(up[r])
               /\ StartsService(r, up[r][i + 1])
    BY <1>2, <1>3
  <1>4. ASSUME NEW i \in 1 .. Len(up'[r]), StartsService(r, up'[r][i])
        PROVE  fsm'[r] = "none" /\ sends'[r] > 0
    BY <1>3, <1>4 DEF UpInv
  <1>5. ASSUME NEW i \in 1 .. Len(up'[r]), StartsService(r, up'[r][i]),
               NEW j \in 1 .. Len(up'[r]), StartsService(r, up'[r][j])
        PROVE  i = j
    <2>1. i + 1 = j + 1
      BY <1>3, <1>5 DEF UpInv
    <2> QED
      BY <2>1
  <1>6. sends'[r] = 0 => fsm'[r] = "none"
    BY <1>1 DEF UpInv
  <1> QED
    BY <1>4, <1>5, <1>6 DEF UpInv, StartsService

(* The first request starts the Fsm; the end of the channel ends it. *)
LEMMA ServiceReceiveInv == ASSUME TypeOK, Inv, NEW r \in Cmds, ServiceReceive(r) PROVE Inv'
  <1> USE DEF clientVars, promiseVars
  <1> DEFINE frame == Head(up[r])
  <1>1. /\ up[r] \in Seq(UpFrames) /\ up[r] # <<>> /\ up'[r] = Tail(up[r])
        /\ \A q \in Cmds : q # r => up'[q] = up[q]
        /\ UNCHANGED <<clientVars, peer, promiseVars>>
    BY DEF ServiceReceive, TypeOK
  <1>2. frame = up[r][1] /\ Len(up[r]) \in Nat \ {0} /\ 1 \in 1 .. Len(up[r])
    BY <1>1
  <1> HIDE DEF frame
  <1>3. ClientInv(r)'
    BY <1>1, InvOf DEF CmdInv, ClientInv
  <1>4. CASE StartsService(r, frame) /\ Starts(r)
    <2>1. /\ commanded' \in [Cmds -> [Nodes -> Nat]]
          /\ \A q \in Cmds : q # r => commanded'[q] = commanded[q]
          /\ \A n \in Nodes : commanded'[r][n] <= commanded[r][n] + 1
          /\ \A q \in Cmds : q # r => (q \in garbled' <=> q \in garbled)
          /\ r \in garbled' => r \in garbled \/ commanded' = commanded
      BY <1>4, StartsFacts
    <2>2. \A q \in Cmds : q # r => fsm'[q] = fsm[q] /\ ops'[q] = ops[q] /\ down'[q] = down[q]
      <3>1. /\ fsm' = [fsm EXCEPT ![r] = "running"] \/ fsm' = [fsm EXCEPT ![r] = "gone"]
            /\ ops' = [ops EXCEPT ![r] = Unique(ids[r])] \/ ops' = [ops EXCEPT ![r] = {}]
            /\ \A q \in Cmds : q # r => down'[q] = down[q]
        BY <1>4, StartsFacts
      <3> QED
        BY <3>1 DEF TypeOK
    <2>3. ASSUME NEW q \in Cmds, q # r PROVE CmdInv(q)'
      BY <1>1, <2>1, <2>2, <2>3, InvOf, SameCmd
    <2>4. /\ fsm[r] = "none" /\ sends[r] > 0
          /\ \A i \in 2 .. Len(up[r]) : ~StartsService(r, up[r][i])
      <3>1. \A i \in 2 .. Len(up[r]) : i \in 1 .. Len(up[r]) /\ i # 1
        BY <1>2
      <3> QED
        BY <1>2, <1>4, <3>1, InvOf DEF CmdInv, UpInv
    <2>5. /\ resolved[r] = {} /\ answered[r] = {} /\ refused[r] = {} /\ down[r] = <<>>
          /\ \A n \in Nodes : commanded[r][n] = 0
          /\ r \notin garbled
      BY <2>4, InvOf DEF CmdInv, FsmInv
    <2>12. Written(r) = {} /\ Written(r)' = {}
      BY <1>1, <2>5 DEF Written
    <2>6. UpInv(r)'
      BY <1>1, <2>4, InvOf, UpTail DEF CmdInv
    <2>7. \A n \in Nodes : commanded'[r][n] <= 1
      BY <2>1, <2>5
    <2>8. ResultInv(r)'
      BY <1>1, <2>4, InvOf DEF CmdInv, ResultInv, Succeeded, Written
    <2>9. link # "lost" /\ phase[r] = "open" => \A n \in Nodes : n \notin collected[r]
      BY <2>5, <2>12, InvOf DEF CmdInv, DownInv
    <2>10. CASE /\ fsm' = [fsm EXCEPT ![r] = "running"]
                /\ ops' = [ops EXCEPT ![r] = Unique(ids[r])]
                /\ Unique(ids[r]) # {}
                /\ down' = down
                /\ garbled' = garbled
      <3>1. fsm'[r] = "running" /\ ops'[r] = Unique(ids[r]) /\ down'[r] = <<>>
        BY <2>5, <2>10 DEF TypeOK
      <3>2. FsmInv(r)'
        BY <1>1, <2>5, <2>7, <2>10, <3>1 DEF FsmInv
      <3>3. DownInv(r)'
        BY <1>1, <2>5, <2>9, <2>12, <3>1 DEF DownInv
      <3> QED
        BY <1>3, <2>3, <2>6, <2>8, <3>2, <3>3 DEF Inv, CmdInv
    <2>11. ASSUME fsm' = [fsm EXCEPT ![r] = "gone"],
                  ops' = [ops EXCEPT ![r] = {}],
                  NEW code \in Codes,
                  down'[r] = down[r] \/ down'[r] = down[r] \o <<EndOf(code)>>,
                  code = "Success" => r \in garbled' \/ Unique(ids[r]) = {}
           PROVE  Inv'
      <3>1. fsm'[r] = "gone" /\ ops'[r] = {}
        BY <2>11 DEF TypeOK
      <3>2. FsmInv(r)'
        BY <1>1, <2>1, <2>5, <2>7, <3>1 DEF FsmInv
      <3>3. down'[r] = <<>> \/ down'[r] = <<EndOf(code)>>
        <4>1. <<EndOf(code)>> \in Seq(DownFrames)
          BY FramesAreFrames
        <4> QED
          BY <2>5, <2>11, <4>1, ConcatEmptySeq
      <3>4. EndOf(code).node = {} /\ EndOf(code).code = code
        BY DEF EndOf
      <3>5. DownInv(r)'
        <4>1. CASE down'[r] = <<>>
          BY <1>1, <2>5, <2>9, <2>12, <4>1 DEF DownInv
        <4>2. CASE down'[r] = <<EndOf(code)>>
          <5>1. Len(down'[r]) = 1 /\ down'[r][1] = EndOf(code)
            BY <4>2
          <5>2. \A i \in 1 .. Len(down'[r]) : i = 1 /\ down'[r][i] = EndOf(code)
            BY <5>1
          <5> QED
            BY <1>1, <2>5, <2>9, <2>11, <2>12, <3>1, <3>4, <5>1, <5>2 DEF DownInv
        <4> QED
          BY <3>3, <4>1, <4>2
      <3> QED
        BY <1>3, <2>3, <2>6, <2>8, <3>2, <3>5 DEF Inv, CmdInv
    <2> QED
      BY <1>4, <2>10, <2>11, StartsFacts
  <1>5. CASE fsm[r] = "running" /\ Complete(r, <<>>) /\ UNCHANGED <<commanded, garbled>>
    <2>1. /\ ops' = [ops EXCEPT ![r] = {}]
          /\ fsm' = [fsm EXCEPT ![r] = "gone"]
          /\ \A q \in Cmds : q # r => down'[q] = down[q]
          /\ down'[r] = down[r] \/ down'[r] = down[r] \o <<>>
      BY <1>5, EmptySeq, CompleteFacts
    <2>2. down'[r] = down[r]
      BY <2>1, ConcatEmptySeq DEF TypeOK
    <2>3. fsm'[r] = "gone" /\ ops'[r] = {}
      BY <2>1 DEF TypeOK
    <2>4. ASSUME NEW q \in Cmds, q # r PROVE CmdInv(q)'
      <3>1. fsm'[q] = fsm[q] /\ ops'[q] = ops[q]
        BY <2>1, <2>4 DEF TypeOK
      <3> QED
        BY <1>1, <1>5, <2>1, <2>4, <3>1, InvOf, SameCmd
    <2>5. sends[r] > 0 /\ \A i \in 2 .. Len(up[r]) : ~StartsService(r, up[r][i])
      <3>1. \A i \in 2 .. Len(up[r]) : i \in 1 .. Len(up[r])
        BY <1>2
      <3>2. sends[r] \in 0 .. 2
        BY DEF TypeOK
      <3> QED
        BY <1>5, <3>1, <3>2, InvOf DEF CmdInv, UpInv
    <2>6. UpInv(r)'
      BY <1>1, <2>5, InvOf, UpTail DEF CmdInv
    <2>7. FsmInv(r)'
      BY <1>1, <1>5, <2>3, InvOf DEF CmdInv, FsmInv
    <2>8. DownInv(r)'
      BY <1>1, <1>5, <2>2, <2>3, InvOf DEF CmdInv, DownInv, Written
    <2>9. ResultInv(r)'
      BY <1>1, <1>5, <2>3, InvOf DEF CmdInv, ResultInv, Succeeded, Written
    <2> QED
      BY <1>3, <2>4, <2>6, <2>7, <2>8, <2>9 DEF Inv, CmdInv
  <1>6. CASE UNCHANGED <<fsm, ops, down, commanded, garbled>>
    <2>1. ASSUME NEW q \in Cmds, q # r PROVE CmdInv(q)'
      BY <1>1, <1>6, <2>1, InvOf, SameCmd
    <2>2. UpInv(r)'
      BY <1>1, <1>6, InvOf, UpTail DEF CmdInv
    <2>3. FsmInv(r)'
      BY <1>1, <1>6, InvOf DEF CmdInv, FsmInv
    <2>4. DownInv(r)'
      BY <1>1, <1>6, InvOf DEF CmdInv, DownInv, Written
    <2>5. ResultInv(r)'
      BY <1>1, <1>6, InvOf DEF CmdInv, ResultInv, Succeeded, Written
    <2> QED
      BY <1>3, <2>1, <2>2, <2>3, <2>4, <2>5 DEF Inv, CmdInv
  <1> QED
    BY <1>4, <1>5, <1>6 DEF ServiceReceive, Starts, frame

(* Where a sequence is found in a concatenation. *)
LEMMA ConcatAt ==
  ASSUME NEW S, NEW s \in Seq(S), NEW u \in Seq(S), NEW j \in 1 .. Len(u)
  PROVE  (s \o u)[Len(s) + j] = u[j]
  <1>1. \A i \in 1 .. Len(s) + Len(u) :
          (s \o u)[i] = IF i <= Len(s) THEN s[i] ELSE u[i - Len(s)]
    BY ConcatProperties
  <1>2. Len(s) \in Nat /\ Len(u) \in Nat
    OBVIOUS
  <1>3. PICK i \in 1 .. Len(s) + Len(u) : i = Len(s) + j
    BY <1>2
  <1>4. ~(i <= Len(s)) /\ i - Len(s) = j
    BY <1>2, <1>3
  <1> QED
    BY <1>1, <1>3, <1>4

(* A channel t that holds what s held, then a response of n (or none) and  *)
(* then the end (or none).                                                 *)
Extends(s, t, n, response, end) ==
  /\ \A i \in 1 .. Len(t) :
       t[i].kind = "end" => i = Len(t) /\ t[i].node = {} /\ end # <<>>
  /\ \A m : (\E i \in 1 .. Len(t) : m \in t[i].node) <=>
              \/ \E i \in 1 .. Len(s) : m \in s[i].node
              \/ response # <<>> /\ m = n

(* That is what is in the channel after the frames have been added. *)
LEMMA DownAppend ==
  ASSUME NEW n \in Nodes, NEW s \in Seq(DownFrames),
         \A i \in 1 .. Len(s) : s[i].kind # "end",
         NEW response \in {<<>>, <<Response(n)>>}, NEW end \in {<<>>, <<EndOf("Success")>>}
  PROVE  Extends(s, s \o (response \o end), n, response, end)
  <1> DEFINE t == s \o (response \o end)
  <1> SUFFICES Extends(s, t, n, response, end)
    OBVIOUS
  <1>1. /\ <<Response(n)>> \in Seq(DownFrames) /\ <<EndOf("Success")>> \in Seq(DownFrames)
        /\ <<>> \in Seq(DownFrames)
    BY FramesAreFrames DEF Codes
  <1>2. /\ Response(n).kind = "response" /\ Response(n).node = {n}
        /\ EndOf("Success").kind = "end" /\ EndOf("Success").node = {}
    BY DEF Response, EndOf
  <1>3. Len(s) \in Nat
    OBVIOUS
  <1>4. CASE response = <<>> /\ end = <<>>
    <2>1. t = s
      BY <1>1, <1>4, ConcatEmptySeq
    <2> QED
      BY <1>4, <2>1 DEF Extends
  <1>5. ASSUME NEW f, f \in {Response(n), EndOf("Success")}, response \o end = <<f>>,
               f = Response(n) => response # <<>>,
               f = EndOf("Success") => response = <<>> /\ end # <<>>
        PROVE  Extends(s, t, n, response, end)
    <2>1. f \in DownFrames
      BY <1>5, FramesAreFrames DEF Codes
    <2>2. t = Append(s, f)
      BY <1>5, <2>1, AppendIsConcat
    <2>3. /\ Len(t) = Len(s) + 1
          /\ \A i \in 1 .. Len(s) : t[i] = s[i]
          /\ t[Len(s) + 1] = f
      BY <2>1, <2>2, AppendProperties
    <2>4. \A i \in 1 .. Len(t) : i \in 1 .. Len(s) \/ i = Len(s) + 1
      BY <1>3, <2>3
    <2>5. 1 .. Len(s) \subseteq 1 .. Len(t) /\ Len(s) + 1 \in 1 .. Len(t)
      BY <1>3, <2>3
    <2>6. \A m : (\E i \in 1 .. Len(t) : m \in t[i].node) <=>
                  (\E i \in 1 .. Len(s) : m \in s[i].node) \/ m \in f.node
      BY <2>3, <2>4, <2>5
    <2>7. \A m : m \in f.node <=> response # <<>> /\ m = n
      BY <1>2, <1>5
    <2>8. ASSUME NEW i \in 1 .. Len(t), t[i].kind = "end"
          PROVE  i = Len(t) /\ t[i].node = {} /\ end # <<>>
      BY <1>2, <1>5, <2>3, <2>4, <2>8
    <2> QED
      BY <2>6, <2>7, <2>8 DEF Extends
  <1>6. CASE response = <<Response(n)>> /\ end = <<>>
    <2>1. response \o end = <<Response(n)>> /\ response # <<>>
      BY <1>1, <1>6, ConcatEmptySeq
    <2>2. Response(n) # EndOf("Success")
      BY <1>2
    <2> QED
      BY <1>5, <2>1, <2>2
  <1>7. CASE response = <<>> /\ end = <<EndOf("Success")>>
    <2>1. response \o end = <<EndOf("Success")>> /\ end # <<>>
      BY <1>1, <1>7, ConcatEmptySeq
    <2>2. Response(n) # EndOf("Success")
      BY <1>2
    <2> QED
      BY <1>5, <1>7, <2>1, <2>2
  <1>8. CASE response = <<Response(n)>> /\ end = <<EndOf("Success")>>
    <2>1. /\ Len(response) = 1 /\ response[1] = Response(n) /\ response # <<>>
          /\ Len(end) = 1 /\ end[1] = EndOf("Success") /\ end # <<>>
      BY <1>8
    <2>3. /\ response \o end \in Seq(DownFrames)
          /\ Len(response \o end) = 2
          /\ \A i \in 1 .. 2 : (response \o end)[i] = IF i <= 1 THEN response[i] ELSE end[i - 1]
      <3>1. response \in Seq(DownFrames) /\ end \in Seq(DownFrames)
        BY <1>1, <1>8
      <3>2. /\ response \o end \in Seq(DownFrames)
            /\ Len(response \o end) = Len(response) + Len(end)
            /\ \A i \in 1 .. Len(response) + Len(end) :
                 (response \o end)[i] = IF i <= Len(response) THEN response[i]
                                                             ELSE end[i - Len(response)]
        BY <3>1, ConcatProperties
      <3>3. Len(response) + Len(end) = 2
        BY <2>1
      <3> QED
        BY <2>1, <3>2, <3>3
    <2>2. /\ Len(response \o end) = 2
          /\ (response \o end)[1] = Response(n) /\ (response \o end)[2] = EndOf("Success")
          /\ response # <<>> /\ end # <<>>
      <3>1. 1 <= 1 /\ ~(2 <= 1) /\ 2 - 1 = 1 /\ 1 \in 1 .. 2 /\ 2 \in 1 .. 2
        OBVIOUS
      <3> QED
        BY <2>1, <2>3, <3>1
    <2>4. /\ Len(t) = Len(s) + 2
          /\ \A i \in 1 .. Len(s) + 2 : t[i] = IF i <= Len(s) THEN s[i] ELSE (response \o end)[i - Len(s)]
      BY <2>2, <2>3, ConcatProperties
    <2>5. /\ \A i \in 1 .. Len(s) : t[i] = s[i]
          /\ t[Len(s) + 1] = Response(n) /\ t[Len(s) + 2] = EndOf("Success")
      <3>1. \A i \in 1 .. Len(s) : t[i] = s[i]
        BY <1>3, <2>4
      <3>2. 1 \in 1 .. Len(response \o end) /\ 2 \in 1 .. Len(response \o end)
        BY <2>2
      <3>3. \A j \in 1 .. Len(response \o end) : t[Len(s) + j] = (response \o end)[j]
        BY <2>3, ConcatAt
      <3> QED
        BY <2>2, <3>1, <3>2, <3>3
    <2>6. \A i \in 1 .. Len(t) : i \in 1 .. Len(s) \/ i = Len(s) + 1 \/ i = Len(s) + 2
      BY <1>3, <2>4
    <2>7. 1 .. Len(s) \subseteq 1 .. Len(t) /\ Len(s) + 1 \in 1 .. Len(t)
      BY <1>3, <2>4
    <2>8. \A m : (\E i \in 1 .. Len(t) : m \in t[i].node) <=>
                  (\E i \in 1 .. Len(s) : m \in s[i].node) \/ m = n
      <3> SUFFICES ASSUME NEW m
                   PROVE  (\E i \in 1 .. Len(t) : m \in t[i].node) <=>
                          (\E i \in 1 .. Len(s) : m \in s[i].node) \/ m = n
        OBVIOUS
      <3>1. t[Len(s) + 1].node = {n} /\ t[Len(s) + 2].node = {}
        BY <1>2, <2>5
      <3>2. ASSUME NEW i \in 1 .. Len(t), m \in t[i].node
            PROVE  (\E k \in 1 .. Len(s) : m \in s[k].node) \/ m = n
        <4>1. CASE i \in 1 .. Len(s)
          BY <2>5, <3>2, <4>1
        <4>2. CASE i = Len(s) + 1 \/ i = Len(s) + 2
          BY <3>1, <3>2, <4>2
        <4> QED
          BY <2>6, <4>1, <4>2
      <3>3. ASSUME NEW i \in 1 .. Len(s), m \in s[i].node
            PROVE  \E k \in 1 .. Len(t) : m \in t[k].node
        <4>1. i \in 1 .. Len(t) /\ m \in t[i].node
          BY <2>5, <2>7, <3>3
        <4> QED
          BY <4>1
      <3>4. m = n => \E k \in 1 .. Len(t) : m \in t[k].node
        <4>1. m = n => m \in t[Len(s) + 1].node
          BY <3>1
        <4> QED
          BY <2>7, <4>1
      <3> QED
        BY <3>2, <3>3, <3>4
    <2>9. ASSUME NEW i \in 1 .. Len(t), t[i].kind = "end"
          PROVE  i = Len(t) /\ t[i].node = {}
      BY <1>2, <2>4, <2>5, <2>6, <2>9
    <2> QED
      BY <2>2, <2>8, <2>9 DEF Extends
  <1> QED
    BY <1>4, <1>6, <1>7, <1>8

(* The callback of a promise. *)
LEMMA ResolvedInv ==
  ASSUME TypeOK, Inv, NEW r \in Cmds, NEW n \in Nodes, NEW success \in BOOLEAN,
         PromiseResolved(r, n, success)
  PROVE  Inv'
  <1> USE DEF clientVars, promiseVars
  <1>1. PICK response \in {<<>>, <<Response(n)>>}, end0 \in {<<>>, <<EndOf("Success")>>} :
          Resolves(r, n, response, end0)
    BY PromiseResolvedFacts
  <1>2. UNCHANGED <<clientVars, peer, up, commanded, garbled>>
    BY DEF PromiseResolved
  <1>3. /\ fsm[r] = "running" /\ n \in ops[r]
        /\ ops[r] \cup resolved[r] = Unique(ids[r]) /\ r \notin garbled
        /\ n \notin answered[r] /\ n \notin refused[r]
    BY <1>1, InvOf DEF Resolves, CmdInv, FsmInv
  <1>4. resolved'[r] = resolved[r] \cup {n}
    BY <1>1 DEF Resolves, TypeOK
  <1>18. /\ answered'[r] \subseteq answered[r] \cup {n} /\ refused'[r] \subseteq refused[r] \cup {n}
         /\ Written(r)' = IF response = <<>> THEN Written(r) ELSE Written(r) \cup {n}
    <2>1. \/ answered'[r] = answered[r] /\ refused'[r] = refused[r] /\ response = <<>>
          \/ /\ answered'[r] = answered[r] \cup {n}
             /\ \/ refused'[r] = refused[r] /\ response # <<>>
                \/ refused'[r] = refused[r] \cup {n} /\ response = <<>>
      BY <1>1 DEF Resolves, TypeOK
    <2>2. Written(r) = answered[r] \ refused[r] /\ Written(r)' = answered'[r] \ refused'[r]
      BY DEF Written
    <2> QED
      BY <1>3, <2>1, <2>2
  <1>5. Written(r)' = IF response = <<>> THEN Written(r) ELSE Written(r) \cup {n}
    BY <1>18
  <1>6. <<>> \in Seq(DownFrames) /\ response \in Seq(DownFrames) /\ end0 \in Seq(DownFrames)
    <2>1. <<Response(n)>> \in Seq(DownFrames) /\ <<EndOf("Success")>> \in Seq(DownFrames)
      BY FramesAreFrames DEF Codes
    <2> QED
      BY <2>1, EmptySeq
  <1>7. PICK end \in {<<>>, <<EndOf("Success")>>} :
          /\ down' = WriteDown(r, response \o end, TRUE)
          /\ \/ /\ ops[r] = {n}
                /\ ops' = [ops EXCEPT ![r] = {}]
                /\ fsm' = [fsm EXCEPT ![r] = "gone"]
             \/ /\ ops[r] # {n} /\ end = <<>>
                /\ ops' = [ops EXCEPT ![r] = @ \ {n}]
                /\ fsm' = fsm
    <2>1. CASE ops[r] = {n}
      BY <1>1, <2>1 DEF Resolves
    <2>2. CASE ops[r] # {n}
      <3>1. response \o <<>> = response
        BY <1>6, ConcatEmptySeq
      <3> QED
        BY <1>1, <2>2, <3>1 DEF Resolves
    <2> QED
      BY <2>1, <2>2
  <1>8. end \in Seq(DownFrames) /\ response \o end \in Seq(DownFrames)
    <2>1. <<EndOf("Success")>> \in Seq(DownFrames)
      BY FramesAreFrames DEF Codes
    <2>2. end \in Seq(DownFrames)
      BY <1>6, <1>7, <2>1
    <2> QED
      BY <1>6, <2>2, ConcatProperties
  <1>9. /\ \A q \in Cmds : q # r => down'[q] = down[q]
        /\ down'[r] = IF link # "lost" THEN down[r] \o (response \o end) ELSE down[r]
    BY <1>7, <1>8, WriteDownFacts
  <1>10. ASSUME NEW q \in Cmds, q # r PROVE CmdInv(q)'
    <2>1. fsm'[q] = fsm[q] /\ ops'[q] = ops[q]
      BY <1>7, <1>10 DEF TypeOK
    <2>2. resolved'[q] = resolved[q] /\ answered'[q] = answered[q] /\ refused'[q] = refused[q]
      BY <1>1, <1>10 DEF Resolves, TypeOK
    <2> QED
      BY <1>2, <1>9, <1>10, <2>1, <2>2, InvOf, SameCmd
  <1>11. ClientInv(r)'
    BY <1>2, InvOf DEF CmdInv, ClientInv
  <1>12. \/ ops'[r] = {} /\ fsm'[r] = "gone" /\ ops[r] = {n}
         \/ ops'[r] = ops[r] \ {n} /\ ops[r] # {n} /\ fsm'[r] = "running" /\ end = <<>>
    BY <1>3, <1>7 DEF TypeOK
  <1>13. UpInv(r)'
    BY <1>2, <1>3, InvOf DEF CmdInv, UpInv, StartsService
  <1>14. FsmInv(r)'
    BY <1>2, <1>3, <1>4, <1>12, <1>18, InvOf DEF CmdInv, FsmInv
  <1>15. ResultInv(r)'
    BY <1>2, <1>3, InvOf DEF CmdInv, ResultInv, Succeeded, Written
  <1>16. \A i \in 1 .. Len(down[r]) : down[r][i].kind # "end"
    BY <1>3, InvOf DEF CmdInv, DownInv
  <1>17. DownInv(r)'
    <2>1. CASE link = "lost"
      <3>1. link' = "lost" /\ down'[r] = down[r]
        BY <1>2, <1>9, <2>1
      <3> QED
        BY <1>16, <3>1 DEF DownInv
    <2>2. CASE link # "lost"
      <3> DEFINE t == down'[r]
      <3>1. t = down[r] \o (response \o end) /\ down[r] \in Seq(DownFrames)
        BY <1>9, <2>2 DEF TypeOK
      <3> HIDE DEF t
      <3>2. Extends(down[r], t, n, response, end)
        BY <1>16, <3>1, DownAppend
      <3>3. ASSUME NEW i \in 1 .. Len(t), t[i].kind = "end"
            PROVE  /\ i = Len(t) /\ t[i].node = {} /\ fsm'[r] = "gone"
                   /\ resolved'[r] = Unique(ids'[r])
        <4>1. i = Len(t) /\ t[i].node = {} /\ end # <<>>
          BY <3>2, <3>3 DEF Extends
        <4> QED
          BY <1>2, <1>3, <1>4, <1>12, <4>1
      <3>4. ASSUME phase'[r] = "open", NEW m \in Nodes
            PROVE  m \in Written(r)' <=>
                     m \in collected'[r] \/ \E i \in 1 .. Len(t) : m \in t[i].node
        <4>1. m \in Written(r) <=>
                m \in collected[r] \/ \E i \in 1 .. Len(down[r]) : m \in down[r][i].node
          BY <1>2, <2>2, <3>4, InvOf DEF CmdInv, DownInv
        <4> QED
          BY <1>2, <1>5, <3>2, <4>1 DEF Extends
      <3> QED
        BY <3>3, <3>4 DEF DownInv, t
    <2> QED
      BY <2>1, <2>2
  <1> QED
    BY <1>10, <1>11, <1>13, <1>14, <1>15, <1>17 DEF Inv, CmdInv

(* The handshake and its failure leave every command alone. *)
LEMMA LinkInv == ASSUME TypeOK, Inv, LinkUp \/ LinkRefused \/ UNCHANGED vars PROVE Inv'
  <1> SUFFICES ASSUME NEW q \in Cmds PROVE CmdInv(q)'
    BY DEF Inv
  <1> QED
    BY InvOf, SameCmd DEF LinkUp, LinkRefused, vars, clientVars, promiseVars, serviceVars

(* The invariant and the types together are inductive. *)
LEMMA ExecCmdInvariant == Spec => [](TypeOK /\ Inv)
  <1>1. TypeOK /\ Inv /\ [Next]_vars => Inv'
    BY LinkInv, ClientLossInv, ServiceLossInv, SubmitInv, ConnectedInv, ReceiveInv, DropInv,
       ServiceReceiveInv, ResolvedInv
    DEF Next
  <1> QED
    BY <1>1, TypeInit, InvInit, TypeStep, PTL DEF Spec
---------------------------------------------------------------------------
(* Type correctness of client, channel and service; in particular a        *)
(* request is given to its channel at most twice.                          *)
THEOREM ExecCmdTypeCorrect == Spec => []TypeOK
  BY ExecCmdInvariant, PTL

(* No node is sent a command twice, though node_ids may repeat, the        *)
(* request may be sent twice and calls may fail half-way (Fsm::start).     *)
THEOREM CommandedOnce == Spec => []NodeCommandedOnce
  <1>1. Inv => NodeCommandedOnce
    BY DEF Inv, CmdInv, FsmInv, NodeCommandedOnce
  <1> QED
    BY <1>1, ExecCmdInvariant, PTL

(* A running Fsm has a pending call, and one that is gone has none         *)
(* (Fsm::complete).                                                        *)
THEOREM FsmHasWork == Spec => []RunningFsmHasWork
  <1>1. Inv => RunningFsmHasWork
    BY DEF Inv, CmdInv, FsmInv, RunningFsmHasWork
  <1> QED
    BY <1>1, ExecCmdInvariant, PTL

(* The end of a command is reported once, nothing is reported after it, and*)
(* before it exactly the failed attempts to send                           *)
(* (ExecCmdClientImpl::handleEvent).                                       *)
THEOREM FinalResultComesLast == Spec => []FinalResultIsLast
  <1>1. TypeOK /\ Inv => FinalResultIsLast
    <2> SUFFICES ASSUME TypeOK, Inv, NEW r \in Cmds, NEW i \in 1 .. Len(results[r]) - 1
                 PROVE  results[r][i].code = "Failure"
      BY InvOf DEF FinalResultIsLast, CmdInv, ClientInv
    <2>1. results[r] \in Seq(Results) /\ Len(results[r]) \in Nat
      BY DEF TypeOK
    <2>2. i \in 1 .. Len(results[r]) /\ i # Len(results[r])
      BY <2>1
    <2>3. results[r][i] \in Results
      BY <2>1, <2>2, ElementOfSeq
    <2>4. results[r][i].code # "Success"
      BY <2>2, InvOf DEF CmdInv, ClientInv
    <2> QED
      BY <2>3, <2>4 DEF Codes, Results
  <1> QED
    BY <1>1, ExecCmdInvariant, PTL

(* A success is reported after every node asked has been resolved, and     *)
(* with every response but those the channel did not take: the channel's   *)
(* end overtakes none of them, and no late response changes it. Only for a *)
(* request that could not be decoded it means nothing was done.            *)
THEOREM SuccessReportsEverything == Spec => []SuccessIsComplete
  <1>1. Inv => SuccessIsComplete
    <2> SUFFICES ASSUME Inv, NEW r \in Cmds, NEW i \in Succeeded(r)
                 PROVE  IF r \in garbled
                          THEN results[r][i].nodes = {} /\ \A n \in Nodes : commanded[r][n] = 0
                          ELSE /\ resolved[r] = Unique(ids[r])
                               /\ results[r][i].nodes = answered[r] \ refused[r]
      BY DEF SuccessIsComplete
    <2>1. (r \in garbled \/ resolved[r] = Unique(ids[r])) /\ results[r][i].nodes = answered[r] \ refused[r]
      BY InvOf DEF CmdInv, ResultInv, Written
    <2>2. r \in garbled => answered[r] = {} /\ \A n \in Nodes : commanded[r][n] = 0
      BY InvOf DEF CmdInv, FsmInv
    <2> QED
      BY <2>1, <2>2
  <1> QED
    BY <1>1, ExecCmdInvariant, PTL

=============================================================================
