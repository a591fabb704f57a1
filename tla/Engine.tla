------------------------------- MODULE Engine -------------------------------
(***************************************************************************)
(* The daemon's configuration file and the start of its engine: main loads *)
(* the file, Engine::init brings up transport, node and IPC in that order  *)
(* and in between generates the node's unique id, if there is none, and    *)
(* saves the file.  Several launches may overlap, a daemon may fail to     *)
(* start or crash anywhere, saving the file included, and the operator     *)
(* edits the file when he likes.                                           *)
(***************************************************************************)
EXTENDS Naturals, FiniteSets

CONSTANTS Launches,  \* processes of the daemon, each of which can be started again
          MaxIds,    \* bound: ids generated
          MaxEdits,  \* bound: edits of the operator
          Faults     \* subset of {"crash", "full", "readonly", "throw", "transport"}

ASSUME EngineAssumption == MaxIds \in Nat /\ MaxEdits \in Nat

VARIABLES
  file,     \* the configuration file
  pc,       \* where every process is
  root,     \* its copy of the configuration
  dirty,    \* is_dirty_
  drawn,    \* ids generated so far
  edits,    \* edits made so far
  shown,    \* the ids nodes have had on the network
  overlap,  \* a process loaded the file while another one was unsettled
  raced,    \* the operator edited the file while a process was unsettled
  damaged   \* a save was cut short or refused, or never made up for

vars == <<file, pc, root, dirty, drawn, edits, shown, overlap, raced, damaged>>

NoId == 0

(* The sections of the file in their order: the application with the id,   *)
(* the transport, the IPC connections, and the rest, which stands for what *)
(* the operator last wrote.                                                *)
Shipped == [id |-> NoId, interfaces |-> TRUE, connections |-> TRUE, rest |-> 0]
NumSections == 4
Sections(r, n) ==
  [id          |-> IF n >= 1 THEN r.id ELSE NoId,
   interfaces  |-> n >= 2 /\ r.interfaces,
   connections |-> n >= 3 /\ r.connections,
   rest        |-> IF n >= 4 THEN r.rest ELSE 0]

(* A file that ends in the middle may still be valid TOML, or not. *)
Content(r, n) == [root |-> Sections(r, n), whole |-> n \in {0, NumSections}]

Steps == {"off", "init", "node", "save", "write", "named", "ipc", "run", "exit", "lastWrite"}

(* What a configuration may hold. *)
Config == [id : 0..MaxIds, interfaces : BOOLEAN, connections : BOOLEAN, rest : 0..MaxEdits]

(* Every variable has its type. *)
TypeOK ==
  /\ file \in [root : Config, whole : BOOLEAN]
  /\ pc \in [Launches -> Steps]
  /\ root \in [Launches -> Config]
  /\ dirty \in [Launches -> BOOLEAN]
  /\ drawn \in 0..MaxIds /\ edits \in 0..MaxEdits /\ shown \subseteq 0..MaxIds
  /\ overlap \in BOOLEAN /\ raced \in BOOLEAN /\ damaged \in BOOLEAN

Init ==
  /\ file = Content(Shipped, NumSections)
  /\ pc = [p \in Launches |-> "off"]
  /\ root = [p \in Launches |-> Shipped]
  /\ dirty = [p \in Launches |-> FALSE]
  /\ drawn = 0 /\ edits = 0 /\ shown = {}
  /\ overlap = FALSE /\ raced = FALSE /\ damaged = FALSE

Starting(p) == pc[p] \in {"init", "node", "save", "write"}

(* It may still write the file: it is starting, or its save has failed with*)
(* an exception and main will try again when it stops.                     *)
Unsettled(p) == Starting(p) \/ dirty[p]

(* Its node is on the network with an id that is not in the file. *)
Owes(p) == dirty[p] /\ root[p].id \in shown

Goto(p, step) == pc' = [pc EXCEPT ![p] = step]
---------------------------------------------------------------------------
(* loadConfig and Config::make, with nothing to save yet. *)
LoadConfig(p) ==
  /\ pc[p] = "off"
  /\ root' = [root EXCEPT ![p] = file.root]
  /\ dirty' = [dirty EXCEPT ![p] = FALSE]
  /\ overlap' = (overlap \/ \E q \in Launches : Unsettled(q))
  /\ Goto(p, "init")
  /\ UNCHANGED <<file, drawn, edits, shown, raced, damaged>>

(* The process exits, without saving: the file cannot be parsed, there is  *)
(* no transport or no node, no IPC connection is configured, or another    *)
(* daemon has its address.                                                 *)
Exits(p) ==
  /\ Goto(p, "off")
  /\ root' = [root EXCEPT ![p] = Shipped]
  /\ dirty' = [dirty EXCEPT ![p] = FALSE]
  /\ damaged' = (damaged \/ Owes(p))
  /\ UNCHANGED <<file, drawn, edits, shown, overlap, raced>>

LoadConfigFails(p) == pc[p] = "off" /\ ~file.whole /\ Exits(p)

(* Engine::init, 1 to 3: the transport needs interfaces, and one of them   *)
(* that works (see Media).                                                 *)
MakeTransport(p) ==
  /\ pc[p] = "init" /\ root[p].interfaces
  /\ Goto(p, "node")
  /\ UNCHANGED <<file, root, dirty, drawn, edits, shown, overlap, raced, damaged>>

MakeTransportFails(p) ==
  /\ pc[p] = "init"
  /\ ~root[p].interfaces \/ "transport" \in Faults
  /\ Exits(p)

MutNotDirty == FALSE  \* mutant: the flag is not set
(* setCyphalAppUniqueId: the configuration differs from the file now. *)
DirtyWithNewId == TRUE

(* Engine::getUniqueId: a new id is saved at once, before anybody sees it. *)
GetUniqueId(p) ==
  /\ pc[p] = "node"
  /\ \/ /\ root[p].id # NoId
        /\ Goto(p, "named")
        /\ UNCHANGED <<root, dirty, drawn>>
     \/ /\ root[p].id = NoId /\ drawn < MaxIds
        /\ drawn' = drawn + 1
        /\ root' = [root EXCEPT ![p].id = drawn']
        /\ dirty' = [dirty EXCEPT ![p] = DirtyWithNewId]
        /\ Goto(p, IF DirtyWithNewId THEN "save" ELSE "named")
  /\ UNCHANGED <<file, edits, shown, overlap, raced, damaged>>

MutSavesAlways(p) == TRUE  \* mutant: the flag is not looked at
NeedsSaving(p) == dirty[p]

(* ConfigImpl::save, called by getUniqueId and by main: opening the file   *)
(* empties it.  That it cannot be opened nobody notices: the configuration *)
(* counts as saved.                                                        *)
OpenFile(p) ==
  /\ pc[p] \in {"save", "exit"} /\ NeedsSaving(p)
  /\ \/ /\ file' = Content(root[p], 0)
        /\ Goto(p, IF pc[p] = "save" THEN "write" ELSE "lastWrite")
        /\ UNCHANGED <<dirty, damaged>>
     \/ /\ "readonly" \in Faults
        /\ Goto(p, IF pc[p] = "save" THEN "named" ELSE "off")
        /\ dirty' = [dirty EXCEPT ![p] = FALSE]
        /\ damaged' = TRUE
        /\ UNCHANGED file
  /\ UNCHANGED <<root, drawn, edits, shown, overlap, raced>>

(* An exception before the file is open, from the time stamp or format():  *)
(* it is logged, the configuration stays dirty and the process goes on, to *)
(* the network or, in main, to its end.                                    *)
SaveThrows(p) ==
  /\ "throw" \in Faults
  /\ pc[p] \in {"save", "exit"} /\ NeedsSaving(p)
  /\ \/ /\ pc[p] = "save"
        /\ Goto(p, "named")
        /\ UNCHANGED <<file, root, dirty, drawn, edits, shown, overlap, raced, damaged>>
     \/ pc[p] = "exit" /\ Exits(p)

Writing(p) == pc[p] \in {"write", "lastWrite"}

(* ... and writing it.  A full disk is not noticed.  Only then is it clean. *)
WriteFile(p) ==
  /\ Writing(p)
  /\ \/ file' = Content(root[p], NumSections) /\ UNCHANGED damaged
     \/ /\ "full" \in Faults
        /\ \E n \in 1..NumSections - 1 : file' = Content(root[p], n)
        /\ damaged' = TRUE
  /\ Goto(p, IF pc[p] = "write" THEN "named" ELSE "off")
  /\ dirty' = [dirty EXCEPT ![p] = FALSE]
  /\ UNCHANGED <<root, drawn, edits, shown, overlap, raced>>

(* Engine::init, 4: the node gets its id. *)
SetUniqueId(p) ==
  /\ pc[p] = "named"
  /\ shown' = shown \cup {root[p].id}
  /\ Goto(p, "ipc")
  /\ UNCHANGED <<file, root, dirty, drawn, edits, overlap, raced, damaged>>

(* Engine::init, 6: the router starts unless another daemon listens. *)
StartIpc(p) ==
  /\ pc[p] = "ipc" /\ root[p].connections
  /\ \A q \in Launches : pc[q] # "run"
  /\ Goto(p, "run")
  /\ UNCHANGED <<file, root, dirty, drawn, edits, shown, overlap, raced, damaged>>

StartIpcFails(p) ==
  /\ pc[p] = "ipc"
  /\ ~root[p].connections \/ \E q \in Launches : pc[q] = "run"
  /\ Exits(p)

(* runWhile returns, and main saves the configuration if it has to. *)
Stop(p) ==
  /\ pc[p] = "run"
  /\ Goto(p, "exit")
  /\ UNCHANGED <<file, root, dirty, drawn, edits, shown, overlap, raced, damaged>>

Exit(p) == pc[p] = "exit" /\ ~NeedsSaving(p) /\ Exits(p)

(* The process dies; one that is writing leaves what it had written. *)
Crash(p) ==
  /\ "crash" \in Faults /\ pc[p] # "off"
  /\ \/ ~Writing(p) /\ damaged' = (damaged \/ Owes(p)) /\ UNCHANGED file
     \/ /\ Writing(p) /\ damaged' = TRUE
        /\ \E n \in 0..NumSections - 1 : file' = Content(root[p], n)
  /\ Goto(p, "off")
  /\ root' = [root EXCEPT ![p] = Shipped]
  /\ dirty' = [dirty EXCEPT ![p] = FALSE]
  /\ UNCHANGED <<drawn, edits, shown, overlap, raced>>

(* The operator changes what he cares for; what is not his he leaves.      *)
Edit ==
  /\ edits < MaxEdits
  /\ edits' = edits + 1
  /\ file' = Content([Shipped EXCEPT !.id = file.root.id, !.rest = edits'], NumSections)
  /\ raced' = (raced \/ \E p \in Launches : Unsettled(p))
  /\ UNCHANGED <<pc, root, dirty, drawn, shown, overlap, damaged>>

Next ==
  \/ Edit
  \/ \E p \in Launches :
       \/ LoadConfig(p) \/ LoadConfigFails(p) \/ MakeTransport(p) \/ MakeTransportFails(p)
       \/ GetUniqueId(p) \/ OpenFile(p) \/ SaveThrows(p) \/ WriteFile(p) \/ SetUniqueId(p)
       \/ StartIpc(p) \/ StartIpcFails(p) \/ Stop(p) \/ Exit(p) \/ Crash(p)

Spec == Init /\ [][Next]_vars
---------------------------------------------------------------------------
(* The node has the same unique id in all its runs, failed starts and      *)
(* crashes included (engine.cpp: the default is "only used at the first    *)
(* run"), also when saving it threw and only main's save at the end puts it*)
(* into the file.  The exceptions: a daemon is launched while another one  *)
(* is starting or has its id still to save; a save was cut short or        *)
(* refused, which save() does not notice; or one that threw was not made up*)
(* for before the process ended.                                           *)
SameIdInEveryRun == Cardinality(shown) <= 1 \/ overlap \/ damaged

(* What the operator wrote into the file is still there, however long the  *)
(* daemon has been running on an older copy when it stops.  The exceptions *)
(* are an edit while a daemon was starting, or while one ran whose save had*)
(* thrown - it writes its old copy over the edit when it stops - and a save*)
(* that was cut short.  While a save is being made the file is empty.      *)
EditsSurvive ==
  file.root.rest = edits \/ raced \/ damaged \/ \E p \in Launches : Writing(p)

=============================================================================
